---------------------------- MODULE Flows_proofs -----------------------------
(***************************************************************************)
(* Proofs about flows, for any number of them.  First how they are edited  *)
(* and listed (FlowService, CachedReads): a flow is published once, and an *)
(* outdated list is the work of a race.  Then how they are run             *)
(* (FlowEngines): a run is determined by the path it took and the answers  *)
(* it was given, and what either engine decides is read off these.         *)
(***************************************************************************)
EXTENDS CachedReads, FlowEngines, FiniteSetTheorems, TLAPS

-----------------------------------------------------------------------------
(* The life of a flow.                                                       *)

\* No flow exists at first.
LEMMA InitInv == Init => FlowInv
BY NoFlowAssumption
   DEF Init, FlowInv, CopiesLag, NoEdit, Released, SnapshotsOf, Life!TypeOK, Life!PublishedOnce, Life!Released, Life!SnapshotsOf

(* A call that loads or gives up changes no table.                           *)
LEMMA LoadStep ==
    ASSUME FlowInv, NEW e \in Editors,
           \/ \E f \in Flows : LoadToPublish(e, f) \/ LoadToDeprecate(e, f)
           \/ EditFails(e)
    PROVE  FlowInv' /\ UNCHANGED Life!vars
<1>1. status' = status /\ snapshots' = snapshots
    BY DEF LoadToPublish, LoadToDeprecate, EditFails
<1>2. Life!TypeOK' /\ Life!PublishedOnce'
    BY <1>1 DEF FlowInv, Life!TypeOK, Life!PublishedOnce, Life!SnapshotsOf
<1>3. PICK q \in {NoEdit} \cup [stage : {"publishing", "deprecating"}, flow : Flows] :
        /\ edit' = [edit EXCEPT ![e] = q]
        /\ q.stage = "publishing" => status[q.flow] # "ABSENT"
        /\ q.stage = "deprecating" => status[q.flow] \in Released
    BY DEF LoadToPublish, LoadToDeprecate, EditFails, NoEdit, Released
<1>4. edit' \in [Editors -> {NoEdit} \cup [stage : {"publishing", "deprecating"}, flow : Flows]]
    BY <1>3 DEF FlowInv
<1>5. CopiesLag'
    BY <1>1, <1>3 DEF FlowInv, CopiesLag
<1> QED BY <1>1, <1>2, <1>4, <1>5 DEF FlowInv, Life!vars

\* A created flow is a draft without a snapshot.
LEMMA CreateFlowStep ==
    ASSUME FlowInv, NEW f \in Flows, CreateFlow(f) PROVE FlowInv' /\ Life!Draft(f)
<1>1. Life!TypeOK' /\ Life!PublishedOnce'
    BY DEF FlowInv, CreateFlow, Life!TypeOK, Life!PublishedOnce, Life!SnapshotsOf, Life!Released
<1>2. CopiesLag'
    BY DEF FlowInv, CreateFlow, CopiesLag, Life!TypeOK, Released
<1> QED BY <1>1, <1>2 DEF FlowInv, CreateFlow, Life!Draft

(* The insert is refused unless the flow has no snapshot, and so never was   *)
(* published: whatever the copy said, the row is a draft.                    *)
LEMMA PublishStep ==
    ASSUME FlowInv, NEW e \in Editors, Publish(e) PROVE FlowInv' /\ Life!Publish(edit[e].flow)
<1> DEFINE f == edit[e].flow
<1>1. f \in Flows
    BY DEF FlowInv, Publish, NoEdit
<1>2. status[f] = "DRAFT"
    BY <1>1 DEF FlowInv, Publish, MayInsertSnapshot, SnapshotsOf, CopiesLag, Released,
                Life!PublishedOnce, Life!SnapshotsOf, Life!Released, Life!TypeOK
<1>3. PICK s \in Snapshots : snapshots[s] = NoFlow /\ snapshots' = [snapshots EXCEPT ![s] = f]
    BY DEF Publish, SnapshotsOf
<1>4. status' = [status EXCEPT ![f] = "PUBLISHED"] /\ edit' = [edit EXCEPT ![e] = NoEdit]
    BY DEF Publish
<1>5. Life!Publish(f)
    BY <1>2, <1>3, <1>4 DEF Life!Publish, Life!SnapshotsOf
<1>6. Life!TypeOK'
    BY <1>1, <1>3, <1>4 DEF FlowInv, Life!TypeOK, Life!Released
<1>7. Life!PublishedOnce'
    <2> SUFFICES ASSUME NEW g \in Flows
                 PROVE /\ status'[g] \in Life!Released <=> Life!SnapshotsOf(g)' # {}
                       /\ \A s1, s2 \in Life!SnapshotsOf(g)' : s1 = s2
        BY DEF Life!PublishedOnce, Life!Released
    <2>1. Life!SnapshotsOf(f) = {}
        BY DEF Publish, MayInsertSnapshot, SnapshotsOf, Life!SnapshotsOf
    <2>2. CASE g = f
        <3>1. Life!SnapshotsOf(g)' = {s}
            BY <1>1, <1>3, <2>1, <2>2 DEF FlowInv, Life!TypeOK, Life!SnapshotsOf
        <3> QED BY <1>1, <1>4, <2>2, <3>1 DEF FlowInv, Life!TypeOK, Life!Released
    <2>3. CASE g # f
        <3>1. Life!SnapshotsOf(g)' = Life!SnapshotsOf(g) /\ status'[g] = status[g]
            BY <1>3, <1>4, <2>3, NoFlowAssumption DEF FlowInv, Life!TypeOK, Life!SnapshotsOf
        <3> QED BY <3>1 DEF FlowInv, Life!PublishedOnce, Life!Released
    <2> QED BY <2>2, <2>3
<1>8. CopiesLag'
    BY <1>1, <1>4 DEF FlowInv, CopiesLag, Life!TypeOK, Released, NoEdit
<1>9. edit' \in [Editors -> {NoEdit} \cup [stage : {"publishing", "deprecating"}, flow : Flows]]
    BY <1>4 DEF FlowInv
<1> QED BY <1>5, <1>6, <1>7, <1>8, <1>9 DEF FlowInv

\* Only a released flow is deprecated, and it stays so.
LEMMA DeprecateStep ==
    ASSUME FlowInv, NEW e \in Editors, Deprecate(e)
    PROVE  FlowInv' /\ (Life!Deprecate(edit[e].flow) \/ UNCHANGED Life!vars)
<1> DEFINE f == edit[e].flow
<1>1. f \in Flows /\ status[f] \in Released
    BY DEF FlowInv, Deprecate, NoEdit, CopiesLag
<1>2. /\ status' = [status EXCEPT ![f] = "DEPRECATED"]
      /\ edit' = [edit EXCEPT ![e] = NoEdit]
      /\ snapshots' = snapshots
    BY DEF Deprecate
<1>3. Life!TypeOK' /\ Life!PublishedOnce'
    BY <1>1, <1>2 DEF FlowInv, Life!TypeOK, Life!PublishedOnce, Life!SnapshotsOf, Life!Released, Released
<1>4. CopiesLag'
    BY <1>1, <1>2 DEF FlowInv, CopiesLag, Life!TypeOK, Released, NoEdit
<1>5. edit' \in [Editors -> {NoEdit} \cup [stage : {"publishing", "deprecating"}, flow : Flows]]
    BY <1>2 DEF FlowInv
<1>6. CASE status[f] = "PUBLISHED"
    BY <1>2, <1>3, <1>4, <1>5, <1>6 DEF FlowInv, Life!Deprecate
<1>7. CASE status[f] = "DEPRECATED"
    <2>1. status' = status
        BY <1>1, <1>2, <1>7 DEF FlowInv, Life!TypeOK
    <2> QED BY <1>2, <1>3, <1>4, <1>5, <2>1 DEF FlowInv, Life!vars
<1> QED BY <1>1, <1>6, <1>7 DEF Released

\* Every step keeps the invariant, and is a step of the life of a flow or none.
LEMMA NextStep == FlowInv /\ [Next]_vars => FlowInv' /\ [Life!Next]_Life!vars
<1> SUFFICES ASSUME FlowInv, [Next]_vars PROVE FlowInv' /\ [Life!Next]_Life!vars
    OBVIOUS
<1>1. CASE UNCHANGED vars
    BY <1>1 DEF vars, FlowInv, CopiesLag, Life!TypeOK, Life!PublishedOnce, Life!SnapshotsOf, Life!vars
<1>2. ASSUME NEW f \in Flows, CreateFlow(f) PROVE FlowInv' /\ [Life!Next]_Life!vars
    BY <1>2, CreateFlowStep DEF Life!Next
<1>3. ASSUME NEW e \in Editors, Editor(e) PROVE FlowInv' /\ [Life!Next]_Life!vars
    <2>1. CASE (\E f \in Flows : LoadToPublish(e, f) \/ LoadToDeprecate(e, f)) \/ EditFails(e)
        BY <2>1, LoadStep
    <2>2. CASE Publish(e)
        <3>1. edit[e].flow \in Flows
            BY <2>2 DEF FlowInv, Publish, NoEdit
        <3> QED BY <2>2, <3>1, PublishStep DEF Life!Next
    <2>3. CASE Deprecate(e)
        <3>1. edit[e].flow \in Flows
            BY <2>3 DEF FlowInv, Deprecate, NoEdit
        <3> QED BY <2>3, <3>1, DeprecateStep DEF Life!Next
    <2> QED BY <1>3, <2>1, <2>2, <2>3 DEF Editor
<1> QED BY <1>1, <1>2, <1>3 DEF Next

-----------------------------------------------------------------------------
(* The invariant holds in every reachable state: a published or deprecated   *)
(* flow has exactly one snapshot, and a loaded copy is only ever behind.     *)
THEOREM FlowInvariance == Spec => []FlowInv
<1>1. FlowInv /\ [Next]_vars => FlowInv'
    BY NextStep
<1> QED BY InitInv, <1>1, PTL DEF Spec

(* FlowService implements FlowLife: stale copies never publish a flow twice  *)
(* nor bring a deprecated one back.                                          *)
THEOREM LifeRefinement == Spec => LifeSpec
<1>1. Init => Life!Init
    BY DEF Init, Life!Init
<1>2. FlowInv /\ [Next]_vars => [Life!Next]_Life!vars
    BY NextStep
<1> QED BY <1>1, <1>2, FlowInvariance, PTL DEF Spec, LifeSpec, Life!Spec

-----------------------------------------------------------------------------
(* The cached lists.                                                         *)

CacheInv ==
    /\ read \in Reads
    /\ call \in [Callers -> {"none", "insert", "delete"}]
    /\ faults \in Nat
    /\ StaleOnlyByRace

\* What has to be shown of a step: while it leaves the entry, it leaves no write
\* behind without an invalidation to come.
LEMMA EntryKept ==
    ASSUME CacheInv, read' = read, cache' = cache, faults' = faults,
           call' \in [Callers -> {"none", "insert", "delete"}],
           read # "execution" =>
              \/ \E c \in Callers : call'[c] # "none"
              \/ call' = call /\ (Outdated' => Outdated)
    PROVE  CacheInv'
BY DEF CacheInv, StaleOnlyByRace

\* A writer that touches the listed rows still has the entry to delete.
LEMMA WriterStep ==
    ASSUME CacheInv,
           \/ EditFlows \/ MarkExecution
           \/ \E a \in Approvals : \/ CreateApprovalRequest(a) \/ DecideApproval(a)
                                   \/ \E b \in Approvals : InsertDelegated(a, b)
    PROVE  CacheInv'
<1>1. call \in [Callers -> {"none", "insert", "delete"}] BY DEF CacheInv
<1>2. \A c \in Callers : Wrote(c) => /\ call' \in [Callers -> {"none", "insert", "delete"}]
                                     /\ call'[c] # "none"
    BY <1>1 DEF Wrote
<1>3. CASE EditFlows
    <2>1. ASSUME NEW c \in Callers, Wrote(c) PROVE CacheInv'
        BY <1>2, <1>3, <2>1, EntryKept DEF EditFlows
    <2>2. CASE status' = status /\ UNCHANGED call
        <3>1. Outdated' => Outdated BY <1>3, <2>2 DEF EditFlows, Outdated, Table
        <3> QED BY <1>1, <1>3, <2>2, <3>1, EntryKept DEF EditFlows
    <2>3. Flows \cup Editors \subseteq Callers BY DEF Callers
    <2> QED BY <1>3, <2>1, <2>2, <2>3 DEF EditFlows
<1>4. CASE MarkExecution
    BY <1>1, <1>4, EntryKept DEF MarkExecution
<1>5. ASSUME NEW a \in Approvals, CreateApprovalRequest(a) PROVE CacheInv'
    <2>1. \A b \in Approvals : approval[b] = "PENDING" => b = a \/ approval'[b] = approval[b]
        BY <1>5 DEF CreateApprovalRequest
    <2>2. \A b \in Approvals : approval[b] = "PENDING" => approval'[b] = "PENDING"
        BY <1>5, <2>1 DEF CreateApprovalRequest
    <2>3. Outdated' => Outdated
        BY <1>5, <2>2 DEF CreateApprovalRequest, Outdated, Table
    <2> QED BY <1>1, <1>5, <2>3, EntryKept DEF CreateApprovalRequest
<1>6. ASSUME NEW a \in Approvals, DecideApproval(a) PROVE CacheInv'
    <2>1. a \in Callers BY DEF Callers
    <2>2. call' \in [Callers -> {"none", "insert", "delete"}] /\ call'[a] # "none"
        BY <1>1, <1>2, <1>6, <2>1 DEF DecideApproval
    <2> QED BY <1>6, <2>1, <2>2, EntryKept DEF DecideApproval
<1>7. ASSUME NEW a \in Approvals, NEW b \in Approvals, InsertDelegated(a, b) PROVE CacheInv'
    <2>1. a \in Callers BY DEF Callers
    <2> QED BY <1>2, <1>7, <2>1, EntryKept DEF InsertDelegated
<1> QED BY <1>3, <1>4, <1>5, <1>6, <1>7

\* An entry that is set, deleted or expires is outdated only by a race.
LEMMA EntryStep ==
    ASSUME CacheInv,
           \/ Expire
           \/ \E c \in Callers : InvalidateEntry(c) \/ InvalidationFails(c)
           \/ \E r \in Readers : Read(r)
    PROVE  CacheInv'
<1> USE DEF tableVars, vars
<1>1. CASE Expire \/ \E c \in Callers : InvalidateEntry(c)
    BY <1>1 DEF CacheInv, Expire, InvalidateEntry, StaleOnlyByRace
<1>2. ASSUME NEW c \in Callers, InvalidationFails(c) PROVE CacheInv'
    BY <1>2 DEF CacheInv, InvalidationFails, StaleOnlyByRace
<1>3. ASSUME NEW r \in Readers, Miss(r) \/ Query(r) PROVE CacheInv'
    <2>1. Outdated' => Outdated BY <1>3 DEF Miss, Query, Outdated, Table
    <2> QED BY <1>3, <2>1, EntryKept DEF Miss, Query, CacheInv
<1>4. ASSUME NEW r \in Readers, SetEntry(r) PROVE CacheInv'
    <2>1. Table' = Table BY <1>4 DEF SetEntry, Table
    <2>2. CASE cache' = [value |-> reader[r].value, late |-> reader[r].value # Table]
        <3>1. cache'.late <=> cache'.value # Table BY <2>2
        <3>2. Outdated' => cache'.late BY <1>4, <2>1, <3>1 DEF Outdated, SetEntry
        <3> QED BY <1>4, <3>2 DEF CacheInv, StaleOnlyByRace, SetEntry
    <2>3. CASE UNCHANGED cache
        <3>1. Outdated' => Outdated BY <1>4, <2>1, <2>3 DEF SetEntry, Outdated
        <3> QED BY <1>4, <2>3, <3>1, EntryKept DEF SetEntry, CacheInv
    <2> QED BY <1>4, <2>2, <2>3 DEF SetEntry
<1> QED BY <1>1, <1>2, <1>3, <1>4 DEF Read

\* CacheInv: the editors, readers and the cache keep what StaleOnlyByRace rests on.
THEOREM CacheInvariance == SpecCached => []CacheInv
<1>1. InitCached => CacheInv
    BY DEF InitCached, CacheInv, StaleOnlyByRace
<1>2. ASSUME CacheInv, [NextCached]_everything PROVE CacheInv'
    <2>1. CASE UNCHANGED everything
        <3>1. UNCHANGED <<status, read, execution, approval, call, cache, faults>>
            BY <2>1 DEF everything, cachedVars, vars
        <3>2. Outdated' => Outdated BY <3>1 DEF Outdated, Table
        <3> QED BY <1>2, <3>1, <3>2 DEF CacheInv, StaleOnlyByRace
    <2> QED BY <1>2, <2>1, WriterStep, EntryStep DEF NextCached
<1> QED BY <1>1, <1>2, PTL DEF SpecCached

\* An outdated list is in the cache only between a write and its invalidation, after
\* one that failed, or because a reader stored late what it had read before.
THEOREM StaleListsAreRaces == SpecCached => []StaleOnlyByRace
<1>1. CacheInv => StaleOnlyByRace BY DEF CacheInv
<1> QED BY <1>1, CacheInvariance, PTL

\* The cache changes nothing of what editors do to flows.
THEOREM CacheKeepsFlows == SpecCached => Spec
<1>1. InitCached => Init
    BY DEF InitCached
<1>2. [NextCached]_everything => [Next]_vars
    BY DEF everything, tableVars, NextCached, Next, EditFlows, MarkExecution, CreateApprovalRequest,
           DecideApproval, InsertDelegated, InvalidateEntry, InvalidationFails, Read, Miss, Query,
           SetEntry, Expire
<1> QED BY <1>1, <1>2, PTL DEF SpecCached, Spec

-----------------------------------------------------------------------------
(* Flows and answers.                                                        *)

\* What is known of a list and of its elements.
LEMMA Listed ==
    ASSUME NEW S, NEW s \in Seq(S)
    PROVE  DOMAIN s = 1..Len(s) /\ Len(s) \in Nat /\ \A i \in DOMAIN s : s[i] \in S
OBVIOUS

\* A function on the first n numbers is a list.
LEMMA Lists == ASSUME NEW S, NEW n \in Nat, NEW s \in [1..n -> S] PROVE s \in Seq(S)
OBVIOUS

\* What createFlow stores is a flow again, of the same nodes.
LEMMA CreatedIsFlow == ASSUME NEW draft \in Flow PROVE Created(draft) \in Flow
<1> DEFINE stored(node) ==
            [node EXCEPT !.next = NoNode, !.fallback = NoNode, !.onTrue = NoNode, !.onFalse = NoNode,
                         !.branches = [i \in DOMAIN node.branches |->
                                          [node.branches[i] EXCEPT !.to = NoNode]]]
<1>1. ASSUME NEW node \in NodeConfig PROVE stored(node) \in NodeConfig
    <2> DEFINE branches == [i \in DOMAIN node.branches |-> [node.branches[i] EXCEPT !.to = NoNode]]
    <2>1. node.branches \in Seq([when : Expressions, to : Targets])
        BY DEF NodeConfig
    <2>2. \A i \in DOMAIN node.branches :
            [node.branches[i] EXCEPT !.to = NoNode] \in [when : Expressions, to : Targets]
        <3> SUFFICES ASSUME NEW i \in DOMAIN node.branches
                     PROVE [node.branches[i] EXCEPT !.to = NoNode] \in [when : Expressions, to : Targets]
            OBVIOUS
        <3>1. node.branches[i] \in [when : Expressions, to : Targets] BY <2>1, Listed
        <3> QED BY <3>1 DEF Targets
    <2>3. branches \in Seq([when : Expressions, to : Targets])
        <3>1. DOMAIN node.branches = 1..Len(node.branches) /\ Len(node.branches) \in Nat BY <2>1, Listed
        <3>2. branches \in [1..Len(node.branches) -> [when : Expressions, to : Targets]] BY <2>2, <3>1
        <3> HIDE DEF branches
        <3> QED BY <3>1, <3>2, Lists
    <2> HIDE DEF branches
    <2>4. [node EXCEPT !.next = NoNode, !.fallback = NoNode, !.onTrue = NoNode, !.onFalse = NoNode,
                       !.branches = branches] \in NodeConfig
        BY <2>3 DEF NodeConfig, Targets
    <2> QED BY <2>4 DEF branches
<1>2. [n \in Nodes |-> stored(draft.node[n])] \in [Nodes -> NodeConfig]
    BY <1>1 DEF Flow
<1> HIDE DEF stored
<1>3. [draft EXCEPT !.node = [n \in Nodes |-> stored(draft.node[n])]] \in Flow
    BY <1>2 DEF Flow
<1> QED BY <1>3 DEF Created, stored

\* What a created flow keeps of its nodes, and what it has lost.
LEMMA CreatedNodes ==
    ASSUME NEW draft \in Flow, NEW n \in Nodes
    PROVE  /\ Created(draft).entry = draft.entry
           /\ Created(draft).node[n].kind = draft.node[n].kind
           /\ Created(draft).node[n].next = NoNode
           /\ \A i \in DOMAIN Created(draft).node[n].branches :
                 Created(draft).node[n].branches[i].to = NoNode
<1> DEFINE node == draft.node[n]
           branches == [i \in DOMAIN node.branches |-> [node.branches[i] EXCEPT !.to = NoNode]]
           stored == [node EXCEPT !.next = NoNode, !.fallback = NoNode, !.onTrue = NoNode,
                                  !.onFalse = NoNode, !.branches = branches]
<1>1. Created(draft).entry = draft.entry /\ Created(draft).node[n] = stored
    BY DEF Created, Flow
<1>2. node \in NodeConfig
    BY DEF Flow
<1>3. \A i \in DOMAIN branches : branches[i].to = NoNode
    <2>1. node.branches \in Seq([when : Expressions, to : Targets])
        BY <1>2 DEF NodeConfig
    <2> QED BY <2>1
<1> HIDE DEF node, branches
<1>4. stored.kind = node.kind /\ stored.next = NoNode /\ stored.branches = branches
    BY <1>2 DEF NodeConfig
<1> QED BY <1>1, <1>3, <1>4 DEF node

FlowOK ==
    /\ flow \in Flow /\ Config(flow.entry).kind = "START"
    /\ flow \notin Graphs => \A n \in Nodes : /\ Config(n).next = NoNode
                                              /\ \A i \in DOMAIN Config(n).branches : Config(n).branches[i].to = NoNode

\* Every published flow starts with a START node, and one that createFlow stored has no edges.
LEMMA PublishedIsFlow == ASSUME flow \in Published PROVE FlowOK
<1>1. CASE flow \in Graphs
    BY <1>1, GraphsAssumption DEF FlowOK, Config
<1>2. ASSUME NEW draft \in Drafts, flow = Created(draft) PROVE FlowOK
    <2>1. draft \in Flow /\ draft.node[draft.entry].kind = "START" /\ draft.entry \in Nodes
        BY GraphsAssumption DEF Flow
    <2>2. flow \in Flow
        BY <1>2, <2>1, CreatedIsFlow
    <2>3. Config(flow.entry).kind = "START"
        BY <1>2, <2>1, CreatedNodes DEF Config
    <2>4. \A n \in Nodes : /\ Config(n).next = NoNode
                           /\ \A i \in DOMAIN Config(n).branches : Config(n).branches[i].to = NoNode
        BY <1>2, <2>1, CreatedNodes DEF Config
    <2> QED BY <2>2, <2>3, <2>4 DEF FlowOK
<1> QED BY <1>1, <1>2 DEF Published

\* How the last attempt at a node may end when it counts.
Legitimate(n, answer) ==
    \/ answer \in Answers(Config(n), Analyses)
    \/ answer = Failure /\ Remote(Config(n)) /\ ~Throws(Config(n), Failure)

\* An answer that counted is not the mark of a missing one.
LEMMA LegitimateIsAnswer ==
    ASSUME NEW n, NEW answer, Legitimate(n, answer) PROVE answer # Unasked
BY UnaskedAssumption DEF Legitimate, Answers

Below == {pair \in Nat \X Nat : pair[1] < pair[2]}

\* Every nonempty set of numbers has a least one: inductions over data rest on this.
LEMMA LeastNumber ==
    ASSUME NEW S, S \subseteq Nat, S # {} PROVE \E n \in S : \A m \in S : n <= m
<1>1. IsWellFoundedOn(Below, Nat)
    BY NatLessThanWellFounded DEF OpToRel, Below
<1>2. \E x \in S : \A y \in S : <<y, x>> \notin Below
    BY <1>1, WFMin
<1>3. \A x, y \in Nat : <<y, x>> \notin Below => x <= y
    BY DEF Below
<1> QED BY <1>2, <1>3

\* A branch that is taken leads where the branch leads.
LEMMA FirstBranchIsEdge ==
    ASSUME NEW node, node.branches \in Seq([when : Expressions, to : Targets]), NEW ctx, NEW outputs
    PROVE  \/ FirstBranch(node, ctx, outputs) = node.next
           \/ \E i \in DOMAIN node.branches : FirstBranch(node, ctx, outputs) = node.branches[i].to
<1> DEFINE taken == {i \in DOMAIN node.branches : Holds(node.branches[i].when, ctx, outputs)}
<1>1. CASE taken = {}
    BY <1>1 DEF FirstBranch
<1>2. CASE taken # {}
    <2>1. taken \subseteq Nat
        OBVIOUS
    <2> HIDE DEF taken
    <2>2. \E i \in taken : \A j \in taken : i <= j
        BY <1>2, <2>1, LeastNumber
    <2> DEFINE first == CHOOSE i \in taken : \A j \in taken : i <= j
    <2>3. first \in taken
        BY <2>2
    <2>4. FirstBranch(node, ctx, outputs) = node.branches[first].to
        BY <1>2 DEF FirstBranch, taken
    <2> HIDE DEF first
    <2> QED BY <2>3, <2>4 DEF taken
<1> QED BY <1>1, <1>2

-----------------------------------------------------------------------------
(* The inductive invariant of the engines.                                   *)

EngineFields == {"phase", "at", "ctx", "outputs", "visited", "trace", "retry", "attempt"}
Scalars == {"risk", "confidence", "decision"}

\* Where an engine stands: the path it took, without a node entered twice, the
\* outputs of the nodes it is through with, and what its phase says of the last one.
Shape(e) ==
    LET s == eng[e]
    IN  /\ DOMAIN s = EngineFields /\ DOMAIN s.ctx = Scalars
        /\ s.phase \in {"idle", "calling", "gate"} \cup Resting
        /\ s.at \in Nodes /\ s.trace \in Seq(Nodes)
        /\ s.trace # << >> => s.trace[1] = flow.entry
        /\ s.visited = {s.trace[i] : i \in DOMAIN s.trace}
        /\ \A i, j \in DOMAIN s.trace : s.trace[i] = s.trace[j] => i = j
        /\ DOMAIN s.outputs \subseteq s.visited
        /\ s.outputs = [n \in DOMAIN s.outputs |-> s.outputs[n]]
        /\ s.phase = "idle" => s = Idle(e)
        /\ s.phase # "idle" => s.trace # << >> /\ s.at = s.trace[Len(s.trace)]
        /\ \A i \in DOMAIN s.trace :
              IF s.trace[i] \in DOMAIN s.outputs THEN Kind(e, i) \notin {"GATE", "END"}
              ELSE i = Len(s.trace) \/ (e = "workflow" /\ Kind(e, i) = "GATE")
        /\ s.phase \in {"calling", "failed"} => s.at \notin DOMAIN s.outputs
        /\ s.phase = "calling" => Config(s.at).kind \notin {"GATE", "END"}
        /\ s.phase = "gate" => e = "workflow" /\ Config(s.at).kind = "GATE"
        /\ s.phase = "paused" => Config(s.at).kind = "GATE"
        /\ s.phase = "ended" => \/ s.at \in DOMAIN s.outputs
                                \/ Config(s.at).kind = "END"
                                \/ e = "workflow" /\ Config(s.at).kind = "GATE"

Answered ==
    /\ DOMAIN eng = Engines /\ DOMAIN answered = Nodes
    /\ \A n \in Nodes : answered[n] = Unasked \/ Legitimate(n, answered[n])
    /\ eng["inProcess"].phase # "idle" => eng["workflow"].phase \in Resting
    /\ \A e \in Engines : \A n \in DOMAIN eng[e].outputs : answered[n] # Unasked

\* A run as its path and outputs tell it: f is a flow, s the state of an engine, c the
\* context it started with and g the answers.  Defined with parameters instead of
\* variables, so that one lemma serves two states as well as two engines.
KindOf(f, s, i) == f.node[s.trace[i]].kind
OutOf(s, i) == s.outputs[s.trace[i]]
StepsOf(s) == {i \in DOMAIN s.trace : s.trace[i] \in DOMAIN s.outputs}
Obtains(f, s, i) == KindOf(f, s, i) = "AI" /\ "risk" \in DOMAIN OutOf(s, i)
Decides(f, s, i) ==
    \/ Obtains(f, s, i) /\ OutOf(s, i).recommendation # "APPROVE"
    \/ KindOf(f, s, i) = "SCORE"
    \/ OutOf(s, i) = [hardBlock |-> TRUE]
AnalysedOf(f, s) == {i \in StepsOf(s) : Obtains(f, s, i)}
DecidedOf(f, s) == {i \in StepsOf(s) : Decides(f, s, i)}

\* What was decided at a step, and the context as it was when the step was made.
Verdict(f, s, i) ==
    CASE KindOf(f, s, i) = "AI"    -> OutOf(s, i).recommendation
      [] KindOf(f, s, i) = "SCORE" -> OutOf(s, i).decision
      [] OTHER                     -> "REJECT"

RiskOf(s, c, analyses) == IF analyses = {} THEN c.risk ELSE OutOf(s, LastOf(analyses)).risk
ConfidenceOf(s, c, analyses) ==
    IF analyses = {} THEN c.confidence ELSE OutOf(s, LastOf(analyses)).confidence
DecisionOf(f, s, c, verdicts) ==
    IF verdicts = {} THEN c.decision ELSE Verdict(f, s, LastOf(verdicts))

ContextOf(f, s, c, i) ==
    [risk       |-> RiskOf(s, c, Before(AnalysedOf(f, s), i)),
     confidence |-> ConfidenceOf(s, c, Before(AnalysedOf(f, s), i)),
     decision   |-> DecisionOf(f, s, c, Before(DecidedOf(f, s), i))]
OutputsOf(s, i) == [n \in {s.trace[j] : j \in Before(StepsOf(s), i)} |-> s.outputs[n]]

ResultOf(f, s, c, g, i) ==
    LET n == s.trace[i] IN Result(n, f.node[n], ContextOf(f, s, c, i), OutputsOf(s, i), g[n])

\* A run is determined by its path and the answers: each step is the result of what
\* the steps before it left.
Replays(f, s, c, g) ==
    \A i \in StepsOf(s) : /\ OutOf(s, i) = ResultOf(f, s, c, g, i).output
                          /\ i < Len(s.trace) => s.trace[i + 1] = ResultOf(f, s, c, g, i).next
Now(e) == ContextOf(flow, eng[e], InitialContext(e), Len(eng[e].trace) + 1)
History(e) ==
    /\ Replays(flow, eng[e], InitialContext(e), answered)
    /\ \/ eng[e].ctx = Now(e)
       \/ /\ e = "workflow" /\ eng[e].phase = "ended" /\ Config(eng[e].at).kind = "GATE"
          /\ \E d \in {"REJECT", "ESCALATE"} : eng[e].ctx = [Now(e) EXCEPT !.decision = d]

EnginesInv == FlowOK /\ Answered /\ \A e \in Engines : Shape(e) /\ History(e)

-----------------------------------------------------------------------------
(* What a step of an engine does.                                            *)

\* The fields that only moving on changes.
Stays(e) ==
    /\ DOMAIN eng'[e] = EngineFields
    /\ eng'[e].at = eng[e].at /\ eng'[e].ctx = eng[e].ctx /\ eng'[e].outputs = eng[e].outputs
    /\ eng'[e].visited = eng[e].visited /\ eng'[e].trace = eng[e].trace

Starts(e) ==
    /\ eng[e].phase = "idle"
    /\ e = "inProcess" => eng["workflow"].phase \in Resting
    /\ eng'[e] = Arrive(e, eng[e], flow.entry) /\ answered' = answered
Runs(e, answer) ==
    /\ eng[e].phase = "calling" /\ Legitimate(eng[e].at, answer)
    /\ e = "workflow" \/ answered[eng[e].at] \in {Unasked, answer}
    /\ eng'[e] = Advanced(e, eng[e], answer)
    /\ answered' = [answered EXCEPT ![eng[e].at] = answer]
Retries(e) ==
    /\ eng[e].phase = "calling" /\ eng'[e].phase \in {"calling", "failed"}
    /\ Stays(e) /\ answered' = answered
Passes(e) ==
    /\ eng[e].phase = "gate" /\ eng'[e] = Arrive(e, eng[e], Config(eng[e].at).next)
    /\ answered' = answered
Closes(e) ==
    /\ eng[e].phase = "gate" /\ answered' = answered
    /\ \E d \in {"REJECT", "ESCALATE"} : eng'[e] = [eng[e] EXCEPT !.phase = "ended", !.ctx.decision = d]

\* A step of an engine moves that engine only, in one of five ways.
LEMMA StepOfEngine ==
    ASSUME EnginesInv, NEW e \in Engines, EngineStep(e)
    PROVE  /\ flow' = flow /\ DOMAIN eng' = Engines
           /\ \A d \in Engines : d # e => eng'[d] = eng[d]
           /\ Starts(e) \/ (\E answer : Runs(e, answer)) \/ Retries(e) \/ Passes(e) \/ Closes(e)
<1>1. DOMAIN eng = Engines /\ DOMAIN eng[e] = EngineFields /\ eng[e].at \in Nodes
    BY DEF EnginesInv, Answered, Shape
<1>2. ASSUME NEW s, Move(e, s)
      PROVE  /\ flow' = flow /\ DOMAIN eng' = Engines /\ eng'[e] = s
             /\ \A d \in Engines : d # e => eng'[d] = eng[d]
    BY <1>1, <1>2 DEF Move
<1>3. ASSUME NEW answer, Calling(e), Advance(e, answer), Legitimate(eng[e].at, answer),
             e = "workflow" \/ answered[eng[e].at] \in {Unasked, answer}
      PROVE  /\ flow' = flow /\ DOMAIN eng' = Engines
             /\ \A d \in Engines : d # e => eng'[d] = eng[d]
             /\ \E a : Runs(e, a)
    <2>1. Runs(e, answer) BY <1>2, <1>3 DEF Advance, Calling, Runs
    <2> QED BY <1>2, <1>3, <2>1 DEF Advance
<1>4. ASSUME NEW s, Move(e, s), Calling(e), answered' = answered,
             \/ s = [eng[e] EXCEPT !.phase = "failed"]
             \/ s = Reattempted(eng[e])
             \/ s = [eng[e] EXCEPT !.retry = @ + 1]
      PROVE  /\ flow' = flow /\ DOMAIN eng' = Engines
             /\ \A d \in Engines : d # e => eng'[d] = eng[d]
             /\ Retries(e)
    <2>1. /\ DOMAIN s = EngineFields /\ s.at = eng[e].at /\ s.ctx = eng[e].ctx /\ s.outputs = eng[e].outputs
          /\ s.visited = eng[e].visited /\ s.trace = eng[e].trace /\ s.phase \in {"calling", "failed"}
        BY <1>1, <1>4 DEF EngineFields, Reattempted, Calling
    <2> QED BY <1>2, <1>4, <2>1 DEF Retries, Stays, Calling
<1>5. CASE Start(e)
    BY <1>2, <1>5 DEF Start, Starts
<1>6. CASE Complete(e)
    <2>1. PICK answer \in Answers(Node(e), Analyses) : Advance(e, answer)
        BY <1>6 DEF Complete
    <2>2. Legitimate(eng[e].at, answer) BY <2>1 DEF Legitimate, Node
    <2> QED BY <1>3, <1>6, <2>1, <2>2 DEF Complete, Fresh
<1>7. CASE Replay(e)
    <2>1. PICK answer : answer = answered[eng[e].at] OBVIOUS
    <2>2. Legitimate(eng[e].at, answer)
        BY <1>1, <1>7, <2>1 DEF Replay, EnginesInv, Answered
    <2> QED BY <1>3, <1>7, <2>1, <2>2 DEF Replay
<1>8. ASSUME GiveUp(e), Fresh(e), Remote(Node(e))
      PROVE  /\ flow' = flow /\ DOMAIN eng' = Engines
             /\ \A d \in Engines : d # e => eng'[d] = eng[d]
             /\ (\E answer : Runs(e, answer)) \/ Retries(e)
    <2>1. CASE ~Throws(Node(e), Failure) /\ Advance(e, Failure)
        <3>1. Legitimate(eng[e].at, Failure) BY <1>8, <2>1 DEF Legitimate, Node
        <3>2. PICK answer : answer = Failure OBVIOUS
        <3> QED BY <1>3, <1>8, <2>1, <3>1, <3>2 DEF Fresh
    <2>2. CASE /\ Move(e, IF e = "workflow" THEN Reattempted(eng[e]) ELSE [eng[e] EXCEPT !.phase = "failed"])
               /\ UNCHANGED answered
        <3>1. PICK s : s = IF e = "workflow" THEN Reattempted(eng[e]) ELSE [eng[e] EXCEPT !.phase = "failed"]
            OBVIOUS
        <3> QED BY <1>4, <1>8, <2>2, <3>1 DEF Fresh
    <2> QED BY <1>8, <2>1, <2>2 DEF GiveUp
<1>9. CASE AttemptThrows(e)
    <2>1. Fresh(e) /\ Remote(Node(e)) BY <1>9 DEF AttemptThrows, MayThrow, Remote
    <2>2. CASE Move(e, [eng[e] EXCEPT !.retry = @ + 1]) /\ UNCHANGED answered
        <3>1. PICK s : s = [eng[e] EXCEPT !.retry = @ + 1] OBVIOUS
        <3> QED BY <1>4, <2>1, <2>2, <3>1 DEF Fresh
    <2> QED BY <1>8, <1>9, <2>1, <2>2 DEF AttemptThrows
<1>10. CASE AttemptTimesOut(e)
    BY <1>8, <1>10 DEF AttemptTimesOut
<1>11. CASE ActivityLost(e)
    <2>1. PICK s : s = Reattempted(eng[e]) OBVIOUS
    <2> QED BY <1>4, <1>11, <2>1 DEF ActivityLost
<1>12. CASE GateApproved(e)
    BY <1>2, <1>12 DEF GateApproved, Passes, Node
<1>13. CASE GateCloses(e)
    <2>1. PICK d \in {"REJECT", "ESCALATE"} : Move(e, [eng[e] EXCEPT !.phase = "ended", !.ctx.decision = d])
        BY <1>13 DEF GateCloses
    <2> QED BY <1>2, <1>13, <2>1 DEF GateCloses, Closes
<1> QED BY <1>5, <1>6, <1>7, <1>9, <1>10, <1>11, <1>12, <1>13 DEF EngineStep

-----------------------------------------------------------------------------
(* The shape of an engine is kept.                                           *)

Entered(s, n) == s.visited \cup {n}

\* What an engine in state s that is sent to node n arrives as.
Arrived(e, s, n, a) ==
    /\ DOMAIN a = EngineFields /\ a.ctx = s.ctx /\ a.outputs = s.outputs
    /\ Stops(s, n) => /\ a.phase = "ended" /\ a.at = s.at
                      /\ a.visited = s.visited /\ a.trace = s.trace
    /\ ~Stops(s, n) => /\ a.phase = PhaseAt(e, n) /\ a.at = n
                       /\ a.visited = Entered(s, n) /\ a.trace = Append(s.trace, n)

\* Arrive changes what Arrived says and no other field.
LEMMA ArriveFields ==
    ASSUME NEW e, NEW s, DOMAIN s = EngineFields, NEW n, NEW a, a = Arrive(e, s, n)
    PROVE  Arrived(e, s, n, a)
<1> HIDE DEF Stops, PhaseAt
<1> QED BY DEF Arrive, EngineFields, Entered, Arrived

\* The state that moves on: the node is through, its output merged.
Merged(e, s, answer) ==
    LET r == Result(s.at, Config(s.at), s.ctx, s.outputs, answer)
    IN  [s EXCEPT !.outputs = [n \in DOMAIN s.outputs \cup {s.at} |->
                                  IF n = s.at THEN r.output ELSE s.outputs[n]],
                  !.ctx = NewContext(e, Config(s.at).kind, r.output, s.ctx)]

WithOutput(s, out) ==
    [n \in DOMAIN s.outputs \cup {s.at} |-> IF n = s.at THEN out ELSE s.outputs[n]]

\* Merging an output changes the outputs and the context only.
LEMMA MergedFields ==
    ASSUME NEW e, NEW s, DOMAIN s = EngineFields, NEW answer, NEW t, t = Merged(e, s, answer),
           NEW r, r = Result(s.at, Config(s.at), s.ctx, s.outputs, answer)
    PROVE  /\ Advanced(e, s, answer) = Arrive(e, t, r.next)
           /\ DOMAIN t = EngineFields /\ t.at = s.at /\ t.visited = s.visited /\ t.trace = s.trace
           /\ t.ctx = NewContext(e, Config(s.at).kind, r.output, s.ctx)
           /\ t.outputs = WithOutput(s, r.output)
<1>1. Advanced(e, s, answer) = Arrive(e, t, r.next)
    BY DEF Advanced, Merged
<1> DEFINE outputs == WithOutput(s, r.output)
           ctx == NewContext(e, Config(s.at).kind, r.output, s.ctx)
<1>2. t = [s EXCEPT !.outputs = outputs, !.ctx = ctx]
    BY DEF Merged, WithOutput
<1> HIDE DEF outputs, ctx
<1>3. /\ DOMAIN t = EngineFields /\ t.at = s.at /\ t.visited = s.visited /\ t.trace = s.trace
      /\ t.ctx = ctx /\ t.outputs = outputs
    BY <1>2 DEF EngineFields
<1> QED BY <1>1, <1>3 DEF outputs, ctx

\* Merging an output adds nothing to the context and drops nothing.
LEMMA ContextKeepsScalars ==
    ASSUME NEW e, NEW kind, NEW out, NEW ctx, DOMAIN ctx = Scalars
    PROVE  DOMAIN NewContext(e, kind, out, ctx) = Scalars
BY DEF NewContext, Propagate, MergeOutputIntoContext, Scalars

\* No answer leads off the edges of a node.
LEMMA NextIsEdge ==
    ASSUME FlowOK, NEW n \in Nodes, NEW answer, Legitimate(n, answer), NEW ctx, NEW outputs
    PROVE  /\ Result(n, Config(n), ctx, outputs, answer).next \in Edges(Config(n))
           /\ Edges(Config(n)) \subseteq Targets
<1> DEFINE node == Config(n)
           out == Output(node, ctx, outputs, answer)
           seen == [m \in DOMAIN outputs \cup {n} |-> IF m = n THEN out ELSE outputs[m]]
<1>1. /\ node \in NodeConfig /\ node.branches \in Seq([when : Expressions, to : Targets])
      /\ node.next \in Targets /\ node.fallback \in Targets
      /\ node.onTrue \in Targets /\ node.onFalse \in Targets
    BY DEF FlowOK, Flow, Config, NodeConfig
<1>2. \A i \in DOMAIN node.branches : node.branches[i].to \in Targets
    <2>1. \A i \in DOMAIN node.branches : node.branches[i] \in [when : Expressions, to : Targets]
        BY <1>1, Listed
    <2> QED BY <2>1
<1>3. Edges(node) \subseteq Targets
    <2> HIDE DEF node
    <2> QED BY <1>1, <1>2 DEF Edges
<1>4. FirstBranch(node, ctx, seen) \in Edges(node)
    <2> HIDE DEF node, seen
    <2> QED BY <1>1, FirstBranchIsEdge DEF Edges
<1>5. node.kind = "CONDITION" /\ answer # Failure =>
         ResolveNext(n, node, ctx, outputs, out) \in Edges(node)
    <2> SUFFICES ASSUME node.kind = "CONDITION", answer # Failure
                 PROVE ResolveNext(n, node, ctx, outputs, out) \in Edges(node)
        OBVIOUS
    <2>1. out.selected \in {node.onTrue, node.onFalse}
        <3> HIDE DEF node
        <3> QED BY DEF Output
    <2> HIDE DEF node, out
    <2> QED BY <2>1 DEF ResolveNext, Edges
<1>6. node.kind # "CONDITION" => ResolveNext(n, node, ctx, outputs, out) \in Edges(node)
    <2> HIDE DEF node, out
    <2> QED BY <1>4 DEF ResolveNext, Edges
<1>7. Result(n, node, ctx, outputs, answer).next =
         IF answer = Failure THEN node.fallback ELSE ResolveNext(n, node, ctx, outputs, out)
    BY DEF Result
<1>8. node.fallback \in Edges(node)
    BY DEF Edges
<1> HIDE DEF node, out
<1> QED BY <1>3, <1>5, <1>6, <1>7, <1>8 DEF node

\* A flow has at least one node, so the loop is entered.
LEMMA SomeNode == FlowOK => Nodes # {} /\ Cardinality(Nodes) \in Nat \ {0}
BY NodesAssumption, FS_EmptySet, FS_CardinalityType DEF FlowOK, Flow

\* A state in which every node of the path is through, as it is when an engine moves on.
Settled(e, s) ==
    /\ DOMAIN s = EngineFields /\ DOMAIN s.ctx = Scalars
    /\ s.at \in Nodes /\ s.trace \in Seq(Nodes)
    /\ s.trace # << >> => s.trace[1] = flow.entry
    /\ s.visited = {s.trace[i] : i \in DOMAIN s.trace}
    /\ \A i, j \in DOMAIN s.trace : s.trace[i] = s.trace[j] => i = j
    /\ DOMAIN s.outputs \subseteq s.visited
    /\ s.outputs = [n \in DOMAIN s.outputs |-> s.outputs[n]]
    /\ s.trace # << >> => s.at = s.trace[Len(s.trace)]
    /\ \A i \in DOMAIN s.trace :
          IF s.trace[i] \in DOMAIN s.outputs THEN Config(s.trace[i]).kind \notin {"GATE", "END"}
          ELSE e = "workflow" /\ Config(s.trace[i]).kind = "GATE"

\* An engine that has settled keeps the shape wherever it is sent.
LEMMA ArriveShape ==
    ASSUME FlowOK, NEW e \in Engines, flow' = flow, NEW s, Settled(e, s), NEW n \in Targets,
           s.trace = << >> => n = flow.entry /\ ~Stops(s, n), eng'[e] = Arrive(e, s, n)
    PROVE  Shape(e)'
<1>1. \A m : Config(m)' = Config(m)
    BY DEF Config
<1>2. Len(s.trace) \in Nat /\ DOMAIN s.trace = 1..Len(s.trace)
    BY Listed DEF Settled
<1>3. PICK a : a = eng'[e]
    OBVIOUS
<1>4. Arrived(e, s, n, a)
    <2>1. DOMAIN s = EngineFields BY DEF Settled
    <2>2. a = Arrive(e, s, n) BY <1>3
    <2> QED BY <2>1, <2>2, ArriveFields
<1>5. CASE Stops(s, n)
    <2>1. s.trace # << >>
        BY <1>5
    <2>2. /\ DOMAIN eng'[e] = EngineFields /\ eng'[e].ctx = s.ctx /\ eng'[e].outputs = s.outputs
          /\ eng'[e].phase = "ended" /\ eng'[e].at = s.at
          /\ eng'[e].visited = s.visited /\ eng'[e].trace = s.trace
        BY <1>3, <1>4, <1>5 DEF Arrived
    <2>3. Len(s.trace) \in DOMAIN s.trace
        BY <1>2, <2>1 DEF Settled
    <2>4. s.at = s.trace[Len(s.trace)] BY <2>1 DEF Settled
    <2>5. \/ s.at \in DOMAIN s.outputs
          \/ e = "workflow" /\ Config(s.at).kind = "GATE"
        BY <2>3, <2>4 DEF Settled
    <2>6. \A i \in DOMAIN s.trace : Kind(e, i)' = Config(s.trace[i]).kind
        BY <1>1, <2>2 DEF Kind
    <2>7. \A i \in DOMAIN s.trace :
              IF s.trace[i] \in DOMAIN s.outputs THEN Kind(e, i)' \notin {"GATE", "END"}
              ELSE i = Len(s.trace) \/ (e = "workflow" /\ Kind(e, i)' = "GATE")
        BY <2>6 DEF Settled
    <2> QED BY <1>1, <2>1, <2>2, <2>4, <2>5, <2>7 DEF Shape, Settled, Resting
<1>6. CASE ~Stops(s, n)
    <2>1. n \in Nodes /\ n \notin s.visited
        BY <1>6 DEF Stops, Targets
    <2> DEFINE L == Len(s.trace)
    <2>2. /\ DOMAIN eng'[e] = EngineFields /\ eng'[e].ctx = s.ctx /\ eng'[e].outputs = s.outputs
          /\ eng'[e].phase = PhaseAt(e, n) /\ eng'[e].at = n
          /\ eng'[e].visited = s.visited \cup {n} /\ eng'[e].trace = Append(s.trace, n)
        BY <1>3, <1>4, <1>6 DEF Entered, Arrived
    <2>3. s.trace \in Seq(Nodes)
        BY DEF Settled
    <2>4. /\ Append(s.trace, n) \in Seq(Nodes) /\ Len(Append(s.trace, n)) = L + 1
          /\ DOMAIN Append(s.trace, n) = 1..(L + 1)
          /\ Append(s.trace, n)[L + 1] = n /\ Append(s.trace, n) # << >>
          /\ \A i \in 1..L : Append(s.trace, n)[i] = s.trace[i] /\ i \in 1..(L + 1) /\ i # L + 1
          /\ \A i \in 1..(L + 1) : i = L + 1 \/ i \in 1..L
        BY <1>2, <2>3, <2>1
    <2> DEFINE u == eng'[e].trace
    <2>5. /\ u \in Seq(Nodes) /\ Len(u) = L + 1 /\ DOMAIN u = 1..(L + 1) /\ u[L + 1] = n /\ u # << >>
          /\ \A i \in 1..L : u[i] = s.trace[i] /\ s.trace[i] \in s.visited
          /\ L + 1 \in 1..(L + 1)
        BY <1>2, <2>2, <2>4 DEF Settled
    <2>6. u[1] = flow.entry
        <3>1. CASE s.trace = << >> BY <2>2, <3>1 DEF u
        <3>2. CASE s.trace # << >>
            <4>1. 1 \in 1..L BY <1>2, <3>2 DEF Settled
            <4> QED BY <2>5, <3>2, <4>1 DEF Settled
        <3> QED BY <3>1, <3>2
    <2> HIDE DEF u
    <2>7. eng'[e].visited = {u[i] : i \in DOMAIN u}
        <3>1. s.visited = {s.trace[i] : i \in 1..L}
            BY <1>2 DEF Settled
        <3>2. s.visited \cup {n} \subseteq {u[i] : i \in 1..(L + 1)}
            <4> SUFFICES ASSUME NEW m \in s.visited \cup {n} PROVE \E i \in 1..(L + 1) : m = u[i]
                OBVIOUS
            <4>1. CASE m = n BY <2>5, <4>1
            <4>2. CASE m \in s.visited
                <5>1. PICK i \in 1..L : m = s.trace[i] BY <3>1, <4>2
                <5> QED BY <2>4, <2>5, <5>1
            <4> QED BY <4>1, <4>2
        <3>3. \A i \in 1..(L + 1) : u[i] \in s.visited \cup {n}
            BY <2>4, <2>5
        <3>4. {u[i] : i \in 1..(L + 1)} = s.visited \cup {n}
            BY <3>2, <3>3
        <3>5. DOMAIN u = 1..(L + 1) /\ eng'[e].visited = s.visited \cup {n}
            BY <2>2, <2>5
        <3> QED BY <3>4, <3>5
    <2>8. \A i, j \in DOMAIN u : u[i] = u[j] => i = j
        BY <1>2, <2>1, <2>4, <2>5 DEF Settled
    <2>9. \A i \in DOMAIN u :
              IF u[i] \in DOMAIN s.outputs THEN Kind(e, i)' \notin {"GATE", "END"}
              ELSE i = Len(u) \/ (e = "workflow" /\ Kind(e, i)' = "GATE")
        <3> SUFFICES ASSUME NEW i \in 1..(L + 1)
                     PROVE IF u[i] \in DOMAIN s.outputs THEN Kind(e, i)' \notin {"GATE", "END"}
                           ELSE i = L + 1 \/ (e = "workflow" /\ Kind(e, i)' = "GATE")
            BY <2>5
        <3>1. Kind(e, i)' = Config(u[i]).kind
            BY <1>1 DEF Kind, u
        <3>2. CASE i = L + 1
            BY <2>1, <2>5, <3>2 DEF Settled
        <3>3. CASE i \in 1..L
            BY <1>2, <2>5, <3>1, <3>3 DEF Settled
        <3> QED BY <2>4, <3>2, <3>3
    <2>10. /\ n \notin DOMAIN s.outputs /\ DOMAIN s.outputs \subseteq s.visited \cup {n}
        BY <2>1 DEF Settled
    <2>11. /\ PhaseAt(e, n) \in {"calling", "gate", "paused", "ended"}
           /\ PhaseAt(e, n) = "calling" => Config(n).kind \notin {"GATE", "END"}
           /\ PhaseAt(e, n) = "gate" => e = "workflow" /\ Config(n).kind = "GATE"
           /\ PhaseAt(e, n) = "paused" => Config(n).kind = "GATE"
           /\ PhaseAt(e, n) = "ended" => Config(n).kind = "END"
        BY DEF PhaseAt
    <2> HIDE DEF PhaseAt
    <2> QED BY <1>1, <2>1, <2>2, <2>5, <2>7, <2>8, <2>9, <2>10, <2>11, <2>6 DEF Shape, Settled, Resting, u
<1> QED BY <1>5, <1>6

\* So is the shape of an engine that stays where it is.
LEMMA StayShape ==
    ASSUME NEW e \in Engines, flow' = flow, Shape(e), eng[e].phase # "idle",
           DOMAIN eng'[e] = EngineFields, DOMAIN eng'[e].ctx = Scalars,
           eng'[e].at = eng[e].at, eng'[e].outputs = eng[e].outputs,
           eng'[e].visited = eng[e].visited, eng'[e].trace = eng[e].trace,
           \/ eng[e].phase = "calling" /\ eng'[e].phase \in {"calling", "failed"}
           \/ eng[e].phase = "gate" /\ eng'[e].phase = "ended"
    PROVE  Shape(e)'
<1>1. \A m : Config(m)' = Config(m)
    BY DEF Config
<1>2. \A i : Kind(e, i)' = Kind(e, i)
    BY <1>1 DEF Kind
<1> QED BY <1>1, <1>2 DEF Shape, Resting

\* Every step of an engine keeps the shape of both.
LEMMA ShapeKept ==
    ASSUME EnginesInv, NEW e \in Engines, EngineStep(e), NEW d \in Engines PROVE Shape(d)'
<1>1. FlowOK /\ Shape(e) /\ Shape(d) /\ flow.entry \in Nodes
    BY DEF EnginesInv, FlowOK, Flow
<1>2. flow' = flow /\ (d # e => eng'[d] = eng[d])
    BY StepOfEngine
<1>3. CASE d # e
    <2>1. eng'[d] = eng[d] /\ flow' = flow BY <1>2, <1>3
    <2>2. /\ \A m : Config(m)' = Config(m)
          /\ Idle(d)' = Idle(d)
        BY <2>1 DEF Config, Idle
    <2>3. \A i : Kind(d, i)' = Kind(d, i)
        BY <2>1, <2>2 DEF Kind
    <2> QED BY <1>1, <2>1, <2>2, <2>3 DEF Shape
<1>4. CASE d = e
    <2>1. CASE Starts(e)
        <3>1. eng[e] = Idle(e)
            BY <1>1, <2>1 DEF Starts, Shape
        <3>2. PICK s : s = eng[e]
            OBVIOUS
        <3>3. /\ DOMAIN s = EngineFields /\ s.at = flow.entry /\ s.ctx = InitialContext(e)
              /\ s.outputs = << >> /\ s.visited = {} /\ s.trace = << >>
            BY <3>1, <3>2 DEF Idle, EngineFields
        <3>4. DOMAIN s.ctx = Scalars
            BY <3>3 DEF InitialContext, WorkflowContext, InProcessContext, Scalars
        <3>5. Settled(e, s)
            BY <1>1, <3>3, <3>4 DEF Settled
        <3>6. ~Stops(s, flow.entry)
            BY <1>1, <3>3, SomeNode, NodesAssumption DEF Stops
        <3>7. eng'[e] = Arrive(e, s, flow.entry) /\ flow.entry \in Targets
            BY <1>1, <2>1, <3>2 DEF Starts, Targets
        <3>8. Shape(e)'
            BY <1>1, <1>2, <3>5, <3>6, <3>7, ArriveShape
        <3> QED BY <1>4, <3>8
    <2>2. ASSUME NEW answer, Runs(e, answer) PROVE Shape(d)'
        <3>1. PICK s : s = eng[e]
            OBVIOUS
        <3>2. PICK r : r = Result(s.at, Config(s.at), s.ctx, s.outputs, answer)
            OBVIOUS
        <3>3. PICK t : t = Merged(e, s, answer)
            OBVIOUS
        <3>4. /\ s.phase = "calling" /\ Legitimate(s.at, answer)
              /\ eng'[e] = Advanced(e, s, answer)
            BY <2>2, <3>1 DEF Runs
        <3>5. /\ DOMAIN s = EngineFields /\ DOMAIN s.ctx = Scalars /\ s.at \in Nodes
              /\ s.trace \in Seq(Nodes) /\ s.trace # << >> /\ s.at = s.trace[Len(s.trace)]
              /\ s.trace[1] = flow.entry
              /\ s.visited = {s.trace[i] : i \in DOMAIN s.trace}
              /\ \A i, j \in DOMAIN s.trace : s.trace[i] = s.trace[j] => i = j
              /\ DOMAIN s.outputs \subseteq s.visited
              /\ Config(s.at).kind \notin {"GATE", "END"}
            BY <1>1, <3>1, <3>4 DEF Shape
        <3>6. /\ Advanced(e, s, answer) = Arrive(e, t, r.next)
              /\ DOMAIN t = EngineFields /\ t.at = s.at /\ t.visited = s.visited /\ t.trace = s.trace
              /\ t.ctx = NewContext(e, Config(s.at).kind, r.output, s.ctx)
              /\ t.outputs = WithOutput(s, r.output)
            BY <3>2, <3>3, <3>5, MergedFields
        <3>7. DOMAIN t.ctx = Scalars
            BY <3>5, <3>6, ContextKeepsScalars
        <3>8. /\ DOMAIN t.outputs = DOMAIN s.outputs \cup {s.at}
              /\ t.outputs = [n \in DOMAIN t.outputs |-> t.outputs[n]]
            BY <3>6 DEF WithOutput
        <3>9. DOMAIN t.outputs \subseteq t.visited
            <4>1. Len(s.trace) \in DOMAIN s.trace BY <3>5
            <4> QED BY <3>5, <3>6, <3>8, <4>1
        <3>10. \A i \in DOMAIN t.trace :
                  IF t.trace[i] \in DOMAIN t.outputs THEN Config(t.trace[i]).kind \notin {"GATE", "END"}
                  ELSE e = "workflow" /\ Config(t.trace[i]).kind = "GATE"
            <4> SUFFICES ASSUME NEW i \in DOMAIN s.trace
                         PROVE IF s.trace[i] \in DOMAIN t.outputs THEN Config(s.trace[i]).kind \notin {"GATE", "END"}
                               ELSE e = "workflow" /\ Config(s.trace[i]).kind = "GATE"
                BY <3>6
            <4>1. IF s.trace[i] \in DOMAIN s.outputs THEN Config(s.trace[i]).kind \notin {"GATE", "END"}
                  ELSE i = Len(s.trace) \/ (e = "workflow" /\ Config(s.trace[i]).kind = "GATE")
                BY <1>1, <3>1 DEF Shape, Kind
            <4> QED BY <3>5, <3>8, <4>1
        <3>11. Settled(e, t)
            BY <3>5, <3>6, <3>7, <3>8, <3>9, <3>10 DEF Settled
        <3>12. r.next \in Targets
            BY <1>1, <3>2, <3>4, <3>5, NextIsEdge
        <3>13. t.trace # << >>
            BY <3>5, <3>6
        <3>14. Shape(e)'
            BY <1>1, <1>2, <3>4, <3>6, <3>11, <3>12, <3>13, ArriveShape
        <3> QED BY <1>4, <3>14
    <2>3. CASE Retries(e)
        <3>1. eng[e].phase = "calling" /\ eng'[e].phase \in {"calling", "failed"} /\ Stays(e)
            BY <2>3 DEF Retries
        <3>2. eng[e].phase # "idle" BY <3>1
        <3>3. DOMAIN eng'[e].ctx = Scalars BY <1>1, <3>1 DEF Stays, Shape
        <3>4. Shape(e)'
            BY <1>1, <1>2, <3>1, <3>2, <3>3, StayShape DEF Stays
        <3> QED BY <1>4, <3>4
    <2>4. CASE Passes(e)
        <3>1. PICK s : s = eng[e]
            OBVIOUS
        <3>2. /\ s.phase = "gate" /\ eng'[e] = Arrive(e, s, Config(s.at).next)
            BY <2>4, <3>1 DEF Passes
        <3>3. /\ DOMAIN s = EngineFields /\ DOMAIN s.ctx = Scalars /\ s.at \in Nodes
              /\ s.trace \in Seq(Nodes) /\ s.trace # << >> /\ s.at = s.trace[Len(s.trace)]
              /\ e = "workflow" /\ Config(s.at).kind = "GATE"
            BY <1>1, <3>1, <3>2 DEF Shape
        <3>4. \A i \in DOMAIN s.trace :
                  IF s.trace[i] \in DOMAIN s.outputs THEN Config(s.trace[i]).kind \notin {"GATE", "END"}
                  ELSE e = "workflow" /\ Config(s.trace[i]).kind = "GATE"
            BY <1>1, <3>1, <3>3 DEF Shape, Kind
        <3>5. Settled(e, s)
            BY <1>1, <3>1, <3>3, <3>4 DEF Settled, Shape
        <3>6. Config(s.at).next \in Targets
            BY <1>1, <3>3 DEF FlowOK, Flow, Config, NodeConfig
        <3>7. Shape(e)'
            BY <1>1, <1>2, <3>2, <3>3, <3>5, <3>6, ArriveShape
        <3> QED BY <1>4, <3>7
    <2>5. CASE Closes(e)
        <3>1. PICK v \in {"REJECT", "ESCALATE"} : eng'[e] = [eng[e] EXCEPT !.phase = "ended", !.ctx.decision = v]
            BY <2>5 DEF Closes
        <3>2. DOMAIN eng[e] = EngineFields /\ DOMAIN eng[e].ctx = Scalars /\ eng[e].phase = "gate"
            BY <1>1, <2>5 DEF Shape, Closes
        <3>3. /\ DOMAIN eng'[e] = EngineFields /\ DOMAIN eng'[e].ctx = Scalars
              /\ eng'[e].at = eng[e].at /\ eng'[e].outputs = eng[e].outputs
              /\ eng'[e].visited = eng[e].visited /\ eng'[e].trace = eng[e].trace
              /\ eng'[e].phase = "ended"
            BY <3>1, <3>2 DEF EngineFields, Scalars
        <3>4. Shape(e)'
            BY <1>1, <1>2, <3>2, <3>3, StayShape
        <3> QED BY <1>4, <3>4
    <2> QED BY <2>1, <2>2, <2>3, <2>4, <2>5, StepOfEngine
<1> QED BY <1>3, <1>4

-----------------------------------------------------------------------------
(* Where a step leads an engine, and the answers it is through with.         *)

Halts(e) ==
    /\ eng'[e].phase = "ended" /\ eng'[e].at = eng[e].at
    /\ eng'[e].visited = eng[e].visited /\ eng'[e].trace = eng[e].trace
Enters(e, n) ==
    /\ n \in Nodes /\ n \notin eng[e].visited
    /\ eng'[e].phase = PhaseAt(e, n) /\ eng'[e].at = n
    /\ eng'[e].visited = eng[e].visited \cup {n} /\ eng'[e].trace = Append(eng[e].trace, n)

\* Where Arrive leads: the engine halts where it is, or enters the node.
LEMMA ArrivesTo ==
    ASSUME NEW e, NEW s, DOMAIN s = EngineFields, NEW n \in Targets, eng'[e] = Arrive(e, s, n),
           s.at = eng[e].at, s.visited = eng[e].visited, s.trace = eng[e].trace
    PROVE  /\ DOMAIN eng'[e] = EngineFields /\ eng'[e].ctx = s.ctx /\ eng'[e].outputs = s.outputs
           /\ Stops(s, n) => Halts(e)
           /\ ~Stops(s, n) => Enters(e, n)
<1>1. PICK a : a = eng'[e]
    OBVIOUS
<1>2. a = Arrive(e, s, n)
    BY <1>1
<1>3. Arrived(e, s, n, a)
    BY <1>2, ArriveFields
<1>4. CASE Stops(s, n)
    BY <1>1, <1>3, <1>4 DEF Arrived, Halts
<1>5. CASE ~Stops(s, n)
    <2>1. n \in Nodes /\ n \notin s.visited
        BY <1>5 DEF Stops, Targets
    <2> QED BY <1>1, <1>3, <1>5, <2>1 DEF Arrived, Enters, Entered
<1> QED BY <1>1, <1>3, <1>4, <1>5 DEF Arrived

\* Starting enters the first node of the flow.
LEMMA StartsTo ==
    ASSUME EnginesInv, NEW e \in Engines, Starts(e)
    PROVE  /\ eng[e] = Idle(e) /\ eng'[e].ctx = eng[e].ctx /\ eng'[e].outputs = eng[e].outputs
           /\ Enters(e, flow.entry)
<1>1. FlowOK /\ Shape(e) /\ flow.entry \in Nodes
    BY DEF EnginesInv, FlowOK, Flow
<1>2. eng[e] = Idle(e)
    BY <1>1 DEF Starts, Shape
<1>3. PICK s : s = eng[e]
    OBVIOUS
<1>4. DOMAIN s = EngineFields /\ s.visited = {} /\ s.trace = << >>
    BY <1>2, <1>3 DEF Idle, EngineFields
<1>5. ~Stops(s, flow.entry)
    BY <1>1, <1>4, SomeNode, NodesAssumption DEF Stops
<1>6. eng'[e] = Arrive(e, s, flow.entry) /\ flow.entry \in Targets
    BY <1>1, <1>3 DEF Starts, Targets
<1>7. eng'[e].ctx = s.ctx /\ eng'[e].outputs = s.outputs /\ Enters(e, flow.entry)
    BY <1>3, <1>4, <1>5, <1>6, ArrivesTo
<1> QED BY <1>2, <1>3, <1>7

\* Passing a gate halts or enters the node behind it.
LEMMA PassesTo ==
    ASSUME EnginesInv, NEW e \in Engines, Passes(e)
    PROVE  /\ eng'[e].ctx = eng[e].ctx /\ eng'[e].outputs = eng[e].outputs
           /\ Halts(e) \/ Enters(e, Config(eng[e].at).next)
<1>1. FlowOK /\ Shape(e)
    BY DEF EnginesInv
<1>2. PICK s : s = eng[e]
    OBVIOUS
<1>3. DOMAIN s = EngineFields /\ s.at \in Nodes
    BY <1>1, <1>2 DEF Shape
<1>4. Config(s.at).next \in Targets
    BY <1>1, <1>3 DEF FlowOK, Flow, Config, NodeConfig
<1>5. eng'[e] = Arrive(e, s, Config(s.at).next)
    BY <1>2 DEF Passes
<1> QED BY <1>2, <1>3, <1>4, <1>5, ArrivesTo

\* Getting through a node halts or enters the next one.
LEMMA RunsTo ==
    ASSUME EnginesInv, NEW e \in Engines, NEW answer, Runs(e, answer),
           NEW r, r = Result(eng[e].at, Config(eng[e].at), eng[e].ctx, eng[e].outputs, answer)
    PROVE  /\ eng'[e].outputs = WithOutput(eng[e], r.output)
           /\ eng'[e].ctx = NewContext(e, Config(eng[e].at).kind, r.output, eng[e].ctx)
           /\ r.next \in Edges(Config(eng[e].at))
           /\ Halts(e) \/ Enters(e, r.next)
<1>1. FlowOK /\ Shape(e)
    BY DEF EnginesInv
<1>2. PICK s : s = eng[e]
    OBVIOUS
<1>3. PICK t : t = Merged(e, s, answer)
    OBVIOUS
<1>4. DOMAIN s = EngineFields /\ s.at \in Nodes /\ Legitimate(s.at, answer)
    BY <1>1, <1>2 DEF Shape, Runs
<1>5. r.next \in Edges(Config(s.at)) /\ r.next \in Targets
    BY <1>1, <1>2, <1>4, NextIsEdge
<1>6. /\ Advanced(e, s, answer) = Arrive(e, t, r.next)
      /\ DOMAIN t = EngineFields /\ t.at = s.at /\ t.visited = s.visited /\ t.trace = s.trace
      /\ t.ctx = NewContext(e, Config(s.at).kind, r.output, s.ctx)
      /\ t.outputs = WithOutput(s, r.output)
    BY <1>2, <1>3, <1>4, MergedFields
<1>7. eng'[e] = Arrive(e, t, r.next)
    BY <1>2, <1>6 DEF Runs
<1>8. eng'[e].ctx = t.ctx /\ eng'[e].outputs = t.outputs /\ (Halts(e) \/ Enters(e, r.next))
    BY <1>2, <1>5, <1>6, <1>7, ArrivesTo
<1> QED BY <1>2, <1>5, <1>6, <1>8

\* Answers that counted are not taken back, and the engines take turns.
LEMMA AnsweredKept ==
    ASSUME EnginesInv, NEW e \in Engines, EngineStep(e)
    PROVE  /\ Answered'
           /\ \A d \in Engines : \A n \in DOMAIN eng[d].outputs : answered'[n] = answered[n]
<1>1. /\ Answered /\ Shape("workflow") /\ Shape("inProcess") /\ Shape(e)
      /\ e \in {"workflow", "inProcess"}
    BY DEF EnginesInv, Engines
<1>2. flow' = flow /\ DOMAIN eng' = Engines /\ \A d \in Engines : d # e => eng'[d] = eng[d]
    BY StepOfEngine
<1>3. \A n, a : Legitimate(n, a)' = Legitimate(n, a)
    BY <1>2 DEF Legitimate, Config
<1>4. eng[e].phase \notin Resting
    BY StepOfEngine DEF Starts, Runs, Retries, Passes, Closes, Resting
<1>5. e = "workflow" => eng["inProcess"].phase = "idle"
    BY <1>1, <1>4 DEF Answered
<1>6. eng'["inProcess"].phase # "idle" => eng'["workflow"].phase \in Resting
    <2>1. CASE e = "workflow" BY <1>2, <1>5, <2>1 DEF Engines
    <2>2. CASE e = "inProcess"
        <3>1. eng["workflow"].phase \in Resting
            BY <1>1, <2>2, StepOfEngine DEF Answered, Starts, Runs, Retries, Passes, Closes
        <3> QED BY <1>2, <2>2, <3>1 DEF Engines
    <2> QED BY <1>1, <2>1, <2>2
<1>7. e = "workflow" => DOMAIN eng["inProcess"].outputs = {}
    <2> SUFFICES ASSUME e = "workflow" PROVE DOMAIN eng["inProcess"].outputs = {}
        OBVIOUS
    <2>1. eng["inProcess"] = Idle("inProcess") BY <1>1, <1>5 DEF Shape
    <2> QED BY <2>1 DEF Idle
<1>8. ASSUME answered' = answered, eng'[e].outputs = eng[e].outputs
      PROVE  /\ Answered'
             /\ \A d \in Engines : \A n \in DOMAIN eng[d].outputs : answered'[n] = answered[n]
    BY <1>1, <1>2, <1>3, <1>6, <1>8 DEF Answered
<1>9. ASSUME NEW answer, Runs(e, answer)
      PROVE  /\ Answered'
             /\ \A d \in Engines : \A n \in DOMAIN eng[d].outputs : answered'[n] = answered[n]
    <2>1. PICK r : r = Result(eng[e].at, Config(eng[e].at), eng[e].ctx, eng[e].outputs, answer)
        OBVIOUS
    <2>2. DOMAIN eng'[e].outputs = DOMAIN eng[e].outputs \cup {eng[e].at}
        <3>1. eng'[e].outputs = WithOutput(eng[e], r.output) BY <1>9, <2>1, RunsTo, SMTT(30)
        <3> QED BY <3>1 DEF WithOutput
    <2>3. /\ eng[e].at \in Nodes /\ eng[e].at \notin DOMAIN eng[e].outputs
          /\ Legitimate(eng[e].at, answer)
          /\ answered' = [answered EXCEPT ![eng[e].at] = answer]
          /\ e = "workflow" \/ answered[eng[e].at] \in {Unasked, answer}
        BY <1>1, <1>9 DEF Runs, Shape
    <2>4. answer # Unasked
        BY <2>3, LegitimateIsAnswer
    <2>5. \A n \in Nodes : answered'[n] = IF n = eng[e].at THEN answer ELSE answered[n]
        BY <1>1, <2>3 DEF Answered
    <2>6. \A d \in Engines : DOMAIN eng[d].outputs \subseteq Nodes
        BY <1>1 DEF Engines, Shape
    <2>7. ASSUME NEW d \in Engines, NEW n \in DOMAIN eng[d].outputs PROVE answered'[n] = answered[n]
        <3>1. CASE d = e BY <2>3, <2>5, <2>6, <2>7, <3>1
        <3>2. CASE d # e
            <4>1. e = "inProcess" BY <1>1, <1>7, <2>7, <3>2 DEF Engines
            <4>2. answered[n] # Unasked BY <1>1, <2>7 DEF Answered
            <4> QED BY <2>3, <2>5, <2>6, <2>7, <4>1, <4>2
        <3> QED BY <3>1, <3>2
    <2>8. \A d \in Engines : \A n \in DOMAIN eng'[d].outputs : answered'[n] # Unasked
        <3> SUFFICES ASSUME NEW d \in Engines, NEW n \in DOMAIN eng'[d].outputs PROVE answered'[n] # Unasked
            OBVIOUS
        <3>1. CASE d = e /\ n = eng[e].at BY <2>3, <2>4, <2>5, <3>1
        <3>2. CASE d # e \/ n # eng[e].at
            <4>1. n \in DOMAIN eng[d].outputs BY <1>2, <2>2, <3>2
            <4> QED BY <1>1, <2>7, <4>1 DEF Answered
        <3> QED BY <3>1, <3>2
    <2>9. DOMAIN answered' = Nodes
        BY <1>1, <2>3 DEF Answered
    <2>10. \A n \in Nodes : (answered[n] = Unasked \/ Legitimate(n, answered[n]))'
        <3> SUFFICES ASSUME NEW n \in Nodes PROVE (answered[n] = Unasked \/ Legitimate(n, answered[n]))'
            OBVIOUS
        <3>1. CASE n = eng[e].at
            BY <1>2, <2>3, <2>5, <3>1 DEF Legitimate, Config
        <3>2. CASE n # eng[e].at
            BY <1>1, <1>2, <2>5, <3>2 DEF Answered, Legitimate, Config
        <3> QED BY <3>1, <3>2
    <2>11. Answered'
        BY <1>2, <1>6, <2>8, <2>9, <2>10 DEF Answered
    <2> QED BY <2>7, <2>11
<1>10. CASE Starts(e)
    BY <1>8, <1>10, StartsTo DEF Starts
<1>11. CASE Retries(e)
    BY <1>8, <1>11 DEF Retries, Stays
<1>12. CASE Passes(e)
    BY <1>8, <1>12, PassesTo DEF Passes
<1>13. CASE Closes(e)
    <2>1. PICK d \in {"REJECT", "ESCALATE"} : eng'[e] = [eng[e] EXCEPT !.phase = "ended", !.ctx.decision = d]
        BY <1>13 DEF Closes
    <2>2. eng'[e].outputs = eng[e].outputs
        BY <1>1, <2>1 DEF Shape, EngineFields
    <2> QED BY <1>8, <1>13, <2>2 DEF Closes
<1> QED BY <1>9, <1>10, <1>11, <1>12, <1>13, StepOfEngine

-----------------------------------------------------------------------------
(* What a run tells of itself.                                               *)

\* A set of steps has a last one: the least distance from a number above them all.
LEMMA LastIsLast ==
    ASSUME NEW m \in Nat, NEW steps, steps \subseteq 1..m, steps # {}
    PROVE  LastOf(steps) \in steps /\ \A j \in steps : j <= LastOf(steps)
<1> DEFINE distances == {m - i : i \in steps}
<1>1. distances \subseteq Nat /\ distances # {}
    <2>1. \A i \in steps : m - i \in Nat
        OBVIOUS
    <2>2. PICK i \in steps : TRUE
        OBVIOUS
    <2>3. m - i \in distances
        OBVIOUS
    <2> QED BY <2>1, <2>3
<1>2. PICK d \in distances : \A c \in distances : d <= c
    <2> HIDE DEF distances
    <2> QED BY <1>1, LeastNumber
<1>3. PICK i \in steps : d = m - i
    OBVIOUS
<1>4. \A j \in steps : j <= i
    <2> SUFFICES ASSUME NEW j \in steps PROVE j <= i
        OBVIOUS
    <2>1. m - j \in distances
        OBVIOUS
    <2>2. d <= m - j
        BY <1>2, <2>1
    <2> QED BY <1>3, <2>2
<1> QED BY <1>4 DEF LastOf

\* The steps before a step stay what they are when a later one is added.
LEMMA BeforeSteps ==
    ASSUME NEW f, NEW s, s.trace \in Seq(Nodes), NEW i
    PROVE  /\ Len(s.trace) \in Nat
           /\ StepsOf(s) \subseteq 1..Len(s.trace)
           /\ Before(AnalysedOf(f, s), i) \subseteq Before(StepsOf(s), i)
           /\ Before(DecidedOf(f, s), i) \subseteq Before(StepsOf(s), i)
           /\ Before(StepsOf(s), i) \subseteq StepsOf(s)
<1>1. Len(s.trace) \in Nat /\ DOMAIN s.trace = 1..Len(s.trace)
    BY Listed
<1>2. StepsOf(s) \subseteq 1..Len(s.trace)
    BY <1>1 DEF StepsOf
<1>3. AnalysedOf(f, s) \subseteq StepsOf(s) /\ DecidedOf(f, s) \subseteq StepsOf(s)
    BY DEF AnalysedOf, DecidedOf
<1> QED BY <1>1, <1>2, <1>3 DEF Before

\* Two runs that made the same steps with the same outputs stand alike.
SameSteps(s, i, t, j) ==
    /\ Before(StepsOf(t), j) = Before(StepsOf(s), i)
    /\ \A k \in Before(StepsOf(s), i) : t.trace[k] = s.trace[k] /\ OutOf(t, k) = OutOf(s, k)

\* A run that grows keeps what it knew at an earlier step.
LEMMA SamePast ==
    ASSUME NEW f, NEW c, NEW s, s.trace \in Seq(Nodes), NEW i, NEW t, NEW j, SameSteps(s, i, t, j)
    PROVE  /\ Before(AnalysedOf(f, t), j) = Before(AnalysedOf(f, s), i)
           /\ Before(DecidedOf(f, t), j) = Before(DecidedOf(f, s), i)
           /\ ContextOf(f, t, c, j) = ContextOf(f, s, c, i)
           /\ OutputsOf(t, j) = OutputsOf(s, i)
<1> DEFINE B == Before(StepsOf(s), i)
           A == Before(AnalysedOf(f, s), i)
           D == Before(DecidedOf(f, s), i)
<1>1. Before(StepsOf(t), j) = B /\ \A k \in B : t.trace[k] = s.trace[k] /\ OutOf(t, k) = OutOf(s, k)
    BY DEF SameSteps
<1>2. \A k \in B : /\ KindOf(f, t, k) = KindOf(f, s, k) /\ OutOf(t, k) = OutOf(s, k)
                   /\ Obtains(f, t, k) <=> Obtains(f, s, k)
                   /\ Decides(f, t, k) <=> Decides(f, s, k)
    BY <1>1 DEF KindOf, Obtains, Decides
<1>3. /\ A = {k \in B : Obtains(f, s, k)} /\ D = {k \in B : Decides(f, s, k)}
      /\ Before(AnalysedOf(f, t), j) = {k \in Before(StepsOf(t), j) : Obtains(f, t, k)}
      /\ Before(DecidedOf(f, t), j) = {k \in Before(StepsOf(t), j) : Decides(f, t, k)}
    BY DEF Before, AnalysedOf, DecidedOf
<1>4. Before(AnalysedOf(f, t), j) = A /\ Before(DecidedOf(f, t), j) = D
    <2> HIDE DEF B, A, D
    <2> QED BY <1>1, <1>2, <1>3
<1>5. /\ A # {} => LastOf(A) \in B
      /\ D # {} => LastOf(D) \in B
    <2>1. Len(s.trace) \in Nat /\ B \subseteq 1..Len(s.trace) /\ A \subseteq B /\ D \subseteq B
        BY BeforeSteps
    <2> HIDE DEF B, A, D
    <2>2. A \subseteq 1..Len(s.trace) /\ D \subseteq 1..Len(s.trace)
        BY <2>1
    <2>3. ASSUME A # {} PROVE LastOf(A) \in A
        BY <2>1, <2>2, <2>3, LastIsLast
    <2>4. ASSUME D # {} PROVE LastOf(D) \in D
        BY <2>1, <2>2, <2>4, LastIsLast
    <2> QED BY <2>1, <2>3, <2>4
<1>6. /\ RiskOf(t, c, A) = RiskOf(s, c, A)
      /\ ConfidenceOf(t, c, A) = ConfidenceOf(s, c, A)
      /\ DecisionOf(f, t, c, D) = DecisionOf(f, s, c, D)
    <2> HIDE DEF B, A, D
    <2> QED BY <1>2, <1>5 DEF RiskOf, ConfidenceOf, DecisionOf, Verdict
<1>7. ContextOf(f, t, c, j) = ContextOf(f, s, c, i)
    BY <1>4, <1>6 DEF ContextOf
<1>8. OutputsOf(t, j) = OutputsOf(s, i)
    <2> HIDE DEF B
    <2>1. {t.trace[k] : k \in B} = {s.trace[k] : k \in B}
        BY <1>1
    <2>2. \A n \in {s.trace[k] : k \in B} : t.outputs[n] = s.outputs[n]
        BY <1>1 DEF OutOf
    <2>3. OutputsOf(t, j) = [n \in {t.trace[k] : k \in B} |-> t.outputs[n]]
        BY <1>1 DEF OutputsOf
    <2>4. OutputsOf(s, i) = [n \in {s.trace[k] : k \in B} |-> s.outputs[n]]
        BY DEF OutputsOf, B
    <2> QED BY <2>1, <2>2, <2>3, <2>4
<1> QED BY <1>4, <1>7, <1>8

\* What the output of a node of each kind may look like.
Fits(kind, out) ==
    /\ kind = "AI" => \/ out = Failure
                      \/ /\ DOMAIN out = {"risk", "confidence", "recommendation"}
                         /\ out.risk \in Percent /\ out.confidence \in Percent
                         /\ out.recommendation \in Recommendations
    /\ kind = "RULE" => out = Failure \/ out \in [hardBlock : BOOLEAN]
    /\ kind = "SCORE" => DOMAIN out = {"decision"} /\ out.decision \in Recommendations
    /\ kind \notin {"AI", "RULE", "SCORE"} => out # [hardBlock |-> TRUE]

\* The output of a rule service has one field.
LEMMA HardBlockFields ==
    ASSUME NEW out
    PROVE  /\ out = [hardBlock |-> TRUE] => DOMAIN out = {"hardBlock"} /\ out.hardBlock = TRUE
           /\ DOMAIN Failure = {"usedFallback"} /\ DOMAIN Done = {"done"}
BY DEF Failure, Done

\* The output of a node has the fields its kind writes.
LEMMA OutputFits ==
    ASSUME FlowOK, NEW n \in Nodes, NEW answer, Legitimate(n, answer), NEW ctx, NEW outputs
    PROVE  /\ Fits(Config(n).kind, Output(Config(n), ctx, outputs, answer))
           /\ Config(n).kind \in {"AI", "RULE"} => Output(Config(n), ctx, outputs, answer) = answer
           /\ Config(n).kind = "SCORE" => Output(Config(n), ctx, outputs, answer).decision
                                            = Score(Config(n), ctx)
           /\ Config(n).kind \notin {"AI", "RULE", "SCORE", "CONDITION"} =>
                 Output(Config(n), ctx, outputs, answer) = answer
           /\ Config(n).kind = "CONDITION" => Output(Config(n), ctx, outputs, answer) # [hardBlock |-> TRUE]
<1> DEFINE node == Config(n)
           out == Output(node, ctx, outputs, answer)
<1>1. answer \in Answers(node, Analyses) \/ (answer = Failure /\ Remote(node))
    BY DEF Legitimate
<1> HIDE DEF node
<1>2. CASE node.kind = "AI"
    <2>1. out = answer
        BY <1>2 DEF Output
    <2>2. answer = Failure \/ answer \in Analyses \cup {EscalateFallback}
        BY <1>1, <1>2 DEF Answers
    <2>3. answer \in Analyses \cup {EscalateFallback} =>
             /\ DOMAIN answer = {"risk", "confidence", "recommendation"}
             /\ answer.risk \in Percent /\ answer.confidence \in Percent
             /\ answer.recommendation \in Recommendations
        BY AnalysesAssumption DEF EscalateFallback, Percent, Recommendations
    <2>4. Fits("AI", answer)
        BY <2>2, <2>3 DEF Fits
    <2> QED BY <1>2, <2>1, <2>4 DEF node
<1>3. CASE node.kind = "RULE"
    <2>1. out = answer
        BY <1>3 DEF Output
    <2>2. answer = Failure \/ answer \in [hardBlock : BOOLEAN]
        BY <1>1, <1>3 DEF Answers
    <2>3. Fits("RULE", answer)
        BY <2>2 DEF Fits
    <2> QED BY <1>3, <2>1, <2>3 DEF node
<1>4. CASE node.kind = "SCORE"
    <2>1. answer # Failure
        BY <1>1, <1>4 DEF Answers, Remote, Done, Failure
    <2>2. out = [decision |-> Score(node, ctx)]
        BY <1>4, <2>1 DEF Output
    <2>3. Score(node, ctx) \in Recommendations
        BY DEF Score, Recommendations
    <2>4. Fits("SCORE", out)
        BY <2>2, <2>3 DEF Fits
    <2> HIDE DEF out
    <2>5. out.decision = Score(node, ctx)
        BY <2>2
    <2> QED BY <1>4, <2>4, <2>5 DEF node, out
<1>5. CASE node.kind = "CONDITION"
    <2>1. answer # Failure
        BY <1>1, <1>5 DEF Answers, Remote, Done, Failure
    <2> DEFINE selected == IF Holds(node.expr, ctx, outputs) THEN node.onTrue ELSE node.onFalse
    <2>2. out = [selected |-> selected]
        BY <1>5, <2>1 DEF Output
    <2> HIDE DEF selected, out
    <2>3. DOMAIN out = {"selected"}
        BY <2>2
    <2>4. out # [hardBlock |-> TRUE]
        BY <2>3, HardBlockFields
    <2>5. Fits("CONDITION", out)
        BY <2>4 DEF Fits
    <2> QED BY <1>5, <2>4, <2>5 DEF node, out
<1>6. CASE node.kind \notin {"AI", "RULE", "SCORE", "CONDITION"}
    <2>1. out = answer
        BY <1>6 DEF Output
    <2>2. answer \in {Done, Failure}
        BY <1>1, <1>6 DEF Answers
    <2>3. answer # [hardBlock |-> TRUE]
        BY <2>2 DEF Done, Failure
    <2>4. Fits(node.kind, answer)
        BY <1>6, <2>3 DEF Fits
    <2> QED BY <1>6, <2>1, <2>4 DEF node
<1> QED BY <1>2, <1>3, <1>4, <1>5, <1>6

\* A step makes of the context what either engine merges into it.
LEMMA ContextStep ==
    ASSUME NEW f, NEW c, NEW e, NEW s, s.trace \in Seq(Nodes), NEW i \in StepsOf(s),
           Fits(KindOf(f, s, i), OutOf(s, i))
    PROVE  ContextOf(f, s, c, i + 1) = NewContext(e, KindOf(f, s, i), OutOf(s, i), ContextOf(f, s, c, i))
<1> DEFINE A == Before(AnalysedOf(f, s), i)
           D == Before(DecidedOf(f, s), i)
           kind == KindOf(f, s, i)
           out == OutOf(s, i)
           ctx == ContextOf(f, s, c, i)
<1>1. Len(s.trace) \in Nat /\ StepsOf(s) \subseteq 1..Len(s.trace)
    BY BeforeSteps
<1>2. /\ Len(s.trace) \in Nat /\ StepsOf(s) \subseteq 1..Len(s.trace) /\ i \in Nat
      /\ AnalysedOf(f, s) \subseteq StepsOf(s) /\ DecidedOf(f, s) \subseteq StepsOf(s)
      /\ \A j \in StepsOf(s) : j \in Nat
    BY <1>1 DEF AnalysedOf, DecidedOf
<1>3. \A steps : steps \subseteq StepsOf(s) =>
         Before(steps, i + 1) = IF i \in steps THEN Before(steps, i) \cup {i} ELSE Before(steps, i)
    <2> SUFFICES ASSUME NEW steps, steps \subseteq StepsOf(s)
                 PROVE  Before(steps, i + 1) = IF i \in steps THEN Before(steps, i) \cup {i} ELSE Before(steps, i)
        OBVIOUS
    <2>1. \A j \in steps : j < i + 1 <=> j < i \/ j = i
        BY <1>2
    <2>2. CASE i \in steps
        BY <2>1, <2>2 DEF Before
    <2>3. CASE i \notin steps
        BY <2>1, <2>3 DEF Before
    <2> QED BY <2>2, <2>3
<1>4. Before(AnalysedOf(f, s), i + 1) = IF Obtains(f, s, i) THEN A \cup {i} ELSE A
    <2>1. i \in AnalysedOf(f, s) <=> Obtains(f, s, i)
        BY DEF AnalysedOf
    <2> QED BY <1>2, <1>3, <2>1
<1>5. Before(DecidedOf(f, s), i + 1) = IF Decides(f, s, i) THEN D \cup {i} ELSE D
    <2>1. i \in DecidedOf(f, s) <=> Decides(f, s, i)
        BY DEF DecidedOf
    <2> QED BY <1>2, <1>3, <2>1
<1>6. ASSUME NEW steps, steps \subseteq StepsOf(s), \A j \in steps : j < i
      PROVE  LastOf(steps \cup {i}) = i
    <2>1. steps \cup {i} \subseteq 1..Len(s.trace) /\ steps \cup {i} # {}
        BY <1>2, <1>6
    <2>2. PICK S : S = steps \cup {i}
        OBVIOUS
    <2>3. LastOf(S) \in S /\ \A j \in S : j <= LastOf(S)
        BY <1>2, <2>1, <2>2, LastIsLast
    <2>4. \A j \in S : j \in Nat /\ j <= i
        BY <1>2, <1>6, <2>1, <2>2
    <2>5. LastOf(S) = i
        <3>1. PICK l : l = LastOf(S)
            OBVIOUS
        <3>2. l \in Nat /\ l <= i
            BY <2>3, <2>4, <3>1
        <3>3. i \in S /\ i <= l
            BY <2>2, <2>3, <3>1
        <3> QED BY <1>2, <3>1, <3>2, <3>3
    <2> QED BY <2>2, <2>5
<1>7. LastOf(A \cup {i}) = i /\ LastOf(D \cup {i}) = i
    <2>1. A \subseteq StepsOf(s) /\ D \subseteq StepsOf(s)
        BY <1>2 DEF Before
    <2>2. (\A j \in A : j < i) /\ (\A j \in D : j < i)
        BY DEF Before
    <2> QED BY <1>6, <2>1, <2>2
<1>8. /\ RiskOf(s, c, Before(AnalysedOf(f, s), i + 1)) = IF Obtains(f, s, i) THEN out.risk ELSE ctx.risk
      /\ ConfidenceOf(s, c, Before(AnalysedOf(f, s), i + 1))
            = IF Obtains(f, s, i) THEN out.confidence ELSE ctx.confidence
    <2>1. ctx.risk = RiskOf(s, c, A) /\ ctx.confidence = ConfidenceOf(s, c, A)
        BY DEF ContextOf
    <2> HIDE DEF A, ctx
    <2> QED BY <1>4, <1>7, <2>1 DEF RiskOf, ConfidenceOf
<1>9. DecisionOf(f, s, c, Before(DecidedOf(f, s), i + 1))
         = IF Decides(f, s, i) THEN Verdict(f, s, i) ELSE ctx.decision
    <2>1. ctx.decision = DecisionOf(f, s, c, D)
        BY DEF ContextOf
    <2> HIDE DEF D, ctx
    <2> QED BY <1>5, <1>7, <2>1 DEF DecisionOf
<1>10. ContextOf(f, s, c, i + 1) =
          [risk       |-> IF Obtains(f, s, i) THEN out.risk ELSE ctx.risk,
           confidence |-> IF Obtains(f, s, i) THEN out.confidence ELSE ctx.confidence,
           decision   |-> IF Decides(f, s, i) THEN Verdict(f, s, i) ELSE ctx.decision]
    BY <1>8, <1>9 DEF ContextOf
<1>11. /\ DOMAIN ctx = Scalars
       /\ ctx = [risk |-> ctx.risk, confidence |-> ctx.confidence, decision |-> ctx.decision]
       /\ \A d : [ctx EXCEPT !.decision = d] = [risk |-> ctx.risk, confidence |-> ctx.confidence, decision |-> d]
    BY DEF ContextOf, Scalars
<1>12. /\ Obtains(f, s, i) <=> kind = "AI" /\ "risk" \in DOMAIN out
       /\ Decides(f, s, i) <=> \/ Obtains(f, s, i) /\ out.recommendation # "APPROVE"
                               \/ kind = "SCORE" \/ out = [hardBlock |-> TRUE]
       /\ Verdict(f, s, i) = CASE kind = "AI" -> out.recommendation
                               [] kind = "SCORE" -> out.decision
                               [] OTHER -> "REJECT"
    BY DEF Obtains, Decides, Verdict
<1>13. Fits(kind, out)
    OBVIOUS
<1> SUFFICES ContextOf(f, s, c, i + 1) = NewContext(e, kind, out, ctx)
    OBVIOUS
<1> HIDE DEF kind, out, ctx, A, D
<1>14. CASE kind = "AI" /\ out # Failure
    <2>1. /\ DOMAIN out = {"risk", "confidence", "recommendation"}
          /\ out.recommendation \in Recommendations
        BY <1>13, <1>14 DEF Fits
    <2>2. out # [hardBlock |-> TRUE]
        BY <2>1, HardBlockFields
    <2>3. Obtains(f, s, i) /\ (Decides(f, s, i) <=> out.recommendation # "APPROVE")
        BY <1>12, <1>14, <2>1, <2>2
    <2>4. ContextOf(f, s, c, i + 1) =
             [risk |-> out.risk, confidence |-> out.confidence,
              decision |-> IF out.recommendation # "APPROVE" THEN out.recommendation ELSE ctx.decision]
        BY <1>10, <1>12, <1>14, <2>3
    <2> QED BY <1>14, <2>1, <2>4 DEF NewContext, Propagate, MergeOutputIntoContext, Recommendations
<1>15. CASE kind = "AI" /\ out = Failure
    <2>1. "risk" \notin DOMAIN out /\ out # [hardBlock |-> TRUE]
        <3>1. DOMAIN out = {"usedFallback"} BY <1>15, HardBlockFields
        <3> QED BY <3>1, HardBlockFields
    <2>2. ~Obtains(f, s, i) /\ ~Decides(f, s, i)
        BY <1>12, <1>15, <2>1
    <2>3. ContextOf(f, s, c, i + 1) = ctx
        BY <1>10, <1>11, <2>2
    <2> QED BY <1>15, <2>1, <2>3 DEF NewContext, Propagate, MergeOutputIntoContext
<1>16. CASE kind = "SCORE"
    <2>1. ~Obtains(f, s, i) /\ Decides(f, s, i) /\ Verdict(f, s, i) = out.decision
        BY <1>12, <1>16
    <2>2. ContextOf(f, s, c, i + 1) = [ctx EXCEPT !.decision = out.decision]
        BY <1>10, <1>11, <2>1
    <2> QED BY <1>16, <2>2 DEF NewContext, Propagate, MergeOutputIntoContext
<1>17. CASE kind = "RULE" /\ out # Failure
    <2>1. DOMAIN out = {"hardBlock"} /\ out.hardBlock \in BOOLEAN /\ out = [hardBlock |-> out.hardBlock]
        BY <1>13, <1>17 DEF Fits
    <2>2. ~Obtains(f, s, i) /\ (Decides(f, s, i) <=> out.hardBlock = TRUE)
        BY <1>12, <1>17, <2>1, HardBlockFields
    <2>3. Verdict(f, s, i) = "REJECT"
        BY <1>12, <1>17
    <2>4. CASE out.hardBlock = TRUE
        <3>1. ContextOf(f, s, c, i + 1) = [ctx EXCEPT !.decision = "REJECT"]
            BY <1>10, <1>11, <2>2, <2>3, <2>4
        <3> QED BY <1>17, <2>1, <2>4, <3>1 DEF NewContext, Propagate, MergeOutputIntoContext
    <2>5. CASE out.hardBlock = FALSE
        <3>1. ContextOf(f, s, c, i + 1) = ctx
            BY <1>10, <1>11, <2>2, <2>5
        <3>2. [ctx EXCEPT !.decision = ctx.decision] = ctx
            BY <1>11
        <3> QED BY <1>17, <2>1, <2>5, <3>1, <3>2 DEF NewContext, Propagate, MergeOutputIntoContext
    <2> QED BY <2>1, <2>4, <2>5
<1>18. CASE kind = "RULE" /\ out = Failure
    <2>1. "hardBlock" \notin DOMAIN out /\ out # [hardBlock |-> TRUE]
        BY <1>18, HardBlockFields
    <2>2. ~Obtains(f, s, i) /\ ~Decides(f, s, i)
        BY <1>12, <1>18, <2>1
    <2>3. ContextOf(f, s, c, i + 1) = ctx
        BY <1>10, <1>11, <2>2
    <2> QED BY <1>18, <2>1, <2>3 DEF NewContext, Propagate, MergeOutputIntoContext
<1>19. CASE kind \notin {"AI", "RULE", "SCORE"}
    <2>1. out # [hardBlock |-> TRUE]
        BY <1>13, <1>19 DEF Fits
    <2>2. ~Obtains(f, s, i) /\ ~Decides(f, s, i)
        BY <1>12, <1>19, <2>1
    <2>3. ContextOf(f, s, c, i + 1) = ctx
        BY <1>10, <1>11, <2>2
    <2> QED BY <1>19, <2>3 DEF NewContext, Propagate, MergeOutputIntoContext
<1> QED BY <1>14, <1>15, <1>16, <1>17, <1>18, <1>19

\* A run replays as long as its steps, their outputs, their answers and the nodes
\* behind them stay.
LEMMA ReplaysOn ==
    ASSUME NEW f, NEW c, NEW s, s.trace \in Seq(Nodes), NEW g, Replays(f, s, c, g),
           NEW t, NEW h, StepsOf(t) = StepsOf(s),
           \A k \in StepsOf(s) : /\ t.trace[k] = s.trace[k] /\ OutOf(t, k) = OutOf(s, k)
                                 /\ h[s.trace[k]] = g[s.trace[k]]
                                 /\ k < Len(t.trace) => k < Len(s.trace) /\ t.trace[k + 1] = s.trace[k + 1]
    PROVE  Replays(f, t, c, h)
<1> SUFFICES ASSUME NEW i \in StepsOf(s)
             PROVE  /\ OutOf(t, i) = ResultOf(f, t, c, h, i).output
                    /\ i < Len(t.trace) => t.trace[i + 1] = ResultOf(f, t, c, h, i).next
    BY DEF Replays
<1>1. SameSteps(s, i, t, i)
    BY DEF SameSteps, Before
<1>2. ContextOf(f, t, c, i) = ContextOf(f, s, c, i) /\ OutputsOf(t, i) = OutputsOf(s, i)
    BY <1>1, SamePast
<1>3. ResultOf(f, t, c, h, i) = ResultOf(f, s, c, g, i)
    BY <1>2 DEF ResultOf
<1> QED BY <1>3 DEF Replays

-----------------------------------------------------------------------------
(* A step of an engine keeps the run determined.                             *)

\* A path that grows keeps its nodes.
LEMMA PathGrows ==
    ASSUME NEW e, NEW n, Shape(e), Halts(e) \/ Enters(e, n)
    PROVE  LET L == Len(eng[e].trace)
           IN  /\ L \in Nat /\ eng'[e].trace \in Seq(Nodes)
               /\ Len(eng'[e].trace) \in {L, L + 1}
               /\ DOMAIN eng'[e].trace = 1..Len(eng'[e].trace) /\ DOMAIN eng[e].trace = 1..L
               /\ \A i \in 1..L : eng'[e].trace[i] = eng[e].trace[i]
               /\ Len(eng'[e].trace) = L + 1 =>
                     /\ eng'[e].trace[L + 1] = n /\ n \notin eng[e].visited
<1> DEFINE L == Len(eng[e].trace)
<1>1. eng[e].trace \in Seq(Nodes) /\ L \in Nat /\ DOMAIN eng[e].trace = 1..L
    <2>1. eng[e].trace \in Seq(Nodes) BY DEF Shape
    <2> QED BY <2>1, Listed
<1>2. CASE Halts(e)
    BY <1>1, <1>2 DEF Halts
<1>3. CASE Enters(e, n)
    BY <1>1, <1>3 DEF Enters
<1> QED BY <1>2, <1>3

\* The steps of a run are among the steps before the end of its path.
LEMMA AllSteps ==
    ASSUME NEW s, s.trace \in Seq(Nodes), NEW k \in Nat, k > Len(s.trace)
    PROVE  Before(StepsOf(s), k) = StepsOf(s)
<1>1. Len(s.trace) \in Nat /\ StepsOf(s) \subseteq 1..Len(s.trace)
    BY BeforeSteps
<1>2. \A i \in StepsOf(s) : i < k
    BY <1>1
<1> QED BY <1>2 DEF Before

\* An engine that makes no step.
LEMMA NoStepHistory ==
    ASSUME NEW e, Shape(e), Replays(flow, eng[e], InitialContext(e), answered), flow' = flow,
           eng'[e].trace \in Seq(Nodes), StepsOf(eng'[e]) = StepsOf(eng[e]),
           eng'[e].outputs = eng[e].outputs,
           \A n \in DOMAIN eng[e].outputs : answered'[n] = answered[n],
           \A k \in StepsOf(eng[e]) :
               /\ eng'[e].trace[k] = eng[e].trace[k]
               /\ k < Len(eng'[e].trace) =>
                     k < Len(eng[e].trace) /\ eng'[e].trace[k + 1] = eng[e].trace[k + 1]
    PROVE  Replays(flow, eng[e], InitialContext(e), answered)' /\ Now(e)' = Now(e)
<1> DEFINE c == InitialContext(e)
<1>1. PICK s : s = eng[e]
    OBVIOUS
<1>2. PICK t : t = eng'[e]
    OBVIOUS
<1>3. PICK g : g = answered
    OBVIOUS
<1>4. PICK h : h = answered'
    OBVIOUS
<1>5. s.trace \in Seq(Nodes) /\ t.trace \in Seq(Nodes) /\ StepsOf(t) = StepsOf(s)
    BY <1>1, <1>2 DEF Shape
<1>6. \A k \in StepsOf(s) : /\ t.trace[k] = s.trace[k] /\ OutOf(t, k) = OutOf(s, k)
                            /\ h[s.trace[k]] = g[s.trace[k]]
                            /\ k < Len(t.trace) => k < Len(s.trace) /\ t.trace[k + 1] = s.trace[k + 1]
    BY <1>1, <1>2, <1>3, <1>4 DEF OutOf, StepsOf
<1>7. PICK f : f = flow
    OBVIOUS
<1>8. Replays(f, s, c, g)
    BY <1>1, <1>3, <1>7
<1> HIDE DEF c
<1>9. Replays(f, t, c, h)
    BY <1>5, <1>6, <1>8, ReplaysOn
<1>10. Len(s.trace) \in Nat /\ Len(t.trace) \in Nat
    BY <1>5, Listed
<1>11. SameSteps(s, Len(s.trace) + 1, t, Len(t.trace) + 1)
    <2>1. /\ Before(StepsOf(s), Len(s.trace) + 1) = StepsOf(s)
          /\ Before(StepsOf(t), Len(t.trace) + 1) = StepsOf(t)
        BY <1>5, <1>10, AllSteps
    <2> QED BY <1>5, <1>6, <2>1 DEF SameSteps
<1>12. ContextOf(f, t, c, Len(t.trace) + 1) = ContextOf(f, s, c, Len(s.trace) + 1)
    BY <1>5, <1>11, SamePast
<1>13. c' = c
    BY DEF c, InitialContext
<1>14. Now(e) = ContextOf(f, s, c, Len(s.trace) + 1)
    BY <1>1, <1>7 DEF Now, c
<1>15. Now(e)' = ContextOf(f, t, c, Len(t.trace) + 1)
    BY <1>2, <1>7, <1>13 DEF Now, c
<1>16. Replays(flow, eng[e], InitialContext(e), answered)'
    BY <1>2, <1>4, <1>7, <1>9, <1>13 DEF c
<1> QED BY <1>12, <1>14, <1>15, <1>16

\* Getting through a node appends the result of what the run had left.
LEMMA RunsHistory ==
    ASSUME EnginesInv, NEW e \in Engines, NEW answer, Runs(e, answer), flow' = flow,
           \A n \in DOMAIN eng[e].outputs : answered'[n] = answered[n]
    PROVE  History(e)'
<1> DEFINE c == InitialContext(e)
<1>1. PICK s : s = eng[e]
    OBVIOUS
<1>2. PICK t : t = eng'[e]
    OBVIOUS
<1>3. PICK g : g = answered
    OBVIOUS
<1>4. PICK h : h = answered'
    OBVIOUS
<1>5. PICK f : f = flow
    OBVIOUS
<1>6. PICK r : r = Result(s.at, f.node[s.at], s.ctx, s.outputs, answer)
    OBVIOUS
<1>7. PICK L : L = Len(s.trace)
    OBVIOUS
<1>8. FlowOK /\ Answered /\ Shape(e) /\ History(e) /\ s.phase = "calling" /\ Legitimate(s.at, answer)
    BY <1>1 DEF EnginesInv, Runs
<1>9. /\ s.trace \in Seq(Nodes) /\ s.trace # << >> /\ s.at = s.trace[L] /\ s.at \in Nodes
      /\ s.at \notin DOMAIN s.outputs /\ DOMAIN s.outputs \subseteq s.visited
      /\ s.visited = {s.trace[i] : i \in DOMAIN s.trace}
      /\ s.outputs = [n \in DOMAIN s.outputs |-> s.outputs[n]]
      /\ \A i, j \in DOMAIN s.trace : s.trace[i] = s.trace[j] => i = j
    BY <1>1, <1>7, <1>8 DEF Shape
<1>10. /\ t.outputs = WithOutput(s, r.output)
       /\ t.ctx = NewContext(e, f.node[s.at].kind, r.output, s.ctx)
       /\ Halts(e) \/ Enters(e, r.next)
    BY <1>1, <1>2, <1>5, <1>6, RunsTo DEF Config
<1>11. /\ L \in Nat /\ t.trace \in Seq(Nodes) /\ Len(t.trace) \in {L, L + 1}
       /\ DOMAIN t.trace = 1..Len(t.trace) /\ DOMAIN s.trace = 1..L
       /\ \A i \in 1..L : t.trace[i] = s.trace[i]
       /\ Len(t.trace) = L + 1 => t.trace[L + 1] = r.next /\ r.next \notin s.visited
    BY <1>1, <1>2, <1>7, <1>8, <1>10, PathGrows
<1>12. L \in 1..L
    BY <1>9, <1>11
<1>13. /\ DOMAIN t.outputs = DOMAIN s.outputs \cup {s.at} /\ t.outputs[s.at] = r.output
       /\ \A n \in DOMAIN s.outputs : t.outputs[n] = s.outputs[n]
    BY <1>9, <1>10 DEF WithOutput
<1>14. StepsOf(s) \subseteq 1..L /\ L \notin StepsOf(s) /\ \A i \in StepsOf(s) : i \in Nat /\ i < L
    <2>1. StepsOf(s) \subseteq 1..L /\ L \notin StepsOf(s)
        BY <1>9, <1>11 DEF StepsOf
    <2> QED BY <1>11, <2>1
<1>15. StepsOf(t) = StepsOf(s) \cup {L}
    <2>1. ASSUME NEW i \in 1..L PROVE i \in StepsOf(t) <=> i \in StepsOf(s) \/ i = L
        <3>1. i \in StepsOf(t) <=> s.trace[i] \in DOMAIN s.outputs \cup {s.at}
            BY <1>11, <1>13, <2>1 DEF StepsOf
        <3>2. s.trace[i] = s.at <=> i = L
            BY <1>9, <1>11, <1>12, <2>1
        <3> QED BY <1>11, <3>1, <3>2 DEF StepsOf
    <2>2. ASSUME NEW i \in StepsOf(t) PROVE i \in 1..L
        <3>1. i \in 1..Len(t.trace) /\ t.trace[i] \in DOMAIN s.outputs \cup {s.at}
            BY <1>11, <1>13, <2>2 DEF StepsOf
        <3>2. s.at \in s.visited
            BY <1>9, <1>11, <1>12
        <3>3. t.trace[i] \in s.visited
            BY <1>9, <3>1, <3>2
        <3>4. i \in 1..L \/ (i = L + 1 /\ Len(t.trace) = L + 1)
            BY <1>11, <3>1
        <3> QED BY <1>11, <3>3, <3>4
    <2> QED BY <1>12, <1>14, <2>1, <2>2
<1>16. \A k \in StepsOf(s) : t.trace[k] = s.trace[k] /\ OutOf(t, k) = OutOf(s, k)
    BY <1>11, <1>13, <1>14 DEF OutOf, StepsOf
<1>17. \A i \in 1..L : SameSteps(s, i, t, i)
    <2> SUFFICES ASSUME NEW i \in 1..L PROVE SameSteps(s, i, t, i)
        OBVIOUS
    <2>1. ~(L < i)
        BY <1>11
    <2>2. Before(StepsOf(t), i) = Before(StepsOf(s), i)
        BY <1>15, <2>1 DEF Before
    <2>3. Before(StepsOf(s), i) \subseteq StepsOf(s)
        BY DEF Before
    <2> QED BY <1>16, <2>2, <2>3 DEF SameSteps
<1>18. SameSteps(s, L + 1, t, L)
    <2>1. Before(StepsOf(s), L + 1) = StepsOf(s)
        BY <1>7, <1>9, <1>11, AllSteps
    <2>2. Before(StepsOf(t), L) = StepsOf(s)
        BY <1>11, <1>14, <1>15 DEF Before
    <2> QED BY <1>16, <2>1, <2>2 DEF SameSteps
<1>19. s.ctx = ContextOf(f, s, c, L + 1) /\ Replays(f, s, c, g)
    BY <1>1, <1>3, <1>5, <1>7, <1>8 DEF History, Now
<1>20. c' = c
    BY DEF InitialContext
<1> HIDE DEF c
<1>21. ContextOf(f, t, c, L) = s.ctx /\ OutputsOf(t, L) = OutputsOf(s, L + 1)
    BY <1>9, <1>18, <1>19, SamePast
<1>22. OutputsOf(s, L + 1) = s.outputs
    <2>1. Before(StepsOf(s), L + 1) = StepsOf(s)
        BY <1>7, <1>9, <1>11, AllSteps
    <2>2. {s.trace[j] : j \in StepsOf(s)} = DOMAIN s.outputs
        BY <1>9, <1>11 DEF StepsOf
    <2>3. OutputsOf(s, L + 1) = [n \in DOMAIN s.outputs |-> s.outputs[n]]
        BY <2>1, <2>2 DEF OutputsOf
    <2> QED BY <1>9, <2>3
<1>23. h[s.at] = answer /\ \A n \in DOMAIN s.outputs : h[n] = g[n]
    <2>1. answered' = [answered EXCEPT ![eng[e].at] = answer] /\ DOMAIN answered = Nodes
        BY <1>8 DEF Runs, Answered
    <2> QED BY <1>1, <1>3, <1>4, <1>9, <2>1
<1>24. ResultOf(f, t, c, h, L) = r
    <2>1. t.trace[L] = s.at
        BY <1>9, <1>11, <1>12
    <2> QED BY <1>6, <1>21, <1>22, <1>23, <2>1 DEF ResultOf
<1>25. OutOf(t, L) = r.output
    BY <1>9, <1>11, <1>12, <1>13 DEF OutOf
<1>26. Replays(f, t, c, h)
    <2> SUFFICES ASSUME NEW i \in StepsOf(t)
                 PROVE  /\ OutOf(t, i) = ResultOf(f, t, c, h, i).output
                        /\ i < Len(t.trace) => t.trace[i + 1] = ResultOf(f, t, c, h, i).next
        BY DEF Replays
    <2>1. CASE i = L
        BY <1>11, <1>24, <1>25, <2>1
    <2>2. CASE i \in StepsOf(s)
        <3>1. i \in 1..L /\ i < L /\ i + 1 \in 1..L
            BY <1>11, <1>14, <2>2
        <3>2. ContextOf(f, t, c, i) = ContextOf(f, s, c, i) /\ OutputsOf(t, i) = OutputsOf(s, i)
            BY <1>9, <1>17, <3>1, SamePast
        <3>3. t.trace[i] = s.trace[i] /\ h[s.trace[i]] = g[s.trace[i]]
            BY <1>16, <1>23, <2>2 DEF StepsOf
        <3>4. ResultOf(f, t, c, h, i) = ResultOf(f, s, c, g, i)
            BY <3>2, <3>3 DEF ResultOf
        <3>5. OutOf(s, i) = ResultOf(f, s, c, g, i).output /\ s.trace[i + 1] = ResultOf(f, s, c, g, i).next
            BY <1>7, <1>19, <2>2, <3>1 DEF Replays
        <3> QED BY <1>11, <1>16, <2>2, <3>1, <3>4, <3>5
    <2> QED BY <1>15, <2>1, <2>2
<1>27. KindOf(f, t, L) = f.node[s.at].kind /\ Fits(KindOf(f, t, L), OutOf(t, L))
    <2>1. KindOf(f, t, L) = f.node[s.at].kind
        BY <1>9, <1>11, <1>12 DEF KindOf
    <2>2. r.output = Output(f.node[s.at], s.ctx, s.outputs, answer)
        BY <1>6 DEF Result
    <2>3. f.node[s.at] = Config(s.at)
        BY <1>5 DEF Config
    <2>4. Fits(Config(s.at).kind, Output(Config(s.at), s.ctx, s.outputs, answer))
        BY <1>8, <1>9, OutputFits
    <2> QED BY <1>25, <2>1, <2>2, <2>3, <2>4
<1>28. ContextOf(f, t, c, L + 1) = t.ctx
    <2>1. L \in StepsOf(t)
        BY <1>15
    <2>2. ContextOf(f, t, c, L + 1) = NewContext(e, KindOf(f, t, L), OutOf(t, L), ContextOf(f, t, c, L))
        BY <1>11, <1>27, <2>1, ContextStep
    <2> QED BY <1>10, <1>21, <1>25, <1>27, <2>2
<1>29. ContextOf(f, t, c, Len(t.trace) + 1) = ContextOf(f, t, c, L + 1)
    <2>1. Before(StepsOf(t), Len(t.trace) + 1) = StepsOf(t)
        BY <1>11, AllSteps
    <2>2. Before(StepsOf(t), L + 1) = StepsOf(t)
        BY <1>11, <1>14, <1>15 DEF Before
    <2>3. SameSteps(t, L + 1, t, Len(t.trace) + 1)
        BY <2>1, <2>2 DEF SameSteps
    <2> QED BY <1>11, <2>3, SamePast
<1>30. Now(e)' = ContextOf(f, t, c, Len(t.trace) + 1)
    BY <1>2, <1>5, <1>20 DEF Now, c
<1>31. Replays(flow, eng[e], InitialContext(e), answered)'
    BY <1>2, <1>4, <1>5, <1>20, <1>26 DEF c
<1>32. eng'[e].ctx = Now(e)'
    BY <1>2, <1>28, <1>29, <1>30
<1> QED BY <1>31, <1>32 DEF History

\* Every step of an engine keeps the history of both.
LEMMA HistoryKept ==
    ASSUME EnginesInv, NEW e \in Engines, EngineStep(e), NEW d \in Engines PROVE History(d)'
<1>1. flow' = flow /\ \A x \in Engines : x # e => eng'[x] = eng[x]
    BY StepOfEngine
<1>2. Starts(e) \/ (\E answer : Runs(e, answer)) \/ Retries(e) \/ Passes(e) \/ Closes(e)
    BY StepOfEngine
<1>3. Shape(e) /\ History(e) /\ Shape(d) /\ History(d)
    BY DEF EnginesInv
<1>4. \A x \in Engines : \A n \in DOMAIN eng[x].outputs : answered'[n] = answered[n]
    BY AnsweredKept
<1>5. \A m : Config(m)' = Config(m)
    BY <1>1 DEF Config
<1>6. CASE d # e
    <2>1. eng'[d] = eng[d] /\ eng[d].trace \in Seq(Nodes)
        BY <1>1, <1>3, <1>6 DEF Shape
    <2>2. Replays(flow, eng[d], InitialContext(d), answered)' /\ Now(d)' = Now(d)
        BY <1>1, <1>3, <1>4, <2>1, NoStepHistory DEF History
    <2> QED BY <1>3, <1>5, <2>1, <2>2 DEF History
<1>7. CASE d = e
    <2> SUFFICES History(e)'
        BY <1>7
    <2>1. ASSUME NEW answer, Runs(e, answer) PROVE History(e)'
        BY <1>1, <1>4, <2>1, RunsHistory
    <2>2. CASE Starts(e)
        <3>1. /\ eng[e] = Idle(e) /\ eng'[e].ctx = eng[e].ctx /\ eng'[e].outputs = eng[e].outputs
              /\ Enters(e, flow.entry)
            BY <2>2, StartsTo
        <3>2. /\ eng[e].outputs = << >> /\ eng[e].ctx = InitialContext(e) /\ eng[e].trace = << >>
              /\ eng[e].phase = "idle"
            BY <3>1 DEF Idle
        <3>3. StepsOf(eng[e]) = {} /\ StepsOf(eng'[e]) = {}
            BY <3>1, <3>2 DEF StepsOf
        <3>4. eng'[e].trace \in Seq(Nodes)
            BY <1>3, <3>1, PathGrows
        <3>5. Replays(flow, eng[e], InitialContext(e), answered)' /\ Now(e)' = Now(e)
            BY <1>1, <1>3, <1>4, <3>1, <3>3, <3>4, NoStepHistory DEF History
        <3>6. eng[e].ctx = Now(e)
            BY <1>3, <3>2 DEF History
        <3>7. eng'[e].ctx = Now(e)'
            BY <3>1, <3>5, <3>6
        <3> QED BY <3>5, <3>7 DEF History
    <2>3. CASE Retries(e)
        <3>1. /\ eng'[e].ctx = eng[e].ctx /\ eng'[e].outputs = eng[e].outputs
              /\ eng'[e].trace = eng[e].trace /\ eng[e].trace \in Seq(Nodes)
            BY <1>3, <2>3 DEF Retries, Stays, Shape
        <3>2. StepsOf(eng'[e]) = StepsOf(eng[e])
            BY <3>1 DEF StepsOf
        <3>3. Replays(flow, eng[e], InitialContext(e), answered)' /\ Now(e)' = Now(e)
            BY <1>1, <1>3, <1>4, <3>1, <3>2, NoStepHistory DEF History
        <3>4. eng[e].ctx = Now(e)
            BY <1>3, <2>3 DEF History, Retries
        <3>5. eng'[e].ctx = Now(e)'
            BY <3>1, <3>3, <3>4
        <3> QED BY <3>3, <3>5 DEF History
    <2>4. CASE Passes(e)
        <3>1. PICK n : n = Config(eng[e].at).next
            OBVIOUS
        <3>2. /\ eng'[e].ctx = eng[e].ctx /\ eng'[e].outputs = eng[e].outputs
              /\ Halts(e) \/ Enters(e, n)
            BY <2>4, <3>1, PassesTo
        <3>3. PICK L : L = Len(eng[e].trace)
            OBVIOUS
        <3>4. /\ L \in Nat /\ eng'[e].trace \in Seq(Nodes) /\ Len(eng'[e].trace) \in {L, L + 1}
              /\ DOMAIN eng'[e].trace = 1..Len(eng'[e].trace) /\ DOMAIN eng[e].trace = 1..L
              /\ \A i \in 1..L : eng'[e].trace[i] = eng[e].trace[i]
              /\ Len(eng'[e].trace) = L + 1 => eng'[e].trace[L + 1] = n /\ n \notin eng[e].visited
            BY <1>3, <3>2, <3>3, PathGrows
        <3>5. /\ eng[e].trace # << >> /\ eng[e].at = eng[e].trace[L] /\ Config(eng[e].at).kind = "GATE"
              /\ DOMAIN eng[e].outputs \subseteq eng[e].visited
              /\ \A i \in 1..L : eng[e].trace[i] \in DOMAIN eng[e].outputs => Kind(e, i) \notin {"GATE", "END"}
            BY <1>3, <2>4, <3>3, <3>4 DEF Shape, Passes
        <3>6. L \notin StepsOf(eng[e])
            BY <3>4, <3>5 DEF StepsOf, Kind
        <3>7. StepsOf(eng'[e]) = StepsOf(eng[e])
            <4>1. \A i \in 1..L : i \in StepsOf(eng'[e]) <=> i \in StepsOf(eng[e])
                BY <3>2, <3>4 DEF StepsOf
            <4>2. \A i \in StepsOf(eng'[e]) : i \in 1..L
                <5> SUFFICES ASSUME NEW i \in StepsOf(eng'[e]) PROVE i \in 1..L
                    OBVIOUS
                <5>1. i \in 1..Len(eng'[e].trace) /\ eng'[e].trace[i] \in eng[e].visited
                    BY <3>2, <3>4, <3>5 DEF StepsOf
                <5>2. i \in 1..L \/ (i = L + 1 /\ Len(eng'[e].trace) = L + 1)
                    BY <3>4, <5>1
                <5> QED BY <3>4, <5>1, <5>2
            <4>3. \A i \in StepsOf(eng[e]) : i \in 1..L
                BY <3>4 DEF StepsOf
            <4> QED BY <4>1, <4>2, <4>3
        <3>8. \A k \in StepsOf(eng[e]) :
                 /\ eng'[e].trace[k] = eng[e].trace[k]
                 /\ k < Len(eng[e].trace) /\ eng'[e].trace[k + 1] = eng[e].trace[k + 1]
            <4> SUFFICES ASSUME NEW k \in StepsOf(eng[e])
                         PROVE  /\ eng'[e].trace[k] = eng[e].trace[k]
                                /\ k < Len(eng[e].trace) /\ eng'[e].trace[k + 1] = eng[e].trace[k + 1]
                OBVIOUS
            <4>1. k \in 1..L /\ k # L
                BY <3>4, <3>6 DEF StepsOf
            <4>2. k < L /\ k + 1 \in 1..L
                BY <3>4, <4>1
            <4> QED BY <3>3, <3>4, <4>1, <4>2
        <3>9. Replays(flow, eng[e], InitialContext(e), answered)' /\ Now(e)' = Now(e)
            BY <1>1, <1>3, <1>4, <3>2, <3>4, <3>7, <3>8, NoStepHistory DEF History
        <3>10. eng[e].ctx = Now(e)
            BY <1>3, <2>4 DEF History, Passes
        <3>11. eng'[e].ctx = Now(e)'
            BY <3>2, <3>9, <3>10
        <3> QED BY <3>9, <3>11 DEF History
    <2>5. CASE Closes(e)
        <3>1. PICK v \in {"REJECT", "ESCALATE"} : eng'[e] = [eng[e] EXCEPT !.phase = "ended", !.ctx.decision = v]
            BY <2>5 DEF Closes
        <3>2. DOMAIN eng[e] = EngineFields /\ DOMAIN eng[e].ctx = Scalars
            BY <1>3 DEF Shape
        <3>3. /\ eng'[e].at = eng[e].at /\ eng'[e].outputs = eng[e].outputs
              /\ eng'[e].trace = eng[e].trace /\ eng'[e].phase = "ended"
              /\ eng'[e].ctx = [eng[e].ctx EXCEPT !.decision = v]
            BY <3>1, <3>2 DEF EngineFields, Scalars
        <3>4. eng[e].trace \in Seq(Nodes) /\ e = "workflow" /\ Config(eng[e].at).kind = "GATE"
            BY <1>3, <2>5 DEF Shape, Closes
        <3>5. StepsOf(eng'[e]) = StepsOf(eng[e])
            BY <3>3 DEF StepsOf
        <3>6. Replays(flow, eng[e], InitialContext(e), answered)' /\ Now(e)' = Now(e)
            BY <1>1, <1>3, <1>4, <3>3, <3>4, <3>5, NoStepHistory DEF History
        <3>7. eng[e].ctx = Now(e)
            BY <1>3, <2>5 DEF History, Closes
        <3>8. Config(eng[e].at)'.kind = "GATE"
            BY <1>1, <3>3, <3>4 DEF Config
        <3>9. eng'[e].ctx = [Now(e)' EXCEPT !.decision = v]
            BY <3>3, <3>6, <3>7
        <3>10. (\E v_1 \in {"REJECT", "ESCALATE"} : eng[e].ctx = [Now(e) EXCEPT !.decision = v_1])'
            BY <3>1, <3>9
        <3> QED BY <3>3, <3>4, <3>6, <3>8, <3>10 DEF History
    <2> QED BY <1>2, <2>1, <2>2, <2>3, <2>4, <2>5
<1> QED BY <1>6, <1>7

-----------------------------------------------------------------------------
(* The invariant of the engines.                                             *)

\* While they run, the two engines stand where their paths, the outputs on it and
\* the answers put them.
LEMMA EnginesInvInitially == InitEngines => EnginesInv
<1> SUFFICES ASSUME InitEngines PROVE EnginesInv
    OBVIOUS
<1>1. FlowOK
    BY PublishedIsFlow DEF InitEngines
<1>2. DOMAIN eng = Engines /\ \A e \in Engines : eng[e] = Idle(e)
    BY DEF InitEngines
<1>3. \A e : /\ DOMAIN Idle(e) = EngineFields /\ Idle(e).phase = "idle" /\ Idle(e).at = flow.entry
             /\ Idle(e).ctx = InitialContext(e) /\ Idle(e).outputs = << >> /\ Idle(e).visited = {}
             /\ Idle(e).trace = << >>
    BY DEF Idle, EngineFields
<1>4. Answered
    BY <1>2, <1>3 DEF Answered, InitEngines, Engines
<1>5. \A e \in Engines : Shape(e)
    <2> SUFFICES ASSUME NEW e \in Engines PROVE Shape(e)
        OBVIOUS
    <2>1. DOMAIN InitialContext(e) = Scalars
        BY DEF InitialContext, WorkflowContext, InProcessContext, Scalars
    <2>2. flow.entry \in Nodes
        BY <1>1 DEF FlowOK, Flow
    <2> QED BY <1>2, <1>3, <2>1, <2>2 DEF Shape
<1>6. \A e \in Engines : History(e)
    <2> SUFFICES ASSUME NEW e \in Engines PROVE History(e)
        OBVIOUS
    <2>1. StepsOf(eng[e]) = {}
        BY <1>2, <1>3 DEF StepsOf
    <2>2. /\ Before(AnalysedOf(flow, eng[e]), Len(eng[e].trace) + 1) = {}
          /\ Before(DecidedOf(flow, eng[e]), Len(eng[e].trace) + 1) = {}
        BY <2>1 DEF Before, AnalysedOf, DecidedOf
    <2>3. InitialContext(e) = [risk |-> InitialContext(e).risk, confidence |-> InitialContext(e).confidence,
                               decision |-> InitialContext(e).decision]
        BY DEF InitialContext, WorkflowContext, InProcessContext
    <2>4. Now(e) = InitialContext(e)
        BY <2>2, <2>3 DEF Now, ContextOf, RiskOf, ConfidenceOf, DecisionOf
    <2>5. Replays(flow, eng[e], InitialContext(e), answered)
        BY <2>1 DEF Replays
    <2> QED BY <1>2, <1>3, <2>4, <2>5 DEF History
<1> QED BY <1>1, <1>4, <1>5, <1>6 DEF EnginesInv

\* The invariant is inductive.
LEMMA EnginesInvKept == EnginesInv /\ [NextEngines]_engineVars => EnginesInv'
<1>1. ASSUME EnginesInv, NEW e \in Engines, EngineStep(e) PROVE EnginesInv'
    <2>1. flow' = flow
        BY <1>1, StepOfEngine
    <2>2. FlowOK'
        BY <1>1, <2>1 DEF EnginesInv, FlowOK, Config
    <2> QED BY <1>1, <2>2, AnsweredKept, ShapeKept, HistoryKept DEF EnginesInv
<1>2. ASSUME EnginesInv, UNCHANGED engineVars PROVE EnginesInv'
    <2>1. flow' = flow /\ eng' = eng /\ answered' = answered
        BY <1>2 DEF engineVars
    <2>2. FlowOK' /\ Answered'
        BY <1>2, <2>1 DEF EnginesInv, FlowOK, Answered, Config, Legitimate
    <2>3. \A e \in Engines : Shape(e)'
        BY <1>2, <2>1 DEF EnginesInv, Shape, Config, Kind, Idle
    <2>4. \A e \in Engines : History(e)'
        BY <1>2, <2>1 DEF EnginesInv, History, Now, Config
    <2> QED BY <2>2, <2>3, <2>4 DEF EnginesInv
<1> QED BY <1>1, <1>2 DEF NextEngines

\* At every moment each engine stands where its path, the outputs along it and the
\* answers it was given put it: a run leaves nothing behind that these do not tell.
THEOREM EnginesInvariance == SpecEngines => []EnginesInv
<1>1. EnginesInv /\ [NextEngines]_engineVars => EnginesInv'
    BY EnginesInvKept
<1> QED BY EnginesInvInitially, <1>1, PTL DEF SpecEngines

-----------------------------------------------------------------------------
(* What follows of the decisions.                                            *)

\* What the invariant says of the run of an engine.
LEMMA RunOf ==
    ASSUME NEW e
    PROVE  /\ Steps(e) = StepsOf(eng[e])
           /\ Analysed(e) = AnalysedOf(flow, eng[e])
           /\ Decided(e) = DecidedOf(flow, eng[e])
           /\ \A i : /\ Kind(e, i) = KindOf(flow, eng[e], i)
                     /\ OutputAt(e, i) = OutOf(eng[e], i)
<1>1. Steps(e) = StepsOf(eng[e])
    BY DEF Steps, StepsOf
<1>2. \A i : Kind(e, i) = KindOf(flow, eng[e], i) /\ OutputAt(e, i) = OutOf(eng[e], i)
    BY DEF Kind, Config, KindOf, OutputAt, OutOf
<1>3. Analysed(e) = AnalysedOf(flow, eng[e])
    BY <1>1, <1>2 DEF Analysed, AnalysedOf, Obtains
<1>4. Decided(e) = DecidedOf(flow, eng[e])
    <2>1. \A i : i \in AnalysedOf(flow, eng[e]) <=> i \in StepsOf(eng[e]) /\ Obtains(flow, eng[e], i)
        BY DEF AnalysedOf
    <2>2. \A i : i \in Decided(e) <=>
             \/ i \in AnalysedOf(flow, eng[e]) /\ OutOf(eng[e], i).recommendation # "APPROVE"
             \/ i \in StepsOf(eng[e]) /\ KindOf(flow, eng[e], i) = "SCORE"
             \/ i \in StepsOf(eng[e]) /\ OutOf(eng[e], i) = [hardBlock |-> TRUE]
        BY <1>1, <1>2, <1>3 DEF Decided
    <2>3. \A i : i \in DecidedOf(flow, eng[e]) <=>
             \/ i \in StepsOf(eng[e]) /\ Obtains(flow, eng[e], i) /\ OutOf(eng[e], i).recommendation # "APPROVE"
             \/ i \in StepsOf(eng[e]) /\ KindOf(flow, eng[e], i) = "SCORE"
             \/ i \in StepsOf(eng[e]) /\ OutOf(eng[e], i) = [hardBlock |-> TRUE]
        BY DEF DecidedOf, Decides
    <2>4. \A i : i \in Decided(e) <=> i \in DecidedOf(flow, eng[e])
        BY <2>1, <2>2, <2>3
    <2> QED BY <2>4 DEF Decided, DecidedOf
<1> QED BY <1>1, <1>2, <1>3, <1>4

\* What a step left: an answer, or the score of the risk before it.
LEMMA StepTells ==
    ASSUME EnginesInv, NEW e \in Engines, NEW s, s = eng[e], NEW i \in StepsOf(s)
    PROVE  /\ s.trace \in Seq(Nodes) /\ s.trace[i] \in Nodes
           /\ Legitimate(s.trace[i], answered[s.trace[i]])
           /\ Fits(KindOf(flow, s, i), OutOf(s, i))
           /\ KindOf(flow, s, i) = "SCORE" =>
                 OutOf(s, i).decision = Score(Config(s.trace[i]), ContextOf(flow, s, InitialContext(e), i))
           /\ KindOf(flow, s, i) \notin {"SCORE", "CONDITION"} => OutOf(s, i) = answered[s.trace[i]]
           /\ KindOf(flow, s, i) = "CONDITION" => OutOf(s, i) # [hardBlock |-> TRUE]
<1> DEFINE n == s.trace[i]
           ctx == ContextOf(flow, s, InitialContext(e), i)
           outputs == OutputsOf(s, i)
<1>1. FlowOK /\ Answered /\ Shape(e) /\ Replays(flow, s, InitialContext(e), answered)
    BY DEF EnginesInv, History
<1>2. s.trace \in Seq(Nodes)
    BY <1>1 DEF Shape
<1>3. i \in DOMAIN s.trace /\ n \in DOMAIN s.outputs
    BY DEF StepsOf
<1>4. n \in Nodes
    BY <1>2, <1>3
<1>5. Legitimate(n, answered[n])
    BY <1>1, <1>3, <1>4 DEF Answered
<1>6. OutOf(s, i) = Output(Config(n), ctx, outputs, answered[n])
    BY <1>1 DEF Replays, ResultOf, Result, Config
<1>7. KindOf(flow, s, i) = Config(n).kind
    BY DEF KindOf, Config
<1> HIDE DEF n, ctx, outputs
<1>8. /\ Fits(Config(n).kind, OutOf(s, i))
      /\ Config(n).kind \in {"AI", "RULE"} => OutOf(s, i) = answered[n]
      /\ Config(n).kind = "SCORE" => OutOf(s, i).decision = Score(Config(n), ctx)
      /\ Config(n).kind \notin {"AI", "RULE", "SCORE", "CONDITION"} => OutOf(s, i) = answered[n]
      /\ Config(n).kind = "CONDITION" => OutOf(s, i) # [hardBlock |-> TRUE]
    BY <1>1, <1>4, <1>5, <1>6, OutputFits
<1>9. /\ Fits(KindOf(flow, s, i), OutOf(s, i))
      /\ KindOf(flow, s, i) = "SCORE" => OutOf(s, i).decision = Score(Config(n), ctx)
      /\ KindOf(flow, s, i) \notin {"SCORE", "CONDITION"} => OutOf(s, i) = answered[n]
      /\ KindOf(flow, s, i) = "CONDITION" => OutOf(s, i) # [hardBlock |-> TRUE]
    BY <1>7, <1>8
<1> QED BY <1>2, <1>4, <1>5, <1>9 DEF n, ctx

\* What the last analysis of a run left in its context.
LEMMA AnalysisTells ==
    ASSUME NEW f, NEW s, NEW i, Obtains(f, s, i), Fits(KindOf(f, s, i), OutOf(s, i))
    PROVE  /\ OutOf(s, i).risk \in Percent /\ OutOf(s, i).confidence \in Percent
           /\ OutOf(s, i).recommendation \in Recommendations /\ OutOf(s, i) # [hardBlock |-> TRUE]
           /\ Decides(f, s, i) <=> OutOf(s, i).recommendation # "APPROVE"
           /\ OutOf(s, i).recommendation = Verdict(f, s, i)
<1>1. KindOf(f, s, i) = "AI" /\ "risk" \in DOMAIN OutOf(s, i)
    BY DEF Obtains
<1>2. OutOf(s, i) # Failure
    <2> SUFFICES ASSUME OutOf(s, i) = Failure PROVE FALSE
        OBVIOUS
    <2>1. DOMAIN OutOf(s, i) = {"usedFallback"}
        BY HardBlockFields
    <2> QED BY <1>1, <2>1
<1>3. /\ DOMAIN OutOf(s, i) = {"risk", "confidence", "recommendation"}
      /\ OutOf(s, i).risk \in Percent /\ OutOf(s, i).confidence \in Percent
      /\ OutOf(s, i).recommendation \in Recommendations
    BY <1>1, <1>2 DEF Fits
<1>4. OutOf(s, i) # [hardBlock |-> TRUE]
    BY <1>3, HardBlockFields
<1> QED BY <1>1, <1>3, <1>4 DEF Decides, Verdict

\* What the last verdict of a run left in its context.
LEMMA VerdictTells ==
    ASSUME NEW f, NEW s, NEW i, Decides(f, s, i), Fits(KindOf(f, s, i), OutOf(s, i))
    PROVE  /\ Verdict(f, s, i) \in Recommendations
           /\ Verdict(f, s, i) = "APPROVE" =>
                 KindOf(f, s, i) = "SCORE" /\ OutOf(s, i).decision = "APPROVE"
<1>1. CASE KindOf(f, s, i) = "AI"
    <2>1. OutOf(s, i) # [hardBlock |-> TRUE]
        <3>1. CASE OutOf(s, i) = Failure
            BY <3>1, HardBlockFields
        <3>2. CASE DOMAIN OutOf(s, i) = {"risk", "confidence", "recommendation"}
            BY <3>2, HardBlockFields
        <3> QED BY <1>1, <3>1, <3>2 DEF Fits
    <2>2. Obtains(f, s, i)
        BY <1>1, <2>1 DEF Decides
    <2> QED BY <1>1, <2>2, AnalysisTells
<1>2. CASE KindOf(f, s, i) = "SCORE"
    BY <1>2 DEF Fits, Verdict
<1>3. CASE KindOf(f, s, i) \notin {"AI", "SCORE"}
    <2>1. Verdict(f, s, i) = "REJECT" BY <1>3 DEF Verdict
    <2> QED BY <2>1 DEF Recommendations
<1> QED BY <1>1, <1>2, <1>3

\* What the context knows: of the analyses A, and of the verdicts D.
KnowsAnalyses(s, c, A, ctx) ==
    IF A = {} THEN ctx.risk = c.risk /\ ctx.confidence = c.confidence
    ELSE /\ LastOf(A) \in A /\ \A j \in A : j <= LastOf(A)
         /\ ctx.risk = OutOf(s, LastOf(A)).risk /\ ctx.confidence = OutOf(s, LastOf(A)).confidence
         /\ ctx.risk \in Percent /\ ctx.confidence \in Percent
KnowsVerdicts(f, s, c, D, ctx) ==
    IF D = {} THEN ctx.decision = c.decision
    ELSE /\ LastOf(D) \in D /\ \A j \in D : j <= LastOf(D)
         /\ ctx.decision = Verdict(f, s, LastOf(D)) /\ ctx.decision \in Recommendations

\* The context of a run knows its last analysis and its last verdict.
LEMMA ContextTells ==
    ASSUME EnginesInv, NEW e \in Engines, NEW s, s = eng[e], NEW k,
           NEW A, A = Before(AnalysedOf(flow, s), k), NEW D, D = Before(DecidedOf(flow, s), k),
           NEW ctx, ctx = ContextOf(flow, s, InitialContext(e), k)
    PROVE  KnowsAnalyses(s, InitialContext(e), A, ctx) /\ KnowsVerdicts(flow, s, InitialContext(e), D, ctx)
<1>1. s.trace \in Seq(Nodes)
    BY DEF EnginesInv, Shape
<1>2. /\ Len(s.trace) \in Nat /\ StepsOf(s) \subseteq 1..Len(s.trace)
      /\ A \subseteq StepsOf(s) /\ D \subseteq StepsOf(s)
      /\ A \subseteq AnalysedOf(flow, s) /\ D \subseteq DecidedOf(flow, s)
    <2>1. Len(s.trace) \in Nat /\ StepsOf(s) \subseteq 1..Len(s.trace)
        BY <1>1, BeforeSteps
    <2> QED BY <2>1 DEF Before, AnalysedOf, DecidedOf
<1>3. /\ ctx.risk = RiskOf(s, InitialContext(e), A)
      /\ ctx.confidence = ConfidenceOf(s, InitialContext(e), A)
      /\ ctx.decision = DecisionOf(flow, s, InitialContext(e), D)
    BY DEF ContextOf
<1>4. ASSUME A # {}
      PROVE  /\ LastOf(A) \in A /\ \A j \in A : j <= LastOf(A)
             /\ ctx.risk = OutOf(s, LastOf(A)).risk /\ ctx.confidence = OutOf(s, LastOf(A)).confidence
             /\ ctx.risk \in Percent /\ ctx.confidence \in Percent
    <2>1. A \subseteq 1..Len(s.trace)
        BY <1>2
    <2>2. LastOf(A) \in A /\ \A j \in A : j <= LastOf(A)
        BY <1>2, <1>4, <2>1, LastIsLast
    <2>3. Obtains(flow, s, LastOf(A)) /\ Fits(KindOf(flow, s, LastOf(A)), OutOf(s, LastOf(A)))
        BY <1>2, <2>2, StepTells DEF AnalysedOf
    <2>4. OutOf(s, LastOf(A)).risk \in Percent /\ OutOf(s, LastOf(A)).confidence \in Percent
        BY <2>3, AnalysisTells
    <2> QED BY <1>3, <1>4, <2>2, <2>4 DEF RiskOf, ConfidenceOf
<1>5. ASSUME D # {}
      PROVE  /\ LastOf(D) \in D /\ \A j \in D : j <= LastOf(D)
             /\ ctx.decision = Verdict(flow, s, LastOf(D)) /\ ctx.decision \in Recommendations
    <2>1. D \subseteq 1..Len(s.trace)
        BY <1>2
    <2>2. LastOf(D) \in D /\ \A j \in D : j <= LastOf(D)
        BY <1>2, <1>5, <2>1, LastIsLast
    <2>3. Decides(flow, s, LastOf(D)) /\ Fits(KindOf(flow, s, LastOf(D)), OutOf(s, LastOf(D)))
        BY <1>2, <2>2, StepTells DEF DecidedOf
    <2>4. Verdict(flow, s, LastOf(D)) \in Recommendations
        BY <2>3, VerdictTells
    <2> QED BY <1>3, <1>5, <2>2, <2>4 DEF DecisionOf
<1> QED BY <1>3, <1>4, <1>5 DEF RiskOf, ConfidenceOf, DecisionOf, KnowsAnalyses, KnowsVerdicts

\* The context an engine ended with.
LEMMA EndOfRun ==
    ASSUME EnginesInv, NEW e \in Engines, NEW s, s = eng[e],
           NEW ctx, ctx = ContextOf(flow, s, InitialContext(e), Len(s.trace) + 1)
    PROVE  /\ Before(AnalysedOf(flow, s), Len(s.trace) + 1) = Analysed(e)
           /\ Before(DecidedOf(flow, s), Len(s.trace) + 1) = Decided(e)
           /\ \/ s.ctx = ctx
              \/ e = "workflow" /\ s.ctx.decision \in {"REJECT", "ESCALATE"} /\ Config(s.at).kind = "GATE"
<1>1. s.trace \in Seq(Nodes) /\ DOMAIN s.ctx = Scalars
    BY DEF EnginesInv, Shape
<1>2. Len(s.trace) \in Nat /\ \A i \in StepsOf(s) : i < Len(s.trace) + 1
    <2>1. Len(s.trace) \in Nat /\ StepsOf(s) \subseteq 1..Len(s.trace)
        BY <1>1, BeforeSteps
    <2> QED BY <2>1
<1>3. /\ Before(AnalysedOf(flow, s), Len(s.trace) + 1) = AnalysedOf(flow, s)
      /\ Before(DecidedOf(flow, s), Len(s.trace) + 1) = DecidedOf(flow, s)
    BY <1>2 DEF Before, AnalysedOf, DecidedOf
<1>4. \/ s.ctx = ctx
      \/ /\ e = "workflow" /\ Config(s.at).kind = "GATE"
         /\ \E d \in {"REJECT", "ESCALATE"} : s.ctx = [ctx EXCEPT !.decision = d]
    BY DEF EnginesInv, History, Now
<1>5. \A d : [ctx EXCEPT !.decision = d].decision = d
    BY DEF ContextOf
<1> QED BY <1>3, <1>4, <1>5, RunOf

\* An approval at the end of a run is read off its last verdict.
LEMMA EarnedFromHistory == EnginesInv => ApprovalIsEarned
<1> SUFFICES ASSUME EnginesInv, NEW e \in Engines, eng[e].phase = "ended", FinalDecision(e) = "APPROVE"
             PROVE  \/ /\ Decided(e) = {} /\ e = "inProcess" /\ Analysed(e) # {}
                       /\ OutputAt(e, LastOf(Analysed(e))).confidence >= 75
                    \/ /\ Decided(e) # {}
                       /\ LET i == LastOf(Decided(e))
                              earlier == Before(Analysed(e), i)
                          IN  /\ Kind(e, i) = "SCORE"
                              /\ earlier # {} =>
                                   OutputAt(e, LastOf(earlier)).risk <= Config(eng[e].trace[i]).approve
    BY DEF ApprovalIsEarned
<1>1. PICK s : s = eng[e]
    OBVIOUS
<1>2. PICK ctx : ctx = ContextOf(flow, s, InitialContext(e), Len(s.trace) + 1)
    OBVIOUS
<1>3. /\ Before(AnalysedOf(flow, s), Len(s.trace) + 1) = Analysed(e)
      /\ Before(DecidedOf(flow, s), Len(s.trace) + 1) = Decided(e)
      /\ \/ s.ctx = ctx
         \/ e = "workflow" /\ s.ctx.decision \in {"REJECT", "ESCALATE"}
    BY <1>1, <1>2, EndOfRun
<1>4. s.ctx = ctx
    BY <1>1, <1>3 DEF FinalDecision, Infers
<1>5. PICK A : A = Analysed(e)
    OBVIOUS
<1>6. PICK D : D = Decided(e)
    OBVIOUS
<1>7. KnowsAnalyses(s, InitialContext(e), A, ctx) /\ KnowsVerdicts(flow, s, InitialContext(e), D, ctx)
    BY <1>1, <1>2, <1>3, <1>5, <1>6, ContextTells
<1>8. /\ Undefined \notin Percent /\ Undefined # "APPROVE" /\ Undefined \notin Recommendations
      /\ Undefined # "MANUAL_REVIEW"
    BY UndefinedAssumption DEF Decisions, Recommendations
<1>9. CASE Infers(e)
    <2>1. e = "inProcess" /\ ctx.decision = Undefined /\ InferDecision(ctx) = "APPROVE"
        BY <1>1, <1>4, <1>9 DEF Infers, FinalDecision
    <2>2. Decided(e) = {}
        BY <1>6, <1>8, <1>7, <2>1 DEF KnowsVerdicts
    <2>3. Analysed(e) # {}
        <3> SUFFICES ASSUME Analysed(e) = {} PROVE FALSE
            OBVIOUS
        <3>1. ctx.risk = Undefined
            BY <1>5, <1>7, <2>1 DEF KnowsAnalyses, InitialContext, InProcessContext
        <3> QED BY <1>8, <2>1, <3>1 DEF InferDecision, Percent
    <2>4. ctx.confidence = OutOf(s, LastOf(Analysed(e))).confidence /\ ctx.confidence \in Percent
        BY <1>1, <1>5, <1>7, <2>3 DEF KnowsAnalyses
    <2>5. OrElse(ctx.confidence, 0) = ctx.confidence
        BY <1>8, <2>4 DEF OrElse
    <2>6. OrElse(ctx.confidence, 0) >= 75
        BY <2>1 DEF InferDecision
    <2> QED BY <1>1, <2>1, <2>2, <2>3, <2>4, <2>5, <2>6, RunOf
<1>10. CASE ~Infers(e)
    <2>1. ctx.decision = "APPROVE"
        BY <1>1, <1>4, <1>10 DEF FinalDecision
    <2>2. Decided(e) # {}
        BY <1>6, <1>8, <1>7, <2>1 DEF KnowsVerdicts, InitialContext, WorkflowContext, InProcessContext
    <2>3. PICK i : i = LastOf(Decided(e))
        OBVIOUS
    <2>4. i \in StepsOf(s) /\ Decides(flow, s, i) /\ Verdict(flow, s, i) = "APPROVE"
        BY <1>1, <1>6, <1>7, <2>1, <2>2, <2>3, RunOf DEF KnowsVerdicts, DecidedOf
    <2>5. /\ Fits(KindOf(flow, s, i), OutOf(s, i))
          /\ KindOf(flow, s, i) = "SCORE" =>
                OutOf(s, i).decision = Score(Config(s.trace[i]), ContextOf(flow, s, InitialContext(e), i))
        BY <1>1, <2>4, StepTells
    <2>6. KindOf(flow, s, i) = "SCORE" /\ OutOf(s, i).decision = "APPROVE"
        BY <2>4, <2>5, VerdictTells
    <2>7. PICK earlier : earlier = Before(Analysed(e), i)
        OBVIOUS
    <2>8. PICK c : c = ContextOf(flow, s, InitialContext(e), i)
        OBVIOUS
    <2>9. earlier # {} => c.risk = OutOf(s, LastOf(earlier)).risk /\ c.risk \in Percent
        <3>1. earlier = Before(AnalysedOf(flow, s), i) /\ s = eng[e]
            BY <1>1, <2>7, RunOf
        <3>2. PICK d : d = Before(DecidedOf(flow, s), i)
            OBVIOUS
        <3>3. KnowsAnalyses(s, InitialContext(e), earlier, c)
            BY <2>8, <3>1, <3>2, ContextTells
        <3> QED BY <3>3 DEF KnowsAnalyses
    <2>10. Score(Config(s.trace[i]), c) = "APPROVE"
        BY <2>5, <2>6, <2>8
    <2>11. OrElse(c.risk, 0) <= Config(s.trace[i]).approve
        BY <2>10 DEF Score
    <2>12. earlier # {} => OutOf(s, LastOf(earlier)).risk <= Config(s.trace[i]).approve
        BY <1>8, <2>9, <2>11 DEF OrElse
    <2>13. Kind(e, i) = "SCORE" /\ OutputAt(e, LastOf(earlier)) = OutOf(s, LastOf(earlier))
        BY <1>1, <2>6, RunOf
    <2> QED BY <1>1, <2>2, <2>3, <2>7, <2>12, <2>13
<1> QED BY <1>9, <1>10

\* Of no flow, under no answers, however often they are retried, timed out or lost, does
\* either engine end approved but by a SCORE node after everything that decided, on a risk
\* within its bound, or by the inference of GraphEngine from a confident analysis.
THEOREM ApprovalsAreEarned == SpecEngines => []ApprovalIsEarned
BY EnginesInvariance, EarnedFromHistory, PTL

\* The score of an outage is no approval, and nothing else approves after one.
LEMMA OutageFromHistory == EnginesInv => OutageIsNotApproved
<1> SUFFICES ASSUME EnginesInv, Discerning, NEW e \in Engines, eng[e].phase = "ended", Analysed(e) # {},
                    OutputAt(e, LastOf(Analysed(e))) = EscalateFallback, FinalDecision(e) = "APPROVE"
             PROVE  FALSE
    BY DEF OutageIsNotApproved
<1>1. PICK s : s = eng[e]
    OBVIOUS
<1>2. /\ s.trace \in Seq(Nodes) /\ Len(s.trace) \in Nat /\ StepsOf(s) \subseteq 1..Len(s.trace)
      /\ Analysed(e) = AnalysedOf(flow, s) /\ Decided(e) = DecidedOf(flow, s)
      /\ \A i : KindOf(flow, s, i) = Kind(e, i) /\ OutOf(s, i) = OutputAt(e, i)
    <2>1. s.trace \in Seq(Nodes)
        BY <1>1 DEF EnginesInv, Shape
    <2> QED BY <1>1, <2>1, BeforeSteps, RunOf
<1>3. Analysed(e) \subseteq 1..Len(s.trace) /\ Decided(e) \subseteq 1..Len(s.trace)
    BY <1>2 DEF AnalysedOf, DecidedOf
<1>4. PICK a : a = LastOf(Analysed(e))
    OBVIOUS
<1>5. a \in Analysed(e) /\ \A j \in Analysed(e) : j <= a
    BY <1>2, <1>3, <1>4, LastIsLast
<1>6. OutOf(s, a).risk = 100 /\ OutOf(s, a).recommendation = "MANUAL_REVIEW"
    BY <1>2, <1>4 DEF EscalateFallback
<1>7. a \in Decided(e)
    <2>1. a \in StepsOf(s) /\ Obtains(flow, s, a)
        BY <1>2, <1>5 DEF AnalysedOf
    <2>2. Decides(flow, s, a)
        BY <1>6, <2>1 DEF Decides
    <2> QED BY <1>2, <2>1, <2>2 DEF DecidedOf
<1>8. PICK i : i = LastOf(Decided(e))
    OBVIOUS
<1>9. i \in Decided(e) /\ a <= i
    <2>1. LastOf(Decided(e)) \in Decided(e) /\ \A j \in Decided(e) : j <= LastOf(Decided(e))
        BY <1>2, <1>3, <1>7, LastIsLast
    <2> QED BY <1>7, <1>8, <2>1
<1>10. PICK earlier : earlier = Before(Analysed(e), i)
    OBVIOUS
<1>11. /\ Kind(e, i) = "SCORE"
       /\ earlier # {} => OutputAt(e, LastOf(earlier)).risk <= Config(s.trace[i]).approve
    <2>1. ApprovalIsEarned
        BY EarnedFromHistory
    <2> QED BY <1>1, <1>7, <1>8, <1>10, <2>1 DEF ApprovalIsEarned
<1>12. Kind(e, a) = "AI"
    BY <1>2, <1>5 DEF AnalysedOf, Obtains
<1>13. a \in earlier
    <2>1. a # i /\ a \in Nat /\ i \in Nat
        BY <1>3, <1>5, <1>9, <1>11, <1>12
    <2> QED BY <1>5, <1>9, <1>10, <2>1 DEF Before
<1>14. LastOf(earlier) = a
    <2>1. earlier \subseteq 1..Len(s.trace) /\ earlier # {} /\ earlier \subseteq Analysed(e)
        BY <1>3, <1>10, <1>13 DEF Before
    <2>2. LastOf(earlier) \in earlier /\ \A j \in earlier : j <= LastOf(earlier)
        BY <1>2, <2>1, LastIsLast
    <2>3. PICK l : l = LastOf(earlier)
        OBVIOUS
    <2>4. l \in earlier /\ a <= l
        BY <1>13, <2>2, <2>3
    <2>5. l \in Nat /\ a \in Nat
        BY <1>3, <1>5, <2>1, <2>4
    <2>6. l <= a
        BY <1>5, <2>1, <2>4
    <2> QED BY <2>3, <2>4, <2>5, <2>6
<1>15. s.trace[i] \in Nodes /\ Config(s.trace[i]).kind = "SCORE"
    <2>1. i \in StepsOf(s)
        BY <1>2, <1>9 DEF DecidedOf
    <2>2. s.trace[i] \in Nodes
        BY <1>1, <2>1, StepTells
    <2> QED BY <1>1, <1>11, <2>2 DEF Kind
<1>16. 100 <= Config(s.trace[i]).approve /\ Config(s.trace[i]).approve < 100
    BY <1>2, <1>6, <1>11, <1>13, <1>14, <1>15 DEF Discerning
<1>17. Config(s.trace[i]).approve \in Nat
    <2>1. Config(s.trace[i]) \in NodeConfig
        BY <1>15 DEF EnginesInv, FlowOK, Flow, Config
    <2>2. Config(s.trace[i]).approve \in Percent
        BY <2>1 DEF NodeConfig
    <2> QED BY <2>2 DEF Percent
<1> QED BY <1>16, <1>17

\* An application whose last analysis is the answer that stands for a failed AI service is
\* approved by neither engine, of no flow that scores with a bound below the risk of an outage.
THEOREM OutagesAreNotApproved == SpecEngines => []OutageIsNotApproved
BY EnginesInvariance, OutageFromHistory, PTL

\* Without edges the path ends at START.
LEMMA CreatedFromHistory == EnginesInv => CreatedFlowsDecideNothing
<1> SUFFICES ASSUME EnginesInv, NEW e \in Engines, flow \notin Graphs, eng[e].phase \in Resting
             PROVE  eng[e].visited = {flow.entry} /\ FinalDecision(e) = "MANUAL_REVIEW"
    BY DEF CreatedFlowsDecideNothing
<1>1. PICK s : s = eng[e]
    OBVIOUS
<1>2. /\ FlowOK /\ Shape(e) /\ Replays(flow, s, InitialContext(e), answered)
      /\ flow.entry \in Nodes /\ Config(flow.entry).kind = "START"
    BY <1>1 DEF EnginesInv, History, FlowOK, Flow
<1>3. /\ s.trace \in Seq(Nodes) /\ s.trace # << >> /\ s.trace[1] = flow.entry
      /\ s.at = s.trace[Len(s.trace)]
      /\ s.visited = {s.trace[i] : i \in DOMAIN s.trace}
      /\ s.phase \in Resting
    BY <1>1, <1>2 DEF Shape, Resting
<1>4. Len(s.trace) \in Nat \ {0} /\ DOMAIN s.trace = 1..Len(s.trace) /\ 1 \in DOMAIN s.trace
    BY <1>3
<1>5. KindOf(flow, s, 1) = "START"
    BY <1>2, <1>3 DEF KindOf, Config
<1>6. Len(s.trace) = 1
    <2> SUFFICES ASSUME Len(s.trace) # 1 PROVE FALSE
        OBVIOUS
    <2>1. 1 \in StepsOf(s)
        <3>1. Kind(e, 1) = "START"
            BY <1>1, <1>5, RunOf
        <3>2. s.trace[1] \in DOMAIN s.outputs
            BY <1>1, <1>2, <1>4, <3>1 DEF Shape
        <3> QED BY <1>4, <3>2 DEF StepsOf
    <2>2. Legitimate(flow.entry, answered[flow.entry])
        <3>1. PICK i : i = 1
            OBVIOUS
        <3>2. i \in StepsOf(s)
            BY <2>1, <3>1
        <3>3. Legitimate(s.trace[i], answered[s.trace[i]])
            BY <1>1, <3>2, StepTells
        <3> QED BY <1>3, <3>1, <3>3
    <2>3. answered[flow.entry] # Failure
        BY <1>2, <2>2 DEF Legitimate, Answers, Remote, Done, Failure
    <2>4. PICK r : r = ResultOf(flow, s, InitialContext(e), answered, 1)
        OBVIOUS
    <2>5. s.trace[2] = r.next /\ s.trace[2] \in Nodes
        <3>1. 1 < Len(s.trace) /\ 2 \in DOMAIN s.trace
            <4>1. PICK L : L = Len(s.trace)
                OBVIOUS
            <4>2. L \in Nat /\ L # 0 /\ L # 1 /\ DOMAIN s.trace = 1..L
                BY <1>4, <4>1
            <4>3. 1 < L /\ 2 \in 1..L
                BY <4>2
            <4> QED BY <4>1, <4>2, <4>3
        <3>2. s.trace[1 + 1] = r.next
            BY <1>2, <2>1, <2>4, <3>1 DEF Replays
        <3> QED BY <1>3, <3>1, <3>2
    <2>6. \E c, o : r.next = FirstBranch(Config(flow.entry), c, o)
        BY <1>2, <1>3, <2>3, <2>4 DEF ResultOf, Result, ResolveNext, Config
    <2>7. PICK c, o : r.next = FirstBranch(Config(flow.entry), c, o)
        BY <2>6
    <2>8. Config(flow.entry).branches \in Seq([when : Expressions, to : Targets])
        BY <1>2 DEF FlowOK, Flow, NodeConfig, Config
    <2>9. /\ Config(flow.entry).next = NoNode
          /\ \A i \in DOMAIN Config(flow.entry).branches : Config(flow.entry).branches[i].to = NoNode
        BY <1>2 DEF FlowOK
    <2>10. PICK node : node = Config(flow.entry)
        OBVIOUS
    <2>11. FirstBranch(node, c, o) = NoNode
        BY <2>8, <2>9, <2>10, FirstBranchIsEdge
    <2> QED BY <2>5, <2>7, <2>10, <2>11, NodesAssumption
<1>7. eng[e].visited = {flow.entry}
    <2>1. DOMAIN s.trace = {1}
        BY <1>4, <1>6
    <2> QED BY <1>1, <1>3, <2>1
<1>8. \A i \in StepsOf(s) : ~Obtains(flow, s, i) /\ ~Decides(flow, s, i)
    <2> SUFFICES ASSUME NEW i \in StepsOf(s) PROVE ~Obtains(flow, s, i) /\ ~Decides(flow, s, i)
        OBVIOUS
    <2>1. i = 1
        BY <1>4, <1>6 DEF StepsOf
    <2>2. OutOf(s, i) = answered[flow.entry] /\ Legitimate(flow.entry, answered[flow.entry])
        BY <1>1, <1>3, <1>5, <2>1, StepTells
    <2>3. answered[flow.entry] = Done
        BY <1>2, <2>2 DEF Legitimate, Answers, Remote
    <2>4. OutOf(s, i) # [hardBlock |-> TRUE]
        BY <2>2, <2>3 DEF Done
    <2> QED BY <1>5, <2>1, <2>4 DEF Obtains, Decides
<1>9. Analysed(e) = {} /\ Decided(e) = {}
    BY <1>1, <1>8, RunOf DEF AnalysedOf, DecidedOf
<1>10. PICK ctx : ctx = ContextOf(flow, s, InitialContext(e), Len(s.trace) + 1)
    OBVIOUS
<1>11. s.ctx = ctx
    <2>1. s.at = flow.entry /\ Config(s.at).kind # "GATE"
        BY <1>2, <1>3, <1>6
    <2> QED BY <1>1, <1>10, <2>1, EndOfRun
<1>12. ctx.risk = InitialContext(e).risk /\ ctx.decision = InitialContext(e).decision
    <2>1. /\ {} = Before(AnalysedOf(flow, s), Len(s.trace) + 1)
          /\ {} = Before(DecidedOf(flow, s), Len(s.trace) + 1)
        BY <1>1, <1>9, <1>10, EndOfRun
    <2>2. PICK none : none = {}
        OBVIOUS
    <2>3. KnowsAnalyses(s, InitialContext(e), none, ctx) /\ KnowsVerdicts(flow, s, InitialContext(e), none, ctx)
        BY <1>1, <1>10, <2>1, <2>2, ContextTells
    <2> QED BY <2>2, <2>3 DEF KnowsAnalyses, KnowsVerdicts
<1>13. FinalDecision(e) = "MANUAL_REVIEW"
    <2>1. CASE e = "workflow"
        BY <1>1, <1>11, <1>12, <2>1 DEF FinalDecision, Infers, InitialContext, WorkflowContext
    <2>2. CASE e = "inProcess"
        <3>1. Infers(e) /\ eng[e].ctx.risk = Undefined
            BY <1>1, <1>11, <1>12, <2>2 DEF Infers, InitialContext, InProcessContext
        <3>2. InferDecision(eng[e].ctx) = "MANUAL_REVIEW"
            BY <3>1, UndefinedAssumption DEF InferDecision, Percent
        <3> QED BY <3>1, <3>2 DEF FinalDecision
    <2> QED BY <2>1, <2>2 DEF Engines
<1> QED BY <1>7, <1>13

\* A flow that went through createFlow makes either engine end behind START with a referral,
\* whatever its author drew: for every draft, not only those of a run.
THEOREM CreatedFlowsAreInert == SpecEngines => []CreatedFlowsDecideNothing
BY EnginesInvariance, CreatedFromHistory, PTL

-----------------------------------------------------------------------------
(* The two engines side by side: s is where the workflow stands, t GraphEngine. *)

SamePath(s, i, t, j) ==
    /\ Before(StepsOf(t), j) = Before(StepsOf(s), i)
    /\ \A k \in Before(StepsOf(s), i) : t.trace[k] = s.trace[k]

\* Two runs that share a path had the same answers on it.
LEMMA SameAnswers ==
    ASSUME EnginesInv, NEW s, s = eng["workflow"], NEW t, t = eng["inProcess"],
           NEW i \in Nat, NEW j \in Nat, SamePath(s, i, t, j), NEW k \in Before(StepsOf(s), i)
    PROVE  /\ k \in StepsOf(s) /\ k \in StepsOf(t) /\ k \in Nat /\ SamePath(s, k, t, k)
           /\ KindOf(flow, t, k) = KindOf(flow, s, k)
           /\ KindOf(flow, s, k) \notin {"SCORE", "CONDITION"} => OutOf(t, k) = OutOf(s, k)
           /\ KindOf(flow, s, k) = "CONDITION" =>
                 OutOf(s, k) # [hardBlock |-> TRUE] /\ OutOf(t, k) # [hardBlock |-> TRUE]
           /\ Fits(KindOf(flow, s, k), OutOf(s, k)) /\ Fits(KindOf(flow, s, k), OutOf(t, k))
           /\ Obtains(flow, t, k) <=> Obtains(flow, s, k)
<1>1. k \in StepsOf(s) /\ k \in StepsOf(t) /\ t.trace[k] = s.trace[k] /\ k < i /\ k < j
    BY DEF SamePath, Before
<1>2. "workflow" \in Engines /\ "inProcess" \in Engines
    BY DEF Engines
<1>3. /\ s.trace \in Seq(Nodes) /\ Fits(KindOf(flow, s, k), OutOf(s, k))
      /\ KindOf(flow, s, k) \notin {"SCORE", "CONDITION"} => OutOf(s, k) = answered[s.trace[k]]
      /\ KindOf(flow, s, k) = "CONDITION" => OutOf(s, k) # [hardBlock |-> TRUE]
    BY <1>1, <1>2, StepTells
<1>4. /\ t.trace \in Seq(Nodes) /\ Fits(KindOf(flow, t, k), OutOf(t, k))
      /\ KindOf(flow, t, k) \notin {"SCORE", "CONDITION"} => OutOf(t, k) = answered[t.trace[k]]
      /\ KindOf(flow, t, k) = "CONDITION" => OutOf(t, k) # [hardBlock |-> TRUE]
    <2>1. PICK d \in Engines : t = eng[d] BY <1>2
    <2>2. t.trace \in Seq(Nodes) BY <1>1, <2>1, StepTells
    <2>3. Fits(KindOf(flow, t, k), OutOf(t, k)) BY <1>1, <2>1, StepTells
    <2>4. KindOf(flow, t, k) \notin {"SCORE", "CONDITION"} => OutOf(t, k) = answered[t.trace[k]]
        BY <1>1, <2>1, StepTells
    <2>5. KindOf(flow, t, k) = "CONDITION" => OutOf(t, k) # [hardBlock |-> TRUE]
        BY <1>1, <2>1, StepTells
    <2> QED BY <2>2, <2>3, <2>4, <2>5
<1>5. KindOf(flow, t, k) = KindOf(flow, s, k)
    BY <1>1 DEF KindOf
<1>6. KindOf(flow, s, k) \notin {"SCORE", "CONDITION"} => OutOf(t, k) = OutOf(s, k)
    BY <1>1, <1>3, <1>4, <1>5
<1>7. Obtains(flow, t, k) <=> Obtains(flow, s, k)
    BY <1>5, <1>6 DEF Obtains
<1>8. (\A x \in StepsOf(s) : x \in Nat) /\ (\A x \in StepsOf(t) : x \in Nat)
    <2>1. /\ Len(s.trace) \in Nat /\ StepsOf(s) \subseteq 1..Len(s.trace)
          /\ Len(t.trace) \in Nat /\ StepsOf(t) \subseteq 1..Len(t.trace)
        BY <1>3, <1>4, BeforeSteps
    <2> QED BY <2>1
<1>9. SamePath(s, k, t, k)
    <2>1. \A x \in StepsOf(s) : x < k => x < i
        BY <1>1, <1>8
    <2>2. \A x \in StepsOf(t) : x < k => x < j
        BY <1>1, <1>8
    <2>3. \A x : x \in Before(StepsOf(s), k) => x \in Before(StepsOf(s), i) /\ x < k
        BY <2>1 DEF Before
    <2>4. \A x : x \in Before(StepsOf(t), k) => x \in Before(StepsOf(t), j) /\ x < k
        BY <2>2 DEF Before
    <2>5. \A x : x \in Before(StepsOf(s), k) <=> x \in Before(StepsOf(t), k)
        BY <2>3, <2>4 DEF SamePath, Before
    <2>6. Before(StepsOf(t), k) = Before(StepsOf(s), k)
        BY <2>5
    <2> QED BY <2>3, <2>6 DEF SamePath
<1> QED BY <1>1, <1>3, <1>4, <1>5, <1>6, <1>7, <1>8, <1>9

\* On the same path both have the same analyses, and the same risk to compare.
LEMMA SameAnalyses ==
    ASSUME EnginesInv, NEW s, s = eng["workflow"], NEW t, t = eng["inProcess"],
           NEW i \in Nat, NEW j \in Nat, SamePath(s, i, t, j),
           NEW c, c = ContextOf(flow, s, InitialContext("workflow"), i),
           NEW d, d = ContextOf(flow, t, InitialContext("inProcess"), j)
    PROVE  /\ Before(AnalysedOf(flow, t), j) = Before(AnalysedOf(flow, s), i)
           /\ OrElse(d.risk, 0) = OrElse(c.risk, 0)
           /\ Before(AnalysedOf(flow, s), i) # {} => d.confidence = c.confidence
<1>1. PICK A : A = Before(AnalysedOf(flow, s), i)
    OBVIOUS
<1>2. Before(AnalysedOf(flow, t), j) = A
    <2>1. \A k \in Before(StepsOf(s), i) : Obtains(flow, t, k) <=> Obtains(flow, s, k)
        BY SameAnswers
    <2>2. A = {k \in Before(StepsOf(s), i) : Obtains(flow, s, k)}
        BY <1>1 DEF Before, AnalysedOf
    <2>3. Before(AnalysedOf(flow, t), j) = {k \in Before(StepsOf(t), j) : Obtains(flow, t, k)}
        BY DEF Before, AnalysedOf
    <2> QED BY <2>1, <2>2, <2>3 DEF SamePath
<1>3. "workflow" \in Engines /\ "inProcess" \in Engines
    BY DEF Engines
<1>4. PICK D : D = Before(DecidedOf(flow, s), i)
    OBVIOUS
<1>5. PICK E : E = Before(DecidedOf(flow, t), j)
    OBVIOUS
<1>6. KnowsAnalyses(s, InitialContext("workflow"), A, c)
    BY <1>1, <1>3, <1>4, ContextTells
<1>7. KnowsAnalyses(t, InitialContext("inProcess"), A, d)
    BY <1>2, <1>3, <1>5, ContextTells
<1>8. CASE A = {}
    <2>1. c.risk = 0 /\ d.risk = Undefined
        BY <1>6, <1>7, <1>8 DEF KnowsAnalyses, InitialContext, WorkflowContext, InProcessContext
    <2> QED BY <1>1, <1>2, <1>8, <2>1 DEF OrElse
<1>9. CASE A # {}
    <2>1. LastOf(A) \in A
        BY <1>6, <1>9 DEF KnowsAnalyses
    <2>2. LastOf(A) \in Before(StepsOf(s), i) /\ Obtains(flow, s, LastOf(A))
        BY <1>1, <2>1 DEF Before, AnalysedOf
    <2>3. KindOf(flow, s, LastOf(A)) = "AI"
        BY <2>2 DEF Obtains
    <2>4. PICK l : l = LastOf(A)
        OBVIOUS
    <2>5. OutOf(t, l) = OutOf(s, l)
        BY <2>2, <2>3, <2>4, SameAnswers
    <2>6. c.risk = d.risk /\ c.confidence = d.confidence
        BY <1>6, <1>7, <1>9, <2>4, <2>5 DEF KnowsAnalyses
    <2> QED BY <1>1, <1>2, <2>6
<1> QED BY <1>8, <1>9

\* The same verdicts, too, and the same hard blocks.
LEMMA SameVerdicts ==
    ASSUME EnginesInv, NEW s, s = eng["workflow"], NEW t, t = eng["inProcess"],
           NEW i \in Nat, NEW j \in Nat, SamePath(s, i, t, j), NEW k \in Before(StepsOf(s), i)
    PROVE  /\ Decides(flow, t, k) <=> Decides(flow, s, k)
           /\ Verdict(flow, t, k) = Verdict(flow, s, k)
           /\ OutOf(t, k) = [hardBlock |-> TRUE] <=> OutOf(s, k) = [hardBlock |-> TRUE]
<1>1. /\ k \in StepsOf(s) /\ k \in StepsOf(t) /\ k \in Nat /\ SamePath(s, k, t, k)
      /\ KindOf(flow, t, k) = KindOf(flow, s, k)
      /\ KindOf(flow, s, k) \notin {"SCORE", "CONDITION"} => OutOf(t, k) = OutOf(s, k)
      /\ KindOf(flow, s, k) = "CONDITION" =>
            OutOf(s, k) # [hardBlock |-> TRUE] /\ OutOf(t, k) # [hardBlock |-> TRUE]
      /\ Fits(KindOf(flow, s, k), OutOf(s, k)) /\ Fits(KindOf(flow, s, k), OutOf(t, k))
      /\ Obtains(flow, t, k) <=> Obtains(flow, s, k)
    BY SameAnswers
<1>2. CASE KindOf(flow, s, k) = "SCORE"
    <2>1. PICK c : c = ContextOf(flow, s, InitialContext("workflow"), k)
        OBVIOUS
    <2>2. PICK d : d = ContextOf(flow, t, InitialContext("inProcess"), k)
        OBVIOUS
    <2>3. OrElse(d.risk, 0) = OrElse(c.risk, 0)
        BY <1>1, <2>1, <2>2, SameAnalyses
    <2>4. "workflow" \in Engines /\ "inProcess" \in Engines /\ t.trace[k] = s.trace[k]
        BY DEF Engines, SamePath
    <2>5. OutOf(s, k).decision = Score(Config(s.trace[k]), c)
        BY <1>1, <1>2, <2>1, <2>4, StepTells
    <2>6. OutOf(t, k).decision = Score(Config(s.trace[k]), d)
        BY <1>1, <1>2, <2>2, <2>4, StepTells
    <2>7. Score(Config(s.trace[k]), d) = Score(Config(s.trace[k]), c)
        BY <2>3 DEF Score
    <2>8. DOMAIN OutOf(s, k) = {"decision"} /\ DOMAIN OutOf(t, k) = {"decision"}
        BY <1>1, <1>2 DEF Fits
    <2>9. OutOf(s, k) # [hardBlock |-> TRUE] /\ OutOf(t, k) # [hardBlock |-> TRUE]
        BY <2>8, HardBlockFields
    <2> QED BY <1>1, <1>2, <2>5, <2>6, <2>7, <2>9 DEF Decides, Verdict
<1>3. CASE KindOf(flow, s, k) = "CONDITION"
    BY <1>1, <1>3 DEF Decides, Verdict, Obtains
<1>4. CASE KindOf(flow, s, k) \notin {"SCORE", "CONDITION"}
    <2>1. OutOf(t, k) = OutOf(s, k)
        BY <1>1, <1>4
    <2> QED BY <1>1, <2>1 DEF Decides, Verdict
<1> QED BY <1>2, <1>3, <1>4

\* After the first verdict the decision is the same for both.
LEMMA SameDecisions ==
    ASSUME EnginesInv, NEW s, s = eng["workflow"], NEW t, t = eng["inProcess"],
           NEW i \in Nat, NEW j \in Nat, SamePath(s, i, t, j),
           NEW c, c = ContextOf(flow, s, InitialContext("workflow"), i),
           NEW d, d = ContextOf(flow, t, InitialContext("inProcess"), j)
    PROVE  /\ Before(DecidedOf(flow, t), j) = Before(DecidedOf(flow, s), i)
           /\ IF Before(DecidedOf(flow, s), i) = {}
              THEN c.decision = "MANUAL_REVIEW" /\ d.decision = Undefined
              ELSE d.decision = c.decision /\ c.decision \in Recommendations
<1>1. PICK D : D = Before(DecidedOf(flow, s), i)
    OBVIOUS
<1>2. Before(DecidedOf(flow, t), j) = D
    <2>1. \A k \in Before(StepsOf(s), i) : Decides(flow, t, k) <=> Decides(flow, s, k)
        BY SameVerdicts
    <2>2. D = {k \in Before(StepsOf(s), i) : Decides(flow, s, k)}
        BY <1>1 DEF Before, DecidedOf
    <2>3. Before(DecidedOf(flow, t), j) = {k \in Before(StepsOf(t), j) : Decides(flow, t, k)}
        BY DEF Before, DecidedOf
    <2> QED BY <2>1, <2>2, <2>3 DEF SamePath
<1>3. "workflow" \in Engines /\ "inProcess" \in Engines
    BY DEF Engines
<1>4. PICK A : A = Before(AnalysedOf(flow, s), i)
    OBVIOUS
<1>5. PICK B : B = Before(AnalysedOf(flow, t), j)
    OBVIOUS
<1>6. KnowsVerdicts(flow, s, InitialContext("workflow"), D, c)
    BY <1>1, <1>3, <1>4, ContextTells
<1>7. KnowsVerdicts(flow, t, InitialContext("inProcess"), D, d)
    BY <1>2, <1>3, <1>5, ContextTells
<1>8. CASE D = {}
    BY <1>1, <1>2, <1>6, <1>7, <1>8 DEF KnowsVerdicts, InitialContext, WorkflowContext, InProcessContext
<1>9. CASE D # {}
    <2>1. PICK l : l = LastOf(D)
        OBVIOUS
    <2>2. l \in D
        BY <1>6, <1>9, <2>1 DEF KnowsVerdicts
    <2>3. l \in Before(StepsOf(s), i)
        BY <1>1, <2>2 DEF Before, DecidedOf
    <2>4. Verdict(flow, t, l) = Verdict(flow, s, l)
        BY <2>3, SameVerdicts
    <2>5. d.decision = c.decision /\ c.decision \in Recommendations
        BY <1>6, <1>7, <1>9, <2>1, <2>4 DEF KnowsVerdicts
    <2> QED BY <1>1, <1>2, <1>9, <2>5
<1> QED BY <1>8, <1>9

\* What a context must know for an expression to read the same from it.
ReadsAlike(expr, c, d) ==
    /\ expr.reads = "riskScore" => OrElse(c.risk, 0) = OrElse(d.risk, 0)
    /\ expr.reads = "confidence" => c.confidence = d.confidence
    /\ expr.reads = "finalDecision" => c.decision = d.decision

\* An expression that reads the same holds for both or for neither.
LEMMA SameHolds ==
    ASSUME NEW expr \in Expressions, NEW c, NEW d, ReadsAlike(expr, c, d), NEW o, NEW p
    PROVE  Holds(expr, c, o) = Holds(expr, d, p)
<1>1. expr.reads \in {"riskScore", "confidence", "finalDecision", "hardBlock"}
    BY DEF Expressions
<1>2. CASE expr.reads = "riskScore"
    <2>1. OrElse(c.risk, 0) = OrElse(d.risk, 0)
        BY <1>2 DEF ReadsAlike
    <2>2. /\ Holds(expr, c, o) = (OrElse(c.risk, 0) >= expr.bound)
          /\ Holds(expr, d, p) = (OrElse(d.risk, 0) >= expr.bound)
        BY <1>2 DEF Holds
    <2> QED BY <2>1, <2>2
<1>3. CASE expr.reads = "confidence"
    <2>1. c.confidence = d.confidence
        BY <1>3 DEF ReadsAlike
    <2>2. /\ Holds(expr, c, o) = (OrElse(c.confidence, 100) >= expr.bound)
          /\ Holds(expr, d, p) = (OrElse(d.confidence, 100) >= expr.bound)
        BY <1>3 DEF Holds
    <2> QED BY <2>1, <2>2
<1>4. CASE expr.reads = "finalDecision"
    <2>1. c.decision = d.decision
        BY <1>4 DEF ReadsAlike
    <2>2. /\ Holds(expr, c, o) = (c.decision = expr.equals)
          /\ Holds(expr, d, p) = (d.decision = expr.equals)
        BY <1>4 DEF Holds
    <2> QED BY <2>1, <2>2
<1>5. CASE expr.reads = "hardBlock"
    <2>1. Holds(expr, c, o) = FALSE /\ Holds(expr, d, p) = FALSE
        BY <1>5 DEF Holds
    <2> QED BY <2>1
<1> QED BY <1>1, <1>2, <1>3, <1>4, <1>5

\* A node whose expressions read the same leads the same way.
LEMMA SameRoute ==
    ASSUME FlowOK, NEW n \in Nodes, NEW answer, Legitimate(n, answer), NEW c, NEW d, NEW o, NEW p,
           OrElse(c.risk, 0) = OrElse(d.risk, 0),
           \A expr \in Routing(n) : ReadsAlike(expr, c, d)
    PROVE  Result(n, Config(n), c, o, answer).next = Result(n, Config(n), d, p, answer).next
<1> DEFINE node == Config(n)
           x == Output(node, c, o, answer)
           y == Output(node, d, p, answer)
           seenC == [m \in DOMAIN o \cup {n} |-> IF m = n THEN x ELSE o[m]]
           seenD == [m \in DOMAIN p \cup {n} |-> IF m = n THEN y ELSE p[m]]
<1>1. /\ node \in NodeConfig /\ node.expr \in Expressions
      /\ node.branches \in Seq([when : Expressions, to : Targets])
    BY DEF FlowOK, Flow, Config, NodeConfig
<1>2. /\ Result(n, node, c, o, answer).next =
            IF answer = Failure THEN node.fallback ELSE ResolveNext(n, node, c, o, x)
      /\ Result(n, node, d, p, answer).next =
            IF answer = Failure THEN node.fallback ELSE ResolveNext(n, node, d, p, y)
    BY DEF Result
<1>3. CASE answer = Failure
    BY <1>2, <1>3
<1>4. CASE answer # Failure /\ node.kind = "CONDITION"
    <2>1. node.expr \in Routing(n)
        BY <1>4 DEF Routing
    <2>2. ReadsAlike(node.expr, c, d)
        BY <2>1
    <2>3. Holds(node.expr, c, o) = Holds(node.expr, d, p)
        BY <1>1, <2>2, SameHolds
    <2> HIDE DEF node
    <2>4. x = y
        BY <1>4, <2>3 DEF Output
    <2> HIDE DEF x, y
    <2>5. ResolveNext(n, node, c, o, x) = ResolveNext(n, node, d, p, y)
        BY <1>4, <2>4 DEF ResolveNext
    <2> QED BY <1>2, <2>5 DEF node
<1>5. CASE answer # Failure /\ node.kind # "CONDITION"
    <2>1. x = y
        <3> HIDE DEF node
        <3> QED BY <1>5 DEF Output, Score
    <2>2. \A i \in DOMAIN node.branches :
             Holds(node.branches[i].when, c, seenC) = Holds(node.branches[i].when, d, seenD)
        <3> SUFFICES ASSUME NEW i \in DOMAIN node.branches
                     PROVE Holds(node.branches[i].when, c, seenC) = Holds(node.branches[i].when, d, seenD)
            OBVIOUS
        <3>1. node.branches[i].when \in Expressions
            <4>1. node.branches[i] \in [when : Expressions, to : Targets]
                BY <1>1, Listed
            <4> QED BY <4>1
        <3>2. node.branches[i].when \in Routing(n)
            BY <1>5 DEF Routing
        <3>3. ReadsAlike(node.branches[i].when, c, d)
            BY <3>2
        <3> HIDE DEF node, seenC, seenD
        <3> QED BY <3>1, <3>3, SameHolds
    <2> HIDE DEF seenC, seenD
    <2>3. FirstBranch(node, c, seenC) = FirstBranch(node, d, seenD)
        <3> DEFINE T == {i \in DOMAIN node.branches : Holds(node.branches[i].when, c, seenC)}
                   U == {i \in DOMAIN node.branches : Holds(node.branches[i].when, d, seenD)}
        <3>1. T = U
            BY <2>2
        <3>2. FirstBranch(node, c, seenC) = IF T = {} THEN node.next
                 ELSE node.branches[CHOOSE i \in T : \A j \in T : i <= j].to
            BY DEF FirstBranch
        <3>3. FirstBranch(node, d, seenD) = IF U = {} THEN node.next
                 ELSE node.branches[CHOOSE i \in U : \A j \in U : i <= j].to
            BY DEF FirstBranch
        <3> HIDE DEF T, U, node
        <3> QED BY <3>1, <3>2, <3>3
    <2>4. ResolveNext(n, node, c, o, x) = ResolveNext(n, node, d, p, y)
        <3> HIDE DEF node, x, y
        <3> QED BY <1>5, <2>1, <2>3 DEF ResolveNext, seenC, seenD
    <2> QED BY <1>2, <2>4
<1> QED BY <1>3, <1>4, <1>5

\* Where both have been and gone on, both are through.
LEMMA BothThrough ==
    ASSUME EnginesInv, NEW s, s = eng["workflow"], NEW t, t = eng["inProcess"],
           NEW i \in Nat, i < Len(s.trace), i < Len(t.trace), i # 0, s.trace[i] = t.trace[i]
    PROVE  i \in StepsOf(s) /\ i \in StepsOf(t)
<1>1. Shape("workflow") /\ Shape("inProcess")
    BY DEF EnginesInv, Engines
<1>2. /\ s.trace \in Seq(Nodes) /\ t.trace \in Seq(Nodes)
    BY <1>1 DEF Shape
<1>3. /\ DOMAIN s.trace = 1..Len(s.trace) /\ Len(s.trace) \in Nat
      /\ DOMAIN t.trace = 1..Len(t.trace) /\ Len(t.trace) \in Nat
    BY <1>2, Listed
<1>4. i \in DOMAIN s.trace /\ i \in DOMAIN t.trace /\ i # Len(s.trace) /\ i # Len(t.trace)
    BY <1>3
<1>5. t.trace[i] \in DOMAIN t.outputs /\ Kind("inProcess", i) # "GATE"
    BY <1>1, <1>4 DEF Shape
<1>6. Kind("workflow", i) = Kind("inProcess", i)
    BY DEF Kind
<1>7. s.trace[i] \in DOMAIN s.outputs
    BY <1>1, <1>4, <1>5, <1>6 DEF Shape
<1> QED BY <1>4, <1>5, <1>7 DEF StepsOf

\* The node at which two runs part read something they do not share.
LEMMA PartsFromHistory == EnginesInv => EnginesPartOnlyAtUnsetValue
<1> SUFFICES ASSUME EnginesInv,
                    NEW i \in (DOMAIN eng["workflow"].trace \cap DOMAIN eng["inProcess"].trace) \ {1},
                    eng["workflow"].trace[i] # eng["inProcess"].trace[i],
                    \A j \in 1 .. i - 1 : eng["workflow"].trace[j] = eng["inProcess"].trace[j],
                    ~ \E expr \in Routing(eng["workflow"].trace[i - 1]) :
                         \/ expr.reads = "confidence" /\ Before(Analysed("workflow"), i - 1) = {}
                         \/ expr.reads = "finalDecision" /\ Before(Decided("workflow"), i - 1) = {}
             PROVE  FALSE
    BY DEF EnginesPartOnlyAtUnsetValue
<1>1. PICK s : s = eng["workflow"]
    OBVIOUS
<1>2. PICK t : t = eng["inProcess"]
    OBVIOUS
<1>3. /\ "workflow" \in Engines /\ "inProcess" \in Engines /\ FlowOK
      /\ s.trace \in Seq(Nodes) /\ t.trace \in Seq(Nodes)
      /\ Replays(flow, s, InitialContext("workflow"), answered)
      /\ Replays(flow, t, InitialContext("inProcess"), answered)
    BY <1>1, <1>2 DEF EnginesInv, Engines, Shape, History
<1>4. /\ DOMAIN s.trace = 1..Len(s.trace) /\ Len(s.trace) \in Nat
      /\ DOMAIN t.trace = 1..Len(t.trace) /\ Len(t.trace) \in Nat
    BY <1>3, Listed
<1>5. PICK k : k = i - 1
    OBVIOUS
<1>6. /\ k \in Nat /\ k # 0 /\ k < Len(s.trace) /\ k < Len(t.trace) /\ k + 1 = i
      /\ \A j \in Nat : j < k + 1 /\ j # 0 => j \in 1 .. i - 1
    BY <1>1, <1>2, <1>4, <1>5
<1>7. \A j \in Nat : j < k + 1 /\ j # 0 => /\ s.trace[j] = t.trace[j]
                                           /\ j \in StepsOf(s) /\ j \in StepsOf(t)
    <2> SUFFICES ASSUME NEW j \in Nat, j < k + 1, j # 0
                 PROVE  s.trace[j] = t.trace[j] /\ j \in StepsOf(s) /\ j \in StepsOf(t)
        OBVIOUS
    <2>1. s.trace[j] = t.trace[j]
        BY <1>1, <1>2, <1>6
    <2>2. j < Len(s.trace) /\ j < Len(t.trace)
        BY <1>4, <1>6
    <2> QED BY <1>1, <1>2, <2>1, <2>2, BothThrough
<1>8. SamePath(s, k, t, k)
    <2>1. /\ StepsOf(s) \subseteq 1..Len(s.trace) /\ StepsOf(t) \subseteq 1..Len(t.trace)
        BY <1>3, BeforeSteps
    <2>2. \A j \in Before(StepsOf(s), k) : j \in Nat /\ j < k + 1 /\ j # 0 /\ j < k
        BY <1>4, <1>6, <2>1 DEF Before
    <2>3. \A j \in Before(StepsOf(t), k) : j \in Nat /\ j < k + 1 /\ j # 0 /\ j < k
        BY <1>4, <1>6, <2>1 DEF Before
    <2>4. \A j : j \in Before(StepsOf(s), k) <=> j \in Before(StepsOf(t), k)
        BY <1>7, <2>2, <2>3 DEF Before
    <2>5. Before(StepsOf(t), k) = Before(StepsOf(s), k)
        BY <2>4
    <2>6. \A j \in Before(StepsOf(s), k) : t.trace[j] = s.trace[j]
        BY <1>7, <2>2
    <2> QED BY <2>5, <2>6 DEF SamePath
<1>9. PICK n : n = s.trace[k]
    OBVIOUS
<1>10. k \in StepsOf(s) /\ k \in StepsOf(t) /\ t.trace[k] = n
    BY <1>6, <1>7, <1>9
<1>11. n \in Nodes /\ Legitimate(n, answered[n])
    <2>1. s.trace[k] \in Nodes /\ Legitimate(s.trace[k], answered[s.trace[k]])
        BY <1>1, <1>3, <1>10, StepTells
    <2> QED BY <1>9, <2>1
<1>12. PICK c : c = ContextOf(flow, s, InitialContext("workflow"), k)
    OBVIOUS
<1>13. PICK d : d = ContextOf(flow, t, InitialContext("inProcess"), k)
    OBVIOUS
<1>14. /\ s.trace[i] = Result(n, Config(n), c, OutputsOf(s, k), answered[n]).next
       /\ t.trace[i] = Result(n, Config(n), d, OutputsOf(t, k), answered[n]).next
    BY <1>3, <1>6, <1>9, <1>10, <1>12, <1>13 DEF Replays, ResultOf, Config
<1>15. /\ OrElse(d.risk, 0) = OrElse(c.risk, 0)
       /\ Before(AnalysedOf(flow, s), k) # {} => d.confidence = c.confidence
    BY <1>1, <1>2, <1>6, <1>8, <1>12, <1>13, SameAnalyses
<1>16. Before(DecidedOf(flow, s), k) # {} => d.decision = c.decision
    BY <1>1, <1>2, <1>6, <1>8, <1>12, <1>13, SameDecisions
<1>17. \A expr \in Routing(n) : ReadsAlike(expr, c, d)
    <2>1. /\ Analysed("workflow") = AnalysedOf(flow, s) /\ Decided("workflow") = DecidedOf(flow, s)
        BY <1>1, RunOf
    <2> SUFFICES ASSUME NEW expr \in Routing(n) PROVE ReadsAlike(expr, c, d)
        OBVIOUS
    <2>2. /\ expr.reads = "confidence" => Before(AnalysedOf(flow, s), k) # {}
          /\ expr.reads = "finalDecision" => Before(DecidedOf(flow, s), k) # {}
        BY <1>1, <1>5, <1>9, <2>1
    <2> QED BY <1>15, <1>16, <2>2 DEF ReadsAlike
<1>18. Result(n, Config(n), c, OutputsOf(s, k), answered[n]).next
          = Result(n, Config(n), d, OutputsOf(t, k), answered[n]).next
    BY <1>3, <1>11, <1>15, <1>17, SameRoute
<1> QED BY <1>1, <1>2, <1>14, <1>18

\* Given the same answers both engines take the same path through any flow, until a node is
\* routed by a confidence or a decision that nothing has set yet: they disagree on nothing else.
THEOREM EnginesPartWays == SpecEngines => []EnginesPartOnlyAtUnsetValue
BY EnginesInvariance, PartsFromHistory, PTL

\* Runs that end on the same path and decide differently have no verdict.
LEMMA DifferFromHistory == EnginesInv => DecisionsDifferOnlyByInference
<1> SUFFICES ASSUME EnginesInv, \A e \in Engines : eng[e].phase = "ended",
                    eng["workflow"].trace = eng["inProcess"].trace,
                    FinalDecision("workflow") # FinalDecision("inProcess")
             PROVE  FinalDecision("workflow") = "MANUAL_REVIEW" /\ Decided("inProcess") = {}
    BY DEF DecisionsDifferOnlyByInference
<1>1. PICK s : s = eng["workflow"]
    OBVIOUS
<1>2. PICK t : t = eng["inProcess"]
    OBVIOUS
<1>3. /\ "workflow" \in Engines /\ "inProcess" \in Engines
      /\ Shape("workflow") /\ Shape("inProcess") /\ s.phase = "ended" /\ t.phase = "ended"
      /\ s.trace = t.trace
    BY <1>1, <1>2 DEF EnginesInv, Engines
<1>4. PICK L : L = Len(s.trace)
    OBVIOUS
<1>5. /\ s.trace \in Seq(Nodes) /\ L \in Nat /\ L # 0 /\ DOMAIN s.trace = 1..L /\ L = Len(t.trace)
      /\ s.at = s.trace[L] /\ t.at = s.trace[L]
    <2>1. /\ s.trace \in Seq(Nodes) /\ s.trace # << >> /\ s.at = s.trace[Len(s.trace)]
          /\ t.at = t.trace[Len(t.trace)]
        BY <1>1, <1>2, <1>3 DEF Shape
    <2> QED BY <1>3, <1>4, <2>1
<1>6. \A i \in 1..L : Kind("workflow", i) = Kind("inProcess", i)
    BY <1>1, <1>2, <1>3 DEF Kind
<1>7. \A i \in 1..L : IF s.trace[i] \in DOMAIN t.outputs THEN Kind("inProcess", i) \notin {"GATE", "END"}
                      ELSE i = L /\ Kind("inProcess", i) = "END"
    <2>1. t.at \in DOMAIN t.outputs \/ Config(t.at).kind = "END"
        BY <1>2, <1>3 DEF Shape
    <2>2. Kind("inProcess", L) = Config(t.at).kind
        BY <1>2, <1>3, <1>5 DEF Kind
    <2>3. \A i \in 1..L : IF s.trace[i] \in DOMAIN t.outputs THEN Kind("inProcess", i) \notin {"GATE", "END"}
                          ELSE i = L
        BY <1>2, <1>3, <1>5 DEF Shape
    <2> QED BY <1>5, <2>1, <2>2, <2>3
<1>8. \A i \in 1..L : IF s.trace[i] \in DOMAIN s.outputs THEN Kind("workflow", i) \notin {"GATE", "END"}
                      ELSE i = L \/ Kind("workflow", i) = "GATE"
    BY <1>1, <1>3, <1>4, <1>5 DEF Shape
<1>9. \/ s.at \in DOMAIN s.outputs \/ Kind("workflow", L) \in {"GATE", "END"}
    <2>1. Kind("workflow", L) = Config(s.at).kind
        BY <1>1, <1>5 DEF Kind
    <2>2. s.at \in DOMAIN s.outputs \/ Config(s.at).kind \in {"GATE", "END"}
        BY <1>1, <1>3 DEF Shape
    <2> QED BY <2>1, <2>2
<1>10. StepsOf(s) = StepsOf(t)
    <2>1. \A i \in 1..L : s.trace[i] \in DOMAIN s.outputs <=> s.trace[i] \in DOMAIN t.outputs
        BY <1>5, <1>6, <1>7, <1>8, <1>9
    <2> QED BY <1>3, <1>5, <2>1 DEF StepsOf
<1>11. Kind("workflow", L) # "GATE" /\ Config(s.at).kind # "GATE"
    <2>1. Kind("workflow", L) # "GATE"
        BY <1>5, <1>6, <1>7
    <2> QED BY <1>1, <1>5, <2>1 DEF Kind
<1>12. SamePath(s, L + 1, t, L + 1)
    BY <1>3, <1>10 DEF SamePath
<1>13. PICK c : c = ContextOf(flow, s, InitialContext("workflow"), L + 1)
    OBVIOUS
<1>14. PICK d : d = ContextOf(flow, t, InitialContext("inProcess"), L + 1)
    OBVIOUS
<1>15. s.ctx = c /\ Before(DecidedOf(flow, s), L + 1) = Decided("workflow")
    BY <1>1, <1>3, <1>4, <1>11, <1>13, EndOfRun
<1>16. t.ctx = d /\ Before(DecidedOf(flow, t), L + 1) = Decided("inProcess")
    BY <1>2, <1>3, <1>5, <1>14, EndOfRun
<1>17. L + 1 \in Nat
    BY <1>5
<1>18. /\ Decided("inProcess") = Decided("workflow")
       /\ IF Decided("workflow") = {} THEN c.decision = "MANUAL_REVIEW" /\ d.decision = Undefined
          ELSE d.decision = c.decision /\ c.decision \in Recommendations
    BY <1>1, <1>2, <1>12, <1>13, <1>14, <1>15, <1>16, <1>17, SameDecisions
<1>19. FinalDecision("workflow") = c.decision
    BY <1>1, <1>15 DEF FinalDecision, Infers
<1>20. CASE Decided("workflow") = {}
    BY <1>18, <1>19, <1>20
<1>21. CASE Decided("workflow") # {}
    <2>1. d.decision # Undefined
        BY <1>18, <1>21, UndefinedAssumption DEF Decisions
    <2>2. FinalDecision("inProcess") = d.decision
        BY <1>2, <1>16, <2>1 DEF FinalDecision, Infers
    <2> QED BY <1>18, <1>19, <1>21, <2>2
<1> QED BY <1>20, <1>21

\* Two runs on the same path to its end decide alike, but where no node decided: there, and
\* only there, the workflow refers what GraphEngine infers a decision for.
THEOREM EnginesDecideAlike == SpecEngines => []DecisionsDifferOnlyByInference
BY EnginesInvariance, DifferFromHistory, PTL

-----------------------------------------------------------------------------
(* Either engine walks the graph.                                            *)

\* What an engine says as it leaves a node is among what the node may say.
LEMMA SaysOfNode ==
    ASSUME FlowOK, NEW e \in Engines, NEW n \in Nodes, NEW out, Fits(Config(n).kind, out),
           NEW ctx, DOMAIN ctx = Scalars
    PROVE  NewContext(e, Config(n).kind, out, ctx).decision \in Says[n] \cup {ctx.decision}
<1> DEFINE kind == Config(n).kind
<1>1. /\ kind = "AI" => Says[n] = {"REJECT", "MANUAL_REVIEW"}
      /\ kind = "SCORE" => Says[n] = {"APPROVE", "REJECT", "MANUAL_REVIEW"}
      /\ kind = "RULE" => Says[n] = {"REJECT"}
    BY DEF Says
<1>2. \A d : [ctx EXCEPT !.decision = d].decision = d
    BY DEF Scalars
<1>3. Fits(kind, out)
    OBVIOUS
<1> SUFFICES NewContext(e, kind, out, ctx).decision \in Says[n] \cup {ctx.decision}
    OBVIOUS
<1> HIDE DEF kind
<1>4. CASE kind = "AI"
    BY <1>1, <1>4 DEF NewContext, Propagate, MergeOutputIntoContext
<1>5. CASE kind = "SCORE"
    <2>1. out.decision \in Says[n]
        BY <1>1, <1>3, <1>5 DEF Fits, Recommendations
    <2>2. NewContext(e, kind, out, ctx) = [ctx EXCEPT !.decision = out.decision]
        BY <1>5 DEF NewContext, Propagate, MergeOutputIntoContext
    <2> QED BY <1>2, <2>1, <2>2
<1>6. CASE kind = "RULE"
    <2>1. NewContext(e, kind, out, ctx) \in
             {ctx, [ctx EXCEPT !.decision = "REJECT"], [ctx EXCEPT !.decision = ctx.decision]}
        BY <1>6 DEF NewContext, Propagate, MergeOutputIntoContext
    <2> QED BY <1>1, <1>2, <1>6, <2>1
<1>7. CASE kind \notin {"AI", "SCORE", "RULE"}
    BY <1>7 DEF NewContext, Propagate, MergeOutputIntoContext
<1> QED BY <1>4, <1>5, <1>6, <1>7

\* Each step of either engine is one of GraphWalk, or none.
Walks(d) ==
    \/ /\ eng[d].visited = {} /\ eng'[d].visited = {flow.entry}
       /\ eng'[d].at = eng[d].at /\ eng'[d].ctx.decision = eng[d].ctx.decision
    \/ /\ eng[d].visited # {}
       /\ eng'[d].ctx.decision \in Says[eng[d].at] \cup {eng[d].ctx.decision}
       /\ \/ eng'[d].visited = eng[d].visited /\ eng'[d].at = eng[d].at
          \/ /\ eng'[d].at \notin eng[d].visited /\ <<eng[d].at, eng'[d].at>> \in EdgesOf
             /\ eng'[d].visited = eng[d].visited \cup {eng'[d].at}
    \/ /\ eng'[d].visited = eng[d].visited /\ eng'[d].at = eng[d].at
       /\ eng'[d].ctx.decision = eng[d].ctx.decision

\* Every step of an engine is a step of its walk or changes nothing of it.
LEMMA EngineWalks ==
    ASSUME EnginesInv, NEW e \in Engines, EngineStep(e), NEW d \in Engines PROVE Walks(d)
<1>1. \A x \in Engines : x # e => eng'[x] = eng[x]
    BY StepOfEngine
<1>2. FlowOK /\ Shape(e)
    BY DEF EnginesInv
<1>3. CASE d # e
    BY <1>1, <1>3 DEF Walks
<1>4. CASE d = e
    <2> SUFFICES Walks(e)
        BY <1>4
    <2>1. Starts(e) \/ (\E answer : Runs(e, answer)) \/ Retries(e) \/ Passes(e) \/ Closes(e)
        BY StepOfEngine
    <2>2. CASE Starts(e)
        <3>1. /\ eng[e] = Idle(e) /\ eng'[e].ctx = eng[e].ctx /\ Enters(e, flow.entry)
            BY <2>2, StartsTo
        <3>2. eng[e].visited = {} /\ eng[e].at = flow.entry
            BY <3>1 DEF Idle
        <3>3. eng'[e].visited = {flow.entry} /\ eng'[e].at = flow.entry
            BY <3>1, <3>2 DEF Enters
        <3> QED BY <3>1, <3>2, <3>3 DEF Walks
    <2>3. ASSUME eng[e].phase # "idle"
          PROVE  eng[e].visited # {} /\ eng[e].at \in Nodes
        <3>1. /\ eng[e].trace \in Seq(Nodes) /\ eng[e].trace # << >> /\ eng[e].at \in Nodes
              /\ eng[e].visited = {eng[e].trace[i] : i \in DOMAIN eng[e].trace}
            BY <1>2, <2>3 DEF Shape
        <3>2. 1 \in DOMAIN eng[e].trace
            BY <3>1
        <3> QED BY <3>1, <3>2
    <2>4. ASSUME NEW n, n \in Edges(Config(eng[e].at)), eng[e].at \in Nodes, Halts(e) \/ Enters(e, n)
          PROVE  \/ eng'[e].visited = eng[e].visited /\ eng'[e].at = eng[e].at
                 \/ /\ eng'[e].at \notin eng[e].visited /\ <<eng[e].at, eng'[e].at>> \in EdgesOf
                    /\ eng'[e].visited = eng[e].visited \cup {eng'[e].at}
        <3>1. CASE Halts(e)
            BY <3>1 DEF Halts
        <3>2. CASE Enters(e, n)
            <4>1. n \in Nodes /\ n \notin eng[e].visited /\ eng'[e].at = n
                  /\ eng'[e].visited = eng[e].visited \cup {n}
                BY <3>2 DEF Enters
            <4>2. PICK m : m = eng[e].at
                OBVIOUS
            <4>3. <<m, n>> \in EdgesOf
                <5>1. <<m, n>> \in Nodes \X Nodes /\ <<m, n>>[1] = m /\ <<m, n>>[2] = n
                    BY <2>4, <4>1, <4>2
                <5>2. n \in Edges(Config(m))
                    BY <2>4, <4>2
                <5> QED BY <5>1, <5>2 DEF EdgesOf
            <4> QED BY <4>1, <4>2, <4>3
        <3> QED BY <2>4, <3>1, <3>2
    <2>5. ASSUME NEW answer, Runs(e, answer) PROVE Walks(e)
        <3>1. PICK r : r = Result(eng[e].at, Config(eng[e].at), eng[e].ctx, eng[e].outputs, answer)
            OBVIOUS
        <3>2. /\ eng'[e].ctx = NewContext(e, Config(eng[e].at).kind, r.output, eng[e].ctx)
              /\ r.next \in Edges(Config(eng[e].at))
              /\ Halts(e) \/ Enters(e, r.next)
            BY <2>5, <3>1, RunsTo
        <3>3. /\ eng[e].visited # {} /\ eng[e].at \in Nodes /\ DOMAIN eng[e].ctx = Scalars
              /\ Legitimate(eng[e].at, answer)
            BY <1>2, <2>3, <2>5 DEF Runs, Shape
        <3>4. r.output = Output(Config(eng[e].at), eng[e].ctx, eng[e].outputs, answer)
            BY <3>1 DEF Result
        <3>5. PICK m, c, o : m = eng[e].at /\ c = eng[e].ctx /\ o = eng[e].outputs
            OBVIOUS
        <3>6. Fits(Config(m).kind, r.output)
            BY <1>2, <3>3, <3>4, <3>5, OutputFits
        <3>7. NewContext(e, Config(m).kind, r.output, c).decision \in Says[m] \cup {c.decision}
            BY <1>2, <3>3, <3>5, <3>6, SaysOfNode
        <3>8. eng'[e].ctx.decision \in Says[eng[e].at] \cup {eng[e].ctx.decision}
            BY <3>2, <3>5, <3>7
        <3>9. PICK n : n = r.next
            OBVIOUS
        <3>10. \/ eng'[e].visited = eng[e].visited /\ eng'[e].at = eng[e].at
               \/ /\ eng'[e].at \notin eng[e].visited /\ <<eng[e].at, eng'[e].at>> \in EdgesOf
                  /\ eng'[e].visited = eng[e].visited \cup {eng'[e].at}
            BY <2>4, <3>2, <3>3, <3>9
        <3> QED BY <3>3, <3>8, <3>10 DEF Walks
    <2>6. CASE Retries(e)
        BY <2>6 DEF Retries, Stays, Walks
    <2>7. CASE Passes(e)
        <3>1. PICK n : n = Config(eng[e].at).next
            OBVIOUS
        <3>2. eng'[e].ctx = eng[e].ctx /\ (Halts(e) \/ Enters(e, n))
            BY <2>7, <3>1, PassesTo
        <3>3. eng[e].visited # {} /\ eng[e].at \in Nodes /\ n \in Edges(Config(eng[e].at))
            BY <2>3, <2>7, <3>1 DEF Passes, Edges
        <3>4. \/ eng'[e].visited = eng[e].visited /\ eng'[e].at = eng[e].at
              \/ /\ eng'[e].at \notin eng[e].visited /\ <<eng[e].at, eng'[e].at>> \in EdgesOf
                 /\ eng'[e].visited = eng[e].visited \cup {eng'[e].at}
            BY <2>4, <3>2, <3>3
        <3> QED BY <3>2, <3>3, <3>4 DEF Walks
    <2>8. CASE Closes(e)
        <3>1. PICK v \in {"REJECT", "ESCALATE"} : eng'[e] = [eng[e] EXCEPT !.phase = "ended", !.ctx.decision = v]
            BY <2>8 DEF Closes
        <3>2. /\ DOMAIN eng[e] = EngineFields /\ DOMAIN eng[e].ctx = Scalars /\ Config(eng[e].at).kind = "GATE"
              /\ eng[e].visited # {} /\ eng[e].at \in Nodes
            BY <1>2, <2>3, <2>8 DEF Shape, Closes
        <3>3. /\ eng'[e].at = eng[e].at /\ eng'[e].visited = eng[e].visited /\ eng'[e].ctx.decision = v
            BY <3>1, <3>2 DEF EngineFields, Scalars
        <3>4. Says[eng[e].at] = {"REJECT", "ESCALATE"}
            BY <3>2 DEF Says
        <3> QED BY <3>1, <3>2, <3>3, <3>4 DEF Walks
    <2> QED BY <2>1, <2>2, <2>5, <2>6, <2>7, <2>8
<1> QED BY <1>3, <1>4

\* Each engine implements GraphWalk on every flow: it walks along edges of the graph only,
\* enters no node twice, and what it decides on leaving a node is what that node may say.
THEOREM EnginesWalkTheGraph == SpecEngines => EnginesWalk
<1>1. InitEngines => WorkflowWalk!Init /\ InProcessWalk!Init
    BY DEF InitEngines, Idle, Engines, WorkflowWalk!Init, InProcessWalk!Init
<1>2. ASSUME EnginesInv, NEW e \in Engines, EngineStep(e)
      PROVE  /\ [WorkflowWalk!Enter \/ WorkflowWalk!Leave]_(WorkflowWalk!vars)
             /\ [InProcessWalk!Enter \/ InProcessWalk!Leave]_(InProcessWalk!vars)
    <2>1. flow' = flow
        BY <1>2, StepOfEngine
    <2>2. EdgesOf' = EdgesOf /\ Says' = Says
        BY <2>1 DEF EdgesOf, Says, Config
    <2>3. Walks("workflow") /\ Walks("inProcess")
        BY <1>2, EngineWalks DEF Engines
    <2>4. [WorkflowWalk!Enter \/ WorkflowWalk!Leave]_(WorkflowWalk!vars)
        BY <2>1, <2>2, <2>3 DEF Walks, WorkflowWalk!Enter, WorkflowWalk!Leave, WorkflowWalk!vars
    <2>5. [InProcessWalk!Enter \/ InProcessWalk!Leave]_(InProcessWalk!vars)
        BY <2>1, <2>2, <2>3 DEF Walks, InProcessWalk!Enter, InProcessWalk!Leave, InProcessWalk!vars
    <2> QED BY <2>4, <2>5
<1>3. UNCHANGED engineVars => UNCHANGED WorkflowWalk!vars /\ UNCHANGED InProcessWalk!vars
    BY DEF engineVars, WorkflowWalk!vars, InProcessWalk!vars, EdgesOf, Says, Config
<1>4. EnginesInv /\ [NextEngines]_engineVars =>
         /\ [WorkflowWalk!Enter \/ WorkflowWalk!Leave]_(WorkflowWalk!vars)
         /\ [InProcessWalk!Enter \/ InProcessWalk!Leave]_(InProcessWalk!vars)
    BY <1>2, <1>3 DEF NextEngines
<1> QED BY <1>1, <1>4, EnginesInvariance, PTL
        DEF SpecEngines, EnginesWalk, WorkflowWalk!Spec, InProcessWalk!Spec

=============================================================================
