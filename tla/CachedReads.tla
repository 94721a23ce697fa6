----------------------------- MODULE CachedReads -----------------------------
(***************************************************************************)
(* The three reads the decision service keeps in Redis: the list of flows, *)
(* a completed execution, and the pending approvals.  A reader that misses *)
(* queries the tables and stores what it got; a writer deletes the entry   *)
(* some round trips after its write, or never.  The entries share nothing: *)
(* read says which of them this is about.  Editors are those of            *)
(* FlowService; executions and approvals are in DecisionGraph, here only   *)
(* their statuses change.  A listing by status bypasses the cache.         *)
(***************************************************************************)
EXTENDS FlowService, Naturals

CONSTANTS
    Readers,
    Approvals,  \* rows of approval_requests
    MaxWrites,  \* bound: writes of the status of the execution
    MaxFaults,  \* bound: entries that are not deleted after a write
    None        \* no entry

ASSUME BoundsAssumption == MaxWrites \in Nat /\ MaxFaults \in Nat

VARIABLES
    read,      \* the read that is modelled
    execution, \* decision_executions.status
    approval,  \* approval_requests.status: decided, if neither pending nor absent
    call,      \* what a writer has left to do
    reader,    \* how far each reader has come, and what it has read
    cache,     \* the entry in Redis; late if it was outdated when it was set
    writes, faults
cachedVars == <<read, execution, approval, call, reader, cache, writes, faults>>
tableVars == <<vars, execution, approval>>
everything == <<vars, cachedVars>>

Reads == {"flows", "execution", "approvals"}
Callers == Editors \cup Flows \cup Approvals

\* What the query of the read returns.
Table ==
    CASE read = "flows"     -> {<<f, status[f]>> : f \in {g \in Flows : status[g] # "ABSENT"}}
      [] read = "execution" -> execution
      [] read = "approvals" -> {a \in Approvals : approval[a] = "PENDING"}

Away == [stage |-> "away", value |-> None]

InitCached ==
    /\ Init
    /\ read \in Reads
    /\ execution = "RUNNING"
    /\ approval = [a \in Approvals |-> "ABSENT"]
    /\ call = [c \in Callers |-> "none"]
    /\ reader = [r \in Readers |-> Away]
    /\ cache = None
    /\ writes = 0 /\ faults = 0

-----------------------------------------------------------------------------
(* Writers.                                                                 *)

\* Mutant: the entry is left alone after a write.
WroteOnly(c) == UNCHANGED call
\* After its write a call has the entry to delete.
Wrote(c) == call' = [call EXCEPT ![c] = "delete"]

EditFlows ==
    /\ read = "flows"
    /\ \/ \E f \in Flows : CreateFlow(f) /\ Wrote(f)
       \/ \E e \in Editors :
             /\ call[e] = "none" /\ Editor(e)
             /\ IF status' # status THEN Wrote(e) ELSE UNCHANGED call
    /\ UNCHANGED <<read, execution, approval, reader, cache, writes, faults>>

\* The workflow completes or fails the row, cancelExecution fails it; none of
\* them knows of the entry.
MarkExecution ==
    /\ read = "execution"
    /\ writes < MaxWrites
    /\ writes' = writes + 1
    /\ execution' \in {"COMPLETED", "FAILED"}
    /\ UNCHANGED <<vars, read, approval, call, reader, cache, faults>>

\* The workflow asks for an approval, and leaves the entry alone.
CreateApprovalRequest(a) ==
    /\ read = "approvals"
    /\ approval[a] = "ABSENT"
    /\ approval' = [approval EXCEPT ![a] = "PENDING"]
    /\ UNCHANGED <<vars, read, execution, call, reader, cache, writes, faults>>

\* approve and reject; delegate has a new request to insert first.
DecideApproval(a) ==
    /\ read = "approvals"
    /\ approval[a] = "PENDING"
    /\ approval' = [approval EXCEPT ![a] = "DECIDED"]
    /\ Wrote(a) \/ call' = [call EXCEPT ![a] = "insert"]
    /\ UNCHANGED <<vars, read, execution, reader, cache, writes, faults>>

InsertDelegated(a, b) ==
    /\ call[a] = "insert"
    /\ approval[b] = "ABSENT"
    /\ approval' = [approval EXCEPT ![b] = "PENDING"]
    /\ Wrote(a)
    /\ UNCHANGED <<vars, read, execution, reader, cache, writes, faults>>

InvalidateEntry(c) ==
    /\ call[c] = "delete"
    /\ call' = [call EXCEPT ![c] = "none"]
    /\ cache' = None
    /\ UNCHANGED <<tableVars, read, reader, writes, faults>>

\* Redis is away, or the call ends in front of it: with its process, or because
\* the signal to the workflow or the insert fails.
InvalidationFails(c) ==
    /\ call[c] # "none"
    /\ faults < MaxFaults
    /\ faults' = faults + 1
    /\ call' = [call EXCEPT ![c] = "none"]
    /\ UNCHANGED <<tableVars, read, reader, cache, writes>>

-----------------------------------------------------------------------------
(* Readers: a hit is answered and changes nothing.                          *)

At(r, stage, value) == reader' = [reader EXCEPT ![r] = [stage |-> stage, value |-> value]]

Miss(r) ==
    /\ reader[r] = Away /\ cache = None
    /\ At(r, "missed", None)
    /\ UNCHANGED <<tableVars, read, call, cache, writes, faults>>

\* An execution is kept only once it is completed.
Query(r) ==
    /\ reader[r].stage = "missed"
    /\ IF read = "execution" /\ execution # "COMPLETED" THEN reader' = [reader EXCEPT ![r] = Away]
       ELSE At(r, "read", Table)
    /\ UNCHANGED <<tableVars, read, call, cache, writes, faults>>

SetEntry(r) ==
    /\ reader[r].stage = "read"
    /\ \/ cache' = [value |-> reader[r].value, late |-> reader[r].value # Table]
       \/ UNCHANGED cache
    /\ reader' = [reader EXCEPT ![r] = Away]
    /\ UNCHANGED <<tableVars, read, call, writes, faults>>

\* Mutant: the entry is set without a time to live.
ExpireNever == FALSE /\ UNCHANGED everything
\* Half a minute, or a minute, after it was set.
Expire ==
    /\ cache # None
    /\ cache' = None
    /\ UNCHANGED <<tableVars, read, call, reader, writes, faults>>

-----------------------------------------------------------------------------
Read(r) == Miss(r) \/ Query(r) \/ SetEntry(r)

NextCached ==
    \/ EditFlows \/ MarkExecution \/ Expire
    \/ \E a \in Approvals : \/ CreateApprovalRequest(a) \/ DecideApproval(a)
                            \/ \E b \in Approvals : InsertDelegated(a, b)
    \/ \E c \in Callers : InvalidateEntry(c) \/ InvalidationFails(c)
    \/ \E r \in Readers : Read(r)

SpecCached == InitCached /\ [][NextCached]_everything

\* Redis drops what has expired, and a query that was begun is finished.
FairSpecCached ==
    /\ SpecCached
    /\ WF_everything(Expire)
    /\ \A r \in Readers : WF_everything(Query(r) \/ SetEntry(r))

-----------------------------------------------------------------------------
(* Properties.                                                              *)

\* The cached list does not tell what the tables say; of the approvals, it names
\* one that is decided.  (New requests may be missing: nobody deletes the entry.)
Outdated == IF read = "approvals" THEN ~(cache.value \subseteq Table) ELSE cache.value # Table

\* A list is outdated only while the call that outdated it has the entry still to
\* delete, or failed to; or because it was outdated when a reader set it, which
\* had read before the write and stored after the deletion.
StaleOnlyByRace ==
    (read # "execution" /\ cache # None /\ Outdated) =>
       cache.late \/ faults > 0 \/ \E c \in Callers : call[c] # "none"

\* Deletions that come too early or not at all, and executions failed after they
\* were cached as completed, are made up for by the time to live: when the tables
\* rest, the cache comes to tell what they say, or nothing.
CachesCatchUp == <>[](cache = None \/ cache.value = Table)
=============================================================================
