----------------------------- MODULE AuditChain -----------------------------
(* The audit log of the audit service: createRecord links each new record to *)
(* the latest one of its tenant, verifyChainIntegrity walks the records of   *)
(* one loan.  A record is identified by the call that creates it; its hash   *)
(* stands for it, so previousHash holds a call.  Signing, payloads and the   *)
(* columns nothing depends on are left out.                                  *)
EXTENDS Integers, FiniteSets

CONSTANTS
    Tenants,
    Loans,          \* loan requests, one of which may stand for "none given"
    TenantOf,       \* the tenant of each loan
    Calls,          \* POST /audit calls, each with the UUID of its record
    None,           \* no previous record
    MaxTime         \* bound of the clock, in milliseconds

ASSUME CallsAssumption == IsFiniteSet(Calls) /\ None \notin Calls
ASSUME TenantAssumption == TenantOf \in [Loans -> Tenants]
ASSUME TimeAssumption == MaxTime \in Nat

VARIABLES
    now,            \* the clock the service and its database share
    stage,          \* how far each call has come
    loan,           \* loanRequestId of the call
    timestamp,      \* the time that is hashed and signed
    previousHash,
    createdAt,      \* the time that is stored
    committed       \* history: when the transaction committed

callVars   == <<stage, loan, timestamp>>
recordVars == <<previousHash, createdAt, committed>>
vars       == <<now, callVars, recordVars>>

Times   == 0..MaxTime
InTransaction == {"begun", "hashed"}

TypeOK ==
    /\ now \in Times
    /\ stage \in [Calls -> {"free", "stored"} \cup InTransaction]
    /\ loan \in [Calls -> Loans]
    /\ timestamp \in [Calls -> Times]
    /\ previousHash \in [Calls -> Calls \cup {None}]
    /\ createdAt \in [Calls -> Times]
    /\ committed \in [Calls -> Times]

Init ==
    /\ now = 0
    /\ stage = [c \in Calls |-> "free"]
    /\ loan \in [Calls -> Loans]
    /\ timestamp = [c \in Calls |-> 0]
    /\ previousHash = [c \in Calls |-> None]
    /\ createdAt = [c \in Calls |-> 0]
    /\ committed = [c \in Calls |-> 0]

-----------------------------------------------------------------------------
(* createRecord                                                              *)

Tenant(c) == TenantOf[loan[c]]

\* The visible rows of a tenant: READ COMMITTED shows what has committed.
Rows(t) == {r \in Calls : stage[r] = "stored" /\ Tenant(r) = t}

\* Mutant: the query orders by createdAt asc.
Oldest(t) == {r \in Rows(t) : \A q \in Rows(t) : createdAt[r] <= createdAt[q]}

\* findFirst orderBy createdAt desc: rows of one millisecond come in any order.
Latest(t) == {r \in Rows(t) : \A q \in Rows(t) : createdAt[q] <= createdAt[r]}

\* The handler takes the time before it opens the transaction.
CreateRecord(c) ==
    /\ stage[c] = "free"
    /\ stage' = [stage EXCEPT ![c] = "begun"]
    /\ timestamp' = [timestamp EXCEPT ![c] = now]
    /\ UNCHANGED <<now, loan, recordVars>>

FindPrevious(c) ==
    /\ stage[c] = "begun"
    /\ \E prev \in IF Rows(Tenant(c)) = {} THEN {None} ELSE Latest(Tenant(c)) :
          previousHash' = [previousHash EXCEPT ![c] = prev]
    /\ stage' = [stage EXCEPT ![c] = "hashed"]
    /\ UNCHANGED <<now, loan, timestamp, createdAt, committed>>

\* The insert leaves createdAt to the default now(), which is the time of the
\* transaction's start or of the insert, then the transaction commits.
InsertRecord(c) ==
    /\ stage[c] = "hashed"
    /\ stage' = [stage EXCEPT ![c] = "stored"]
    /\ \E at \in timestamp[c]..now : createdAt' = [createdAt EXCEPT ![c] = at]
    /\ committed' = [committed EXCEPT ![c] = now]
    /\ UNCHANGED <<now, loan, timestamp, previousHash>>

\* The database or the service fails: the transaction is rolled back, its locals
\* are gone, and the caller may call again or not.
TransactionFails(c) ==
    /\ stage[c] \in InTransaction
    /\ stage' = [stage EXCEPT ![c] = "free"]
    /\ timestamp' = [timestamp EXCEPT ![c] = 0]
    /\ previousHash' = [previousHash EXCEPT ![c] = None]
    /\ UNCHANGED <<now, loan, createdAt, committed>>

Tick ==
    /\ now < MaxTime
    /\ now' = now + 1
    /\ UNCHANGED <<callVars, recordVars>>

Next ==
    \/ \E c \in Calls : \/ CreateRecord(c)
                        \/ FindPrevious(c)
                        \/ InsertRecord(c)
                        \/ TransactionFails(c)
    \/ Tick

Spec == Init /\ [][Next]_vars

-----------------------------------------------------------------------------
(* verifyChainIntegrity                                                      *)

Trail(l) == {r \in Calls : stage[r] = "stored" /\ loan[r] = l}

\* findMany orderBy createdAt asc: the orders the database may return.
Listings(l) ==
    LET n == Cardinality(Trail(l))
    IN {s \in [1..n -> Trail(l)] :
          /\ \A r \in Trail(l) : \E i \in 1..n : s[i] = r
          /\ \A i, j \in 1..n : i < j => s[i] # s[j] /\ createdAt[s[i]] <= createdAt[s[j]]}

\* Mutant: only the newest record is checked.
LinkedAtEnd(s) == \A i \in DOMAIN s : i > 1 /\ i + 1 \notin DOMAIN s => previousHash[s[i]] = s[i - 1]

\* The loop over the listing: each record names the hash of the one before it.
Linked(s) == \A i \in DOMAIN s : i > 1 => previousHash[s[i]] = s[i - 1]

\* verifyChainIntegrity can answer valid.
MayVerify(l) == \E s \in Listings(l) : Linked(s)

\* It answers valid in every order of equal times.
Verifies(l) == \A s \in Listings(l) : Linked(s)

-----------------------------------------------------------------------------
(* Properties                                                                *)

\* Each time of a record lies between the ones before and after it.
Timed ==
    \A c \in Calls :
        /\ stage[c] # "free" => timestamp[c] <= now
        /\ stage[c] = "stored" => /\ timestamp[c] <= createdAt[c]
                                  /\ createdAt[c] <= committed[c]
                                  /\ committed[c] <= now

\* A record names a row of its tenant that was committed before it.
Chained ==
    \A c \in Calls :
        stage[c] \in {"hashed", "stored"} /\ previousHash[c] # None =>
            /\ previousHash[c] \in Rows(Tenant(c)) \ {c}
            /\ stage[c] = "stored" => committed[previousHash[c]] <= committed[c]

\* Of the rows committed before its call, a record names the latest or a later one.
Current ==
    \A c \in Calls :
        stage[c] \in {"hashed", "stored"} =>
            \A r \in Rows(Tenant(c)) :
                committed[r] < timestamp[c] =>
                    /\ previousHash[c] # None
                    /\ createdAt[r] <= createdAt[previousHash[c]]

\* The inductive invariant: what createRecord knows of the log when it links a
\* record, which is why the chain is right whenever calls do not overlap.
ChainInv == TypeOK /\ Timed /\ Chained /\ Current

\* One call answered in an earlier millisecond than the other one began.
Before(a, b) == committed[a] < timestamp[b]

Serial(t) == \A a, b \in Rows(t) : a = b \/ Before(a, b) \/ Before(b, a)

\* If no two stored calls of a tenant overlapped, its records form one chain in
\* the order they were made: no fork, no gap (createRecord reads the latest
\* record and inserts the next one without a lock, audit.repository.ts:56).
SerialChain ==
    \A t \in Tenants : Serial(t) =>
        \A r \in Rows(t) :
            LET earlier == {q \in Rows(t) : Before(q, r)}
            IN IF earlier = {} THEN previousHash[r] = None
               ELSE /\ previousHash[r] \in earlier
                    /\ \A q \in earlier : q = previousHash[r] \/ Before(q, previousHash[r])

\* Where calls do not overlap, a loan's trail verifies iff no record of another
\* loan of the tenant came in between: the chain is per tenant, the listing per
\* loan (audit.repository.ts:57 and :191).
ContiguousTrailVerifies ==
    \A l \in Loans : Serial(TenantOf[l]) =>
        (Verifies(l) <=>
            \A a, b \in Trail(l), r \in Rows(TenantOf[l]) :
                Before(a, r) /\ Before(r, b) => r \in Trail(l))

\* A trail found broken is never found whole again: no later record can close a
\* gap, wherever its createdAt puts it in the listing.
BrokenStaysBroken ==
    [][\A l \in Loans : MayVerify(l)' => MayVerify(l)]_vars


=============================================================================
