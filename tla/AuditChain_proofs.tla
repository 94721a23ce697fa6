-------------------------- MODULE AuditChain_proofs --------------------------
(* Proofs about AuditChain, for any number of calls, loans and tenants and   *)
(* any bound of the clock.                                                   *)
EXTENDS AuditChain, FiniteSetTheorems, TLAPS

-----------------------------------------------------------------------------
(* The inductive invariant.                                                  *)

LEMMA InitInv == Init => ChainInv
<1> SUFFICES ASSUME Init PROVE ChainInv
    OBVIOUS
<1>1. TypeOK
    BY TimeAssumption DEF Init, TypeOK, Times
<1>2. Timed /\ Chained /\ Current
    BY DEF Init, Timed, Chained, Current
<1> QED BY <1>1, <1>2 DEF ChainInv

LEMMA CreateRecordStep ==
    ASSUME ChainInv, NEW c \in Calls, CreateRecord(c) PROVE ChainInv'
<1>1. TypeOK'
    BY DEF ChainInv, TypeOK, CreateRecord, InTransaction, recordVars
<1>2. \A r \in Calls : stage'[r] \in {"hashed", "stored"} =>
        /\ r # c
        /\ stage'[r] = stage[r] /\ timestamp'[r] = timestamp[r]
    BY DEF ChainInv, TypeOK, CreateRecord
<1>3. \A t : Rows(t)' = Rows(t)
    BY DEF ChainInv, TypeOK, CreateRecord, Rows, Tenant
<1>4. Timed'
    BY DEF ChainInv, TypeOK, Times, Timed, CreateRecord, recordVars
<1>5. Chained'
    BY <1>2, <1>3 DEF ChainInv, TypeOK, Chained, CreateRecord, recordVars, Tenant
<1>6. Current'
    BY <1>2, <1>3 DEF ChainInv, TypeOK, Current, CreateRecord, recordVars, Tenant
<1> QED BY <1>1, <1>4, <1>5, <1>6 DEF ChainInv

LEMMA FindPreviousStep ==
    ASSUME ChainInv, NEW c \in Calls, FindPrevious(c) PROVE ChainInv'
<1> DEFINE t == Tenant(c)
<1>1. PICK prev \in IF Rows(t) = {} THEN {None} ELSE Latest(t) :
        previousHash' = [previousHash EXCEPT ![c] = prev]
    BY DEF FindPrevious
<1>2. prev \in Calls \cup {None}
    BY <1>1 DEF Latest, Rows
<1>3. TypeOK'
    BY <1>1, <1>2 DEF ChainInv, TypeOK, FindPrevious, InTransaction
<1>4. \A u : Rows(u)' = Rows(u)
    BY DEF ChainInv, TypeOK, FindPrevious, Rows, Tenant
<1>5. Timed'
    BY DEF ChainInv, TypeOK, Timed, FindPrevious
<1>6. Chained'
    <2> SUFFICES ASSUME NEW r \in Calls, stage'[r] \in {"hashed", "stored"}, previousHash'[r] # None
                 PROVE /\ previousHash'[r] \in Rows(Tenant(r))' \ {r}
                       /\ stage'[r] = "stored" => committed'[previousHash'[r]] <= committed'[r]
        BY DEF Chained
    <2>1. Tenant(r)' = Tenant(r) /\ committed' = committed
        BY DEF FindPrevious, Tenant
    <2>2. CASE r = c
        <3>1. previousHash'[r] = prev /\ stage'[r] = "hashed"
            BY <1>1, <2>2 DEF ChainInv, TypeOK, FindPrevious
        <3>2. prev \in Rows(t) /\ c \notin Rows(t)
            BY <1>1, <3>1 DEF Latest, Rows, FindPrevious
        <3> QED BY <1>4, <2>1, <2>2, <3>1, <3>2
    <2>3. CASE r # c
        <3>1. previousHash'[r] = previousHash[r] /\ stage'[r] = stage[r]
            BY <1>1, <2>3 DEF ChainInv, TypeOK, FindPrevious
        <3> QED BY <1>4, <2>1, <3>1 DEF ChainInv, Chained
    <2> QED BY <2>2, <2>3
<1>7. Current'
    <2> SUFFICES ASSUME NEW r \in Calls, stage'[r] \in {"hashed", "stored"},
                        NEW q \in Rows(Tenant(r))', committed'[q] < timestamp'[r]
                 PROVE previousHash'[r] # None /\ createdAt'[q] <= createdAt'[previousHash'[r]]
        BY DEF Current
    <2>1. Tenant(r)' = Tenant(r) /\ UNCHANGED <<committed, createdAt, timestamp>>
        BY DEF FindPrevious, Tenant
    <2>2. q \in Rows(Tenant(r))
        BY <1>4, <2>1
    <2>3. CASE r = c
        <3>1. previousHash'[r] = prev /\ prev \in Latest(t) /\ prev # None
            BY <1>1, <2>2, <2>3, CallsAssumption DEF ChainInv, TypeOK, Latest, Rows
        <3> QED BY <2>1, <2>2, <2>3, <3>1 DEF Latest
    <2>4. CASE r # c
        <3>1. previousHash'[r] = previousHash[r] /\ stage'[r] = stage[r]
            BY <1>1, <2>4 DEF ChainInv, TypeOK, FindPrevious
        <3> QED BY <2>1, <2>2, <3>1 DEF ChainInv, Current
    <2> QED BY <2>3, <2>4
<1> QED BY <1>3, <1>5, <1>6, <1>7 DEF ChainInv

LEMMA InsertRecordStep ==
    ASSUME ChainInv, NEW c \in Calls, InsertRecord(c) PROVE ChainInv'
<1>1. PICK at \in timestamp[c]..now : createdAt' = [createdAt EXCEPT ![c] = at]
    BY DEF InsertRecord
<1>2. at \in Times /\ timestamp[c] <= at /\ at <= now
    BY TimeAssumption DEF ChainInv, TypeOK, Times
<1>3. TypeOK'
    BY <1>1, <1>2 DEF ChainInv, TypeOK, InsertRecord, InTransaction
<1>4. /\ \A u : c \notin Rows(u)
      /\ \A u : Rows(u)' = IF u = Tenant(c) THEN Rows(u) \cup {c} ELSE Rows(u)
    BY DEF ChainInv, TypeOK, InsertRecord, Rows, Tenant
<1>5. /\ \A r \in Calls : Tenant(r)' = Tenant(r)
      /\ UNCHANGED <<now, timestamp, previousHash>>
      /\ \A r \in Calls : r # c => /\ stage'[r] = stage[r] /\ createdAt'[r] = createdAt[r]
                                   /\ committed'[r] = committed[r]
      /\ stage[c] = "hashed" /\ stage'[c] = "stored" /\ committed'[c] = now /\ createdAt'[c] = at
    BY <1>1 DEF ChainInv, TypeOK, InsertRecord, Tenant
<1>6. Timed'
    BY <1>2, <1>5 DEF ChainInv, TypeOK, Times, Timed
<1>7. Chained'
    <2> SUFFICES ASSUME NEW r \in Calls, stage'[r] \in {"hashed", "stored"}, previousHash'[r] # None
                 PROVE /\ previousHash'[r] \in Rows(Tenant(r))' \ {r}
                       /\ stage'[r] = "stored" => committed'[previousHash'[r]] <= committed'[r]
        BY DEF Chained
    <2>1. /\ previousHash'[r] \in Rows(Tenant(r)) \ {r}
          /\ stage[r] = "stored" => committed[previousHash[r]] <= committed[r]
        BY <1>5 DEF ChainInv, Chained
    <2>2. previousHash[r] \in Calls \ {c} /\ stage[previousHash[r]] = "stored"
        BY <1>4, <1>5, <2>1 DEF Rows
    <2>3. committed[previousHash[r]] <= now
        BY <2>2 DEF ChainInv, Timed
    <2> QED BY <1>4, <1>5, <2>1, <2>2, <2>3
<1>8. Current'
    <2> SUFFICES ASSUME NEW r \in Calls, stage'[r] \in {"hashed", "stored"},
                        NEW q \in Rows(Tenant(r))', committed'[q] < timestamp'[r]
                 PROVE previousHash'[r] # None /\ createdAt'[q] <= createdAt'[previousHash'[r]]
        BY DEF Current
    <2>1. stage[r] \in {"hashed", "stored"} /\ timestamp[r] <= now
        BY <1>5 DEF ChainInv, Timed
    <2>2. q # c
        BY <1>5, <2>1 DEF ChainInv, TypeOK, Times
    <2>3. q \in Rows(Tenant(r)) /\ q \in Calls
        BY <1>4, <1>5, <2>2 DEF Rows
    <2>4. previousHash[r] # None /\ createdAt[q] <= createdAt[previousHash[r]]
        BY <1>5, <2>1, <2>2, <2>3 DEF ChainInv, Current
    <2>5. previousHash[r] \in Calls \ {c}
        BY <1>4, <2>1, <2>4 DEF ChainInv, Chained, Rows
    <2> QED BY <1>5, <2>2, <2>3, <2>4, <2>5
<1> QED BY <1>3, <1>6, <1>7, <1>8 DEF ChainInv

LEMMA TransactionFailsStep ==
    ASSUME ChainInv, NEW c \in Calls, TransactionFails(c) PROVE ChainInv'
<1>1. TypeOK'
    BY TimeAssumption DEF ChainInv, TypeOK, Times, TransactionFails, InTransaction
<1>2. \A r \in Calls : stage'[r] \in {"hashed", "stored"} =>
        /\ r # c /\ stage'[r] = stage[r] /\ timestamp'[r] = timestamp[r]
        /\ previousHash'[r] = previousHash[r]
    BY DEF ChainInv, TypeOK, TransactionFails
<1>3. \A u : Rows(u)' = Rows(u)
    BY DEF ChainInv, TypeOK, TransactionFails, Rows, Tenant, InTransaction
<1>4. Timed'
    BY DEF ChainInv, TypeOK, Times, Timed, TransactionFails
<1>5. Chained' /\ Current'
    BY <1>2, <1>3 DEF ChainInv, Chained, Current, TransactionFails, Tenant
<1> QED BY <1>1, <1>4, <1>5 DEF ChainInv

LEMMA TickStep == ASSUME ChainInv, Tick PROVE ChainInv'
<1>1. TypeOK'
    BY TimeAssumption DEF ChainInv, TypeOK, Times, Tick, callVars, recordVars
<1>2. Timed'
    BY DEF ChainInv, TypeOK, Times, Timed, Tick, callVars, recordVars
<1>3. Chained' /\ Current'
    BY DEF ChainInv, Chained, Current, Rows, Tenant, Tick, callVars, recordVars
<1> QED BY <1>1, <1>2, <1>3 DEF ChainInv

\* ChainInv holds of every reachable log.
THEOREM ChainInvariance == Spec => []ChainInv
<1>1. ChainInv /\ [Next]_vars => ChainInv'
    <2> SUFFICES ASSUME ChainInv, [Next]_vars PROVE ChainInv'
        OBVIOUS
    <2>1. CASE UNCHANGED vars
        BY <2>1 DEF vars, callVars, recordVars, ChainInv, TypeOK, Timed, Chained, Current, Rows, Tenant
    <2>2. CASE Tick
        BY <2>2, TickStep
    <2>3. ASSUME NEW c \in Calls,
                 CreateRecord(c) \/ FindPrevious(c) \/ InsertRecord(c) \/ TransactionFails(c)
          PROVE ChainInv'
        BY <2>3, CreateRecordStep, FindPreviousStep, InsertRecordStep, TransactionFailsStep
    <2> QED BY <2>1, <2>2, <2>3 DEF Next
<1> QED BY <1>1, InitInv, PTL DEF Spec

\* Appends, whether they commit or fail, keep the records in their ranges; no link
\* leads out of the calls.
THEOREM ChainTypes == Spec => []TypeOK
<1>1. ChainInv => TypeOK BY DEF ChainInv
<1> QED BY <1>1, ChainInvariance, PTL

-----------------------------------------------------------------------------
(* What it means for the chain.                                              *)

\* A record names the last of the records before it, where no two calls overlapped.
LEMMA SerialLinks == ASSUME ChainInv PROVE SerialChain
<1> SUFFICES ASSUME NEW t \in Tenants, Serial(t), NEW r \in Rows(t)
             PROVE LET earlier == {q \in Rows(t) : Before(q, r)}
                   IN IF earlier = {} THEN previousHash[r] = None
                      ELSE /\ previousHash[r] \in earlier
                           /\ \A q \in earlier : q = previousHash[r] \/ Before(q, previousHash[r])
    BY DEF SerialChain
<1> DEFINE p == previousHash[r]
           earlier == {q \in Rows(t) : Before(q, r)}
<1>1. r \in Calls /\ stage[r] = "stored" /\ Tenant(r) = t
    BY DEF Rows
<1>2. \A q \in Rows(t) :
        /\ timestamp[q] \in Int /\ createdAt[q] \in Int /\ committed[q] \in Int
        /\ timestamp[q] <= createdAt[q] /\ createdAt[q] <= committed[q]
    BY DEF ChainInv, TypeOK, Times, Timed, Rows
<1>3. \A q \in earlier : p # None /\ createdAt[q] <= createdAt[p]
    BY <1>1 DEF ChainInv, Current, Before
<1>4. p # None => p \in earlier
    <2> SUFFICES ASSUME p # None PROVE p \in earlier
        OBVIOUS
    <2>1. p \in Rows(t) /\ p # r /\ committed[p] <= committed[r]
        BY <1>1 DEF ChainInv, Chained
    <2>2. ~Before(r, p)
        BY <1>2, <2>1 DEF Before
    <2> QED BY <2>1, <2>2 DEF Serial
<1>5. ASSUME NEW q \in earlier PROVE q = p \/ Before(q, p)
    <2>1. p \in Rows(t) /\ q \in Rows(t) /\ createdAt[q] <= createdAt[p]
        BY <1>3, <1>4
    <2>2. ~Before(p, q)
        BY <1>2, <2>1 DEF Before
    <2> QED BY <2>1, <2>2 DEF Serial
<1> QED BY <1>3, <1>4, <1>5

\* Without overlapping calls the records of a tenant form one chain, in order.
THEOREM SerialCallsChain == Spec => []SerialChain
BY SerialLinks, ChainInvariance, PTL

\* A step that leaves a loan's stored records alone leaves the verdict alone.
LEMMA SameTrail ==
    ASSUME NEW l \in Loans, Trail(l)' = Trail(l),
           \A r \in Trail(l) : createdAt'[r] = createdAt[r] /\ previousHash'[r] = previousHash[r],
           MayVerify(l)'
    PROVE  MayVerify(l)
<1>1. PICK s \in Listings(l)' : Linked(s)'
    BY DEF MayVerify
<1> DEFINE n == Cardinality(Trail(l))
<1>2. /\ s \in [1..n -> Trail(l)]
      /\ \A r \in Trail(l) : \E i \in 1..n : s[i] = r
      /\ \A i, j \in 1..n : i < j => s[i] # s[j] /\ createdAt'[s[i]] <= createdAt'[s[j]]
    BY <1>1 DEF Listings
<1>3. \A i \in 1..n : s[i] \in Trail(l)
    BY <1>2
<1>4. s \in Listings(l)
    BY <1>2, <1>3 DEF Listings
<1>5. Linked(s)
    BY <1>1, <1>2, <1>3 DEF Linked
<1> QED BY <1>4, <1>5 DEF MayVerify

\* A record stored now is nobody's predecessor, so it can only be the last one
\* of a listing that verifies, and the listing without it verified before.
LEMMA LongerTrail ==
    ASSUME ChainInv, NEW c \in Calls, InsertRecord(c), NEW l \in Loans, loan[c] = l, MayVerify(l)'
    PROVE  MayVerify(l)
<1> DEFINE n == Cardinality(Trail(l))
<1>0. loan' = loan /\ previousHash' = previousHash
    BY DEF InsertRecord
<1>1. PICK s \in Listings(l)' : Linked(s)'
    BY <1>0 DEF MayVerify
<1>2. /\ c \notin Trail(l) /\ Trail(l)' = Trail(l) \cup {c}
      /\ \A r \in Trail(l) : createdAt'[r] = createdAt[r]
    BY DEF ChainInv, TypeOK, InsertRecord, Trail
<1>3. IsFiniteSet(Trail(l)) /\ n \in Nat /\ Cardinality(Trail(l)') = n + 1
    <2>1. IsFiniteSet(Trail(l))
        BY CallsAssumption, FS_Subset DEF Trail
    <2> QED BY <1>2, <2>1, FS_AddElement, FS_CardinalityType
<1>4. /\ s \in [1..(n + 1) -> Trail(l) \cup {c}]
      /\ \A r \in Trail(l) \cup {c} : \E i \in 1..(n + 1) : s[i] = r
      /\ \A i, j \in 1..(n + 1) : i < j => s[i] # s[j] /\ createdAt'[s[i]] <= createdAt'[s[j]]
    BY <1>1, <1>2, <1>3 DEF Listings
<1>5. \A i \in 2..(n + 1) : previousHash[s[i]] = s[i - 1]
    BY <1>0, <1>1, <1>3, <1>4 DEF Linked
<1>6. \A r \in Trail(l) : previousHash[r] # c
    <2> SUFFICES ASSUME NEW r \in Trail(l), previousHash[r] = c PROVE FALSE
        OBVIOUS
    <2>1. r \in Calls /\ stage[r] = "stored" /\ c # None
        BY CallsAssumption DEF Trail
    <2>2. c \in Rows(Tenant(r))
        BY <2>1 DEF ChainInv, Chained
    <2> QED BY <2>2 DEF Rows, InsertRecord
<1>7. PICK k \in 1..(n + 1) : s[k] = c
    BY <1>4
<1>8. k = n + 1
    <2> SUFFICES ASSUME k # n + 1 PROVE FALSE
        OBVIOUS
    <2>1. k + 1 \in 2..(n + 1) /\ k + 1 \in 1..(n + 1) /\ k < k + 1 /\ (k + 1) - 1 = k
        BY <1>3
    <2>2. s[k + 1] \in Trail(l) \cup {c} /\ s[k + 1] # c
        BY <1>4, <1>7, <2>1
    <2>3. previousHash[s[k + 1]] = c
        BY <1>5, <1>7, <2>1
    <2> QED BY <1>6, <2>2, <2>3
<1> DEFINE u == [i \in 1..n |-> s[i]]
<1>9. \A i \in 1..n : i \in 1..(n + 1) /\ i < n + 1
    BY <1>3
<1>10. \A i \in 1..n : s[i] \in Trail(l)
    BY <1>3, <1>4, <1>7, <1>8, <1>9
<1>11. u \in Listings(l)
    <2>1. u \in [1..n -> Trail(l)]
        BY <1>10
    <2>2. ASSUME NEW r \in Trail(l) PROVE \E i \in 1..n : u[i] = r
        <3>1. PICK i \in 1..(n + 1) : s[i] = r
            BY <1>4
        <3>2. i # n + 1
            BY <1>2, <1>7, <1>8, <3>1
        <3>3. i \in 1..n
            BY <1>3, <3>1, <3>2
        <3> QED BY <3>1, <3>3
    <2>3. ASSUME NEW i \in 1..n, NEW j \in 1..n, i < j
          PROVE u[i] # u[j] /\ createdAt[u[i]] <= createdAt[u[j]]
        BY <1>2, <1>4, <1>9, <1>10, <2>3
    <2> QED BY <2>1, <2>2, <2>3 DEF Listings
<1>12. Linked(u)
    <2> SUFFICES ASSUME NEW i \in 1..n, i > 1 PROVE previousHash[u[i]] = u[i - 1]
        BY DEF Linked
    <2>1. i \in 2..(n + 1) /\ i - 1 \in 1..n
        BY <1>3
    <2> QED BY <1>5, <2>1
<1> QED BY <1>11, <1>12 DEF MayVerify

\* A trail found broken is never found whole again.
THEOREM BreaksAreFinal == Spec => BrokenStaysBroken
<1>1. ChainInv /\ [Next]_vars => \A l \in Loans : MayVerify(l)' => MayVerify(l)
    <2> SUFFICES ASSUME ChainInv, [Next]_vars, NEW l \in Loans, MayVerify(l)'
                 PROVE MayVerify(l)
        OBVIOUS
    <2>1. CASE UNCHANGED vars \/ Tick
        <3>1. UNCHANGED <<stage, loan, createdAt, previousHash>>
            BY <2>1 DEF vars, callVars, recordVars, Tick
        <3> QED BY <3>1, SameTrail DEF Trail
    <2>2. ASSUME NEW c \in Calls, CreateRecord(c) \/ FindPrevious(c) \/ TransactionFails(c)
          PROVE MayVerify(l)
        <3>1. /\ Trail(l)' = Trail(l) /\ createdAt' = createdAt
              /\ \A r \in Trail(l) : r # c
            BY <2>2 DEF ChainInv, TypeOK, CreateRecord, FindPrevious, TransactionFails, InTransaction,
                        recordVars, Trail
        <3>2. \A r \in Calls \ {c} : previousHash'[r] = previousHash[r]
            BY <2>2 DEF ChainInv, TypeOK, CreateRecord, FindPrevious, TransactionFails, recordVars
        <3> QED BY <3>1, <3>2, SameTrail DEF Trail
    <2>3. ASSUME NEW c \in Calls, InsertRecord(c) PROVE MayVerify(l)
        <3>1. CASE loan[c] = l
            BY <2>3, <3>1, LongerTrail
        <3>2. CASE loan[c] # l
            <4>1. /\ Trail(l)' = Trail(l) /\ previousHash' = previousHash
                  /\ \A r \in Trail(l) : createdAt'[r] = createdAt[r]
                BY <2>3, <3>2 DEF ChainInv, TypeOK, InsertRecord, Trail
            <4> QED BY <4>1, SameTrail
        <3> QED BY <3>1, <3>2
    <2> QED BY <2>1, <2>2, <2>3 DEF Next
<1> QED BY <1>1, ChainInvariance, PTL DEF Spec, BrokenStaysBroken

-----------------------------------------------------------------------------
(* A trail can be listed.                                                    *)

Below == {pair \in Nat \X Nat : pair[1] < pair[2]}

\* A set of numbers has a least one: the induction over the length of a trail.
LEMMA LeastNumber ==
    ASSUME NEW S, S \subseteq Nat, S # {} PROVE \E n \in S : \A m \in S : n <= m
<1>1. IsWellFoundedOn(Below, Nat)
    BY NatLessThanWellFounded DEF OpToRel, Below
<1>2. \E x \in S : \A y \in S : <<y, x>> \notin Below
    BY <1>1, WFMin
<1>3. \A x, y \in Nat : <<y, x>> \notin Below => x <= y
    BY DEF Below
<1> QED BY <1>2, <1>3

\* Sortings of any set of calls, as findMany sorts a trail.
Sortings(T) ==
    {s \in [1..Cardinality(T) -> T] :
        /\ \A r \in T : \E i \in 1..Cardinality(T) : s[i] = r
        /\ \A i, j \in 1..Cardinality(T) : i < j => s[i] # s[j] /\ createdAt[s[i]] <= createdAt[s[j]]}

LEMMA LatestOfSome ==
    ASSUME TypeOK, NEW T, T \subseteq Calls, T # {}
    PROVE  \E c \in T : \A d \in T : createdAt[d] <= createdAt[c]
<1> DEFINE ages == {MaxTime - createdAt[d] : d \in T}
<1>1. \A d \in T : createdAt[d] \in Nat /\ MaxTime - createdAt[d] \in Nat /\ MaxTime \in Nat
    BY TimeAssumption DEF TypeOK, Times
<1>2. ages \subseteq Nat /\ ages # {}
    BY <1>1
<1>3. PICK n \in ages : \A m \in ages : n <= m
    BY <1>2, LeastNumber
<1>4. PICK c \in T : n = MaxTime - createdAt[c]
    OBVIOUS
<1>5. ASSUME NEW d \in T PROVE createdAt[d] <= createdAt[c]
    <2>1. MaxTime - createdAt[c] <= MaxTime - createdAt[d]
        BY <1>3, <1>4
    <2> QED BY <1>1, <2>1
<1> QED BY <1>5

\* The record of the latest time comes last.
LEMMA SortingsExtend ==
    ASSUME NEW T, IsFiniteSet(T), NEW c \in T, \A d \in T : createdAt[d] <= createdAt[c],
           NEW s \in Sortings(T \ {c})
    PROVE  Sortings(T) # {}
<1> DEFINE n == Cardinality(T)
           u == [i \in 1..n |-> IF i = n THEN c ELSE s[i]]
<1>1. n \in Nat \ {0} /\ Cardinality(T \ {c}) = n - 1
    BY FS_RemoveElement, FS_CardinalityType, FS_EmptySet
<1>2. /\ s \in [1..(n - 1) -> T \ {c}]
      /\ \A r \in T \ {c} : \E i \in 1..(n - 1) : s[i] = r
      /\ \A i, j \in 1..(n - 1) : i < j => s[i] # s[j] /\ createdAt[s[i]] <= createdAt[s[j]]
    BY <1>1 DEF Sortings
<1> HIDE DEF n
<1>3. \A i \in 1..n : i = n \/ (i \in 1..(n - 1) /\ i < n)
    BY <1>1
<1>4. \A i \in 1..(n - 1) : i \in 1..n /\ i # n
    BY <1>1
<1>5. n \in 1..n
    BY <1>1
<1>6. u[n] = c /\ \A i \in 1..(n - 1) : u[i] = s[i] /\ s[i] \in T \ {c}
    BY <1>2, <1>4, <1>5
<1>7. u \in [1..n -> T]
    BY <1>2, <1>3
<1>8. \A r \in T : \E i \in 1..n : u[i] = r
    BY <1>2, <1>4, <1>5, <1>6
<1>9. ASSUME NEW i \in 1..n, NEW j \in 1..n, i < j
      PROVE  u[i] # u[j] /\ createdAt[u[i]] <= createdAt[u[j]]
    <2>1. i \in 1..(n - 1)
        BY <1>1, <1>9
    <2>2. CASE j = n
        BY <1>6, <2>1, <2>2
    <2>3. CASE j # n
        BY <1>2, <1>3, <1>6, <1>9, <2>1, <2>3
    <2> QED BY <2>2, <2>3
<1> HIDE DEF u
<1> QED BY <1>7, <1>8, <1>9 DEF Sortings, n

LEMMA SortingsExist ==
    ASSUME TypeOK, NEW T, T \subseteq Calls PROVE Sortings(T) # {}
<1> DEFINE stuck == {Cardinality(U) : U \in {U \in SUBSET T : Sortings(U) = {}}}
<1>1. \A U \in SUBSET T : IsFiniteSet(U) /\ Cardinality(U) \in Nat
    BY CallsAssumption, FS_Subset, FS_CardinalityType
<1> SUFFICES ASSUME Sortings(T) = {} PROVE FALSE
    OBVIOUS
<1>2. stuck \subseteq Nat /\ stuck # {}
    BY <1>1
<1>3. PICK n \in stuck : \A m \in stuck : n <= m
    BY <1>2, LeastNumber
<1>4. PICK U \in SUBSET T : n = Cardinality(U) /\ Sortings(U) = {}
    BY <1>3
<1>5. CASE U = {}
    <2>1. Cardinality(U) = 0
        BY <1>5, FS_EmptySet
    <2>2. [i \in 1..0 |-> i] \in Sortings(U)
        BY <1>5, <2>1 DEF Sortings
    <2> QED BY <1>4, <2>2
<1>6. CASE U # {}
    <2>1. PICK c \in U : \A d \in U : createdAt[d] <= createdAt[c]
        BY <1>6, LatestOfSome
    <2>2. Cardinality(U \ {c}) = n - 1 /\ n \in Nat /\ n - 1 < n
        BY <1>1, <1>4, FS_RemoveElement
    <2>3. Sortings(U \ {c}) # {}
        <3>1. U \ {c} \in SUBSET T OBVIOUS
        <3>2. Sortings(U \ {c}) = {} => n - 1 \in stuck BY <2>2, <3>1
        <3>3. ~(n <= n - 1) BY <2>2
        <3> QED BY <1>3, <3>2, <3>3
    <2>4. PICK s : s \in Sortings(U \ {c})
        BY <2>3
    <2> QED BY <1>1, <1>4, <2>1, <2>4, SortingsExtend
<1> QED BY <1>5, <1>6

-----------------------------------------------------------------------------
(* The trail of a loan.                                                      *)

\* Where calls do not overlap, the times of the records are the order of the calls.
LEMMA SerialTimes ==
    ASSUME ChainInv, NEW t, Serial(t), NEW a \in Rows(t), NEW b \in Rows(t)
    PROVE  /\ createdAt[a] \in Int /\ createdAt[b] \in Int
           /\ Before(a, b) <=> createdAt[a] < createdAt[b]
           /\ createdAt[a] = createdAt[b] => a = b
<1>1. \A q \in Rows(t) :
        /\ timestamp[q] \in Int /\ createdAt[q] \in Int /\ committed[q] \in Int
        /\ timestamp[q] <= createdAt[q] /\ createdAt[q] <= committed[q]
    BY DEF ChainInv, TypeOK, Times, Timed, Rows
<1>2. \A p, q \in Rows(t) : Before(p, q) => createdAt[p] < createdAt[q]
    BY <1>1 DEF Before
<1>3. a = b \/ Before(a, b) \/ Before(b, a)
    BY DEF Serial
<1> QED BY <1>1, <1>2, <1>3

\* The record that comes after another one in a listing names it if nothing of the
\* tenant was recorded in between.
LEMMA ContiguousVerifies ==
    ASSUME ChainInv, NEW l \in Loans, Serial(TenantOf[l]),
           \A a, b \in Trail(l), r \in Rows(TenantOf[l]) : Before(a, r) /\ Before(r, b) => r \in Trail(l)
    PROVE  Verifies(l)
<1> DEFINE t == TenantOf[l]
           n == Cardinality(Trail(l))
<1>1. Trail(l) \subseteq Rows(t) /\ t \in Tenants
    BY TenantAssumption DEF Trail, Rows, Tenant
<1>2. IsFiniteSet(Trail(l)) /\ n \in Nat
    BY CallsAssumption, FS_Subset, FS_CardinalityType DEF Trail
<1> SUFFICES ASSUME NEW s \in Listings(l), NEW i \in DOMAIN s, i > 1
             PROVE  previousHash[s[i]] = s[i - 1]
    BY DEF Verifies, Linked
<1>3. /\ s \in [1..n -> Trail(l)]
      /\ \A r \in Trail(l) : \E k \in 1..n : s[k] = r
      /\ \A j, k \in 1..n : j < k => s[j] # s[k] /\ createdAt[s[j]] <= createdAt[s[k]]
    BY DEF Listings
<1>4. i \in 1..n /\ i - 1 \in 1..n /\ i - 1 < i
    BY <1>2, <1>3
<1>5. s[i] \in Rows(t) /\ s[i - 1] \in Rows(t) /\ s[i] \in Trail(l) /\ s[i - 1] \in Trail(l)
    BY <1>1, <1>3, <1>4
<1>6. Before(s[i - 1], s[i])
    <2>1. s[i - 1] # s[i] /\ createdAt[s[i - 1]] <= createdAt[s[i]]
        BY <1>3, <1>4
    <2> QED BY <1>5, <2>1, SerialTimes
<1> DEFINE p == previousHash[s[i]]
<1>7. /\ p \in Rows(t) /\ Before(p, s[i])
      /\ s[i - 1] = p \/ Before(s[i - 1], p)
    <2>1. s[i - 1] \in {q \in Rows(t) : Before(q, s[i])}
        BY <1>5, <1>6
    <2> QED BY <1>1, <1>5, <2>1, SerialLinks DEF SerialChain
<1>8. ASSUME Before(s[i - 1], p) PROVE FALSE
    <2>1. p \in Trail(l)
        BY <1>5, <1>7, <1>8
    <2>2. PICK k \in 1..n : s[k] = p
        BY <1>3, <2>1
    <2>3. /\ createdAt[s[i - 1]] \in Int /\ createdAt[s[i]] \in Int /\ createdAt[s[k]] \in Int
          /\ createdAt[s[i - 1]] < createdAt[s[k]] /\ createdAt[s[k]] < createdAt[s[i]]
        BY <1>5, <1>7, <1>8, <2>2, SerialTimes
    <2>4. k < i - 1 \/ k = i - 1 \/ k = i \/ i < k
        BY <1>2, <1>4
    <2>5. CASE k < i - 1
        <3>1. createdAt[s[k]] <= createdAt[s[i - 1]] BY <1>3, <1>4, <2>5
        <3> QED BY <2>3, <3>1
    <2>6. CASE i < k
        <3>1. createdAt[s[i]] <= createdAt[s[k]] BY <1>3, <1>4, <2>6
        <3> QED BY <2>3, <3>1
    <2> QED BY <2>3, <2>4, <2>5, <2>6
<1> QED BY <1>7, <1>8

\* The first record of a trail that is later than a record of another loan names
\* that one, or a later one, and not the record before it in the listing.
LEMMA VerifiedContiguous ==
    ASSUME ChainInv, NEW l \in Loans, Serial(TenantOf[l]), Verifies(l),
           NEW a \in Trail(l), NEW b \in Trail(l), NEW r \in Rows(TenantOf[l]),
           Before(a, r), Before(r, b)
    PROVE  r \in Trail(l)
<1> SUFFICES ASSUME r \notin Trail(l) PROVE FALSE
    OBVIOUS
<1> DEFINE t == TenantOf[l]
           n == Cardinality(Trail(l))
<1>1. Trail(l) \subseteq Rows(t) /\ t \in Tenants
    BY TenantAssumption DEF Trail, Rows, Tenant
<1>2. IsFiniteSet(Trail(l)) /\ n \in Nat
    BY CallsAssumption, FS_Subset, FS_CardinalityType DEF Trail
<1>3. PICK s \in Listings(l) : Linked(s)
    <2>1. Listings(l) = Sortings(Trail(l)) BY DEF Listings, Sortings
    <2>2. Sortings(Trail(l)) # {} BY SortingsExist DEF ChainInv, Trail
    <2> QED BY <2>1, <2>2 DEF Verifies
<1>4. /\ s \in [1..n -> Trail(l)] /\ DOMAIN s = 1..n
      /\ \A q \in Trail(l) : \E k \in 1..n : s[k] = q
      /\ \A j, k \in 1..n : j < k => s[j] # s[k] /\ createdAt[s[j]] <= createdAt[s[k]]
    BY DEF Listings
<1> DEFINE later == {k \in 1..n : Before(r, s[k])}
<1>5. later \subseteq Nat /\ later # {}
    BY <1>4
<1>6. PICK m \in later : \A k \in later : m <= k
    BY <1>5, LeastNumber
<1>7. m \in 1..n /\ s[m] \in Rows(t) /\ Before(r, s[m])
    BY <1>1, <1>4
<1>8. m > 1
    <2>1. PICK j \in 1..n : s[j] = a
        BY <1>4
    <2>2. /\ createdAt[a] \in Int /\ createdAt[r] \in Int /\ createdAt[s[m]] \in Int
          /\ createdAt[a] < createdAt[r] /\ createdAt[r] < createdAt[s[m]]
        BY <1>1, <1>7, SerialTimes
    <2>3. ~(m <= j)
        <3>1. m < j => createdAt[s[m]] <= createdAt[s[j]] BY <1>4, <1>7
        <3>2. m \in Nat /\ j \in Nat BY <1>7
        <3> QED BY <2>1, <2>2, <3>1, <3>2
    <2> QED BY <1>2, <1>7, <2>3
<1>9. m - 1 \in 1..n /\ ~(m <= m - 1)
    BY <1>2, <1>7, <1>8
<1>10. s[m - 1] \in Trail(l) /\ s[m - 1] \in Rows(t) /\ ~Before(r, s[m - 1]) /\ r # s[m - 1]
    BY <1>1, <1>4, <1>6, <1>9
<1>11. previousHash[s[m]] = s[m - 1]
    BY <1>3, <1>4, <1>7, <1>8 DEF Linked
<1>12. r = s[m - 1] \/ Before(r, s[m - 1])
    <2>1. r \in {q \in Rows(t) : Before(q, s[m])}
        BY <1>7
    <2> QED BY <1>1, <1>7, <1>11, <2>1, SerialLinks DEF SerialChain
<1> QED BY <1>10, <1>12

\* verifyChainIntegrity finds the trail of a loan whole exactly when no record of
\* another loan of the tenant came between two of its own, for any number of calls
\* that do not overlap: the chain is per tenant, the check per loan.
THEOREM ContiguousTrailsVerify == Spec => []ContiguousTrailVerifies
<1>1. ASSUME ChainInv PROVE ContiguousTrailVerifies
    BY <1>1, ContiguousVerifies, VerifiedContiguous DEF ContiguousTrailVerifies
<1> QED BY <1>1, ChainInvariance, PTL

=============================================================================
