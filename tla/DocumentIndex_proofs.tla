------------------------- MODULE DocumentIndex_proofs -------------------------
(* Proofs about DocumentIndex, for any number of calls and any documents and *)
(* queries: chunking skips nothing, a document is stored as a whole, a job   *)
(* says what was stored, nothing is handed out that is not on the audit      *)
(* record, and what is handed out is sound.                                  *)
EXTENDS DocumentIndex, FiniteSetTheorems, SequenceTheorems, TLAPS

-----------------------------------------------------------------------------
(* Induction over data, without an operator for what is shown.               *)

Below == {pair \in Nat \X Nat : pair[1] < pair[2]}

\* Every nonempty set of numbers has a least one.
LEMMA LeastNumber ==
    ASSUME NEW S, S \subseteq Nat, S # {} PROVE \E n \in S : \A m \in S : n <= m
<1>1. IsWellFoundedOn(Below, Nat)
    BY NatLessThanWellFounded DEF OpToRel, Below
<1>2. \E x \in S : \A y \in S : <<y, x>> \notin Below
    BY <1>1, WFMin
<1>3. \A x, y \in Nat : <<y, x>> \notin Below => x <= y
    BY DEF Below
<1> QED BY <1>2, <1>3

\* A set of the numbers up to N that has 0, and with each its successor, has them all.
LEMMA Climb ==
    ASSUME NEW N \in Nat, NEW S, 0 \in S, \A n \in 0 .. N : n \in S /\ n < N => n + 1 \in S
    PROVE  \A n \in 0 .. N : n \in S
<1> SUFFICES ASSUME (0 .. N) \ S # {} PROVE FALSE
    OBVIOUS
<1>1. PICK n \in (0 .. N) \ S : \A m \in (0 .. N) \ S : n <= m
    <2>1. (0 .. N) \ S \subseteq Nat OBVIOUS
    <2> QED BY <2>1, LeastNumber
<1>2. n # 0 /\ n - 1 \in 0 .. N /\ n - 1 \in S
    BY <1>1
<1> QED BY <1>1, <1>2

-----------------------------------------------------------------------------
(* Sums.                                                                     *)

SumsTo(numbers, N, sum) == sum = [n \in 0 .. N |-> IF n = 0 THEN 0 ELSE sum[n - 1] + numbers[n]]

\* The sums of a list exist.
LEMMA SumsExist == ASSUME NEW numbers, NEW N \in Nat PROVE \E sum : SumsTo(numbers, N, sum)
<1> DEFINE S == {n \in Nat : \E sum : SumsTo(numbers, n, sum)}
<1>1. 0 \in S
    <2>1. SumsTo(numbers, 0, [n \in 0 .. 0 |-> 0]) BY DEF SumsTo
    <2> QED BY <2>1
<1>2. ASSUME NEW n \in 0 .. N, n \in S, n < N PROVE n + 1 \in S
    <2>1. PICK sum : SumsTo(numbers, n, sum) BY <1>2
    <2> DEFINE more == [k \in 0 .. n + 1 |-> IF k = n + 1 THEN sum[n] + numbers[n + 1] ELSE sum[k]]
    <2>2. \A k \in 0 .. n : sum[k] = IF k = 0 THEN 0 ELSE sum[k - 1] + numbers[k]
        BY <2>1 DEF SumsTo
    <2>3. \A k \in 0 .. n + 1 : more[k] = IF k = 0 THEN 0 ELSE more[k - 1] + numbers[k]
        BY <2>2
    <2>4. SumsTo(numbers, n + 1, more)
        BY <2>3 DEF SumsTo
    <2> QED BY <2>4
<1> HIDE DEF S
<1>3. N \in S BY <1>1, <1>2, Climb
<1> QED BY <1>3 DEF S

\* What a list adds up to is the last of its sums.
LEMMA TotalIsSum ==
    ASSUME NEW numbers, Len(numbers) \in Nat
    PROVE  \E sum : SumsTo(numbers, Len(numbers), sum) /\ Total(numbers) = sum[Len(numbers)]
BY SumsExist DEF Total, SumsTo

\* Sums of lists that agree up to N agree up to N.
LEMMA SumsAgree ==
    ASSUME NEW a, NEW b, NEW sum, NEW tot, NEW L \in Nat, NEW M \in Nat, NEW N \in Nat, N <= L, N <= M,
           SumsTo(a, L, sum), SumsTo(b, M, tot), \A n \in 1 .. N : a[n] = b[n]
    PROVE  sum[N] = tot[N]
<1> DEFINE S == {n \in 0 .. N : sum[n] = tot[n]}
<1>1. \A n \in 0 .. N : /\ sum[n] = IF n = 0 THEN 0 ELSE sum[n - 1] + a[n]
                        /\ tot[n] = IF n = 0 THEN 0 ELSE tot[n - 1] + b[n]
    BY DEF SumsTo
<1>2. 0 \in S BY <1>1
<1>3. ASSUME NEW n \in 0 .. N, n \in S, n < N PROVE n + 1 \in S
    <2>1. n + 1 \in 1 .. N /\ (n + 1) - 1 = n BY <1>3
    <2>2. sum[n + 1] = sum[n] + a[n + 1] /\ tot[n + 1] = tot[n] + b[n + 1] BY <1>1, <2>1
    <2> QED BY <1>3, <2>1, <2>2
<1> HIDE DEF S
<1>4. N \in S BY <1>2, <1>3, Climb
<1> QED BY <1>4 DEF S

\* What a list adds up to.
LEMMA TotalOf ==
    ASSUME NEW n \in Nat, NEW a, Len(a) = n + 1, NEW b, Len(b) = n, \A k \in 1 .. n : a[k] = b[k]
    PROVE  Total(a) = Total(b) + a[n + 1]
<1>1. PICK sum : SumsTo(a, n + 1, sum) /\ Total(a) = sum[n + 1]
    BY TotalIsSum
<1>2. PICK tot : SumsTo(b, n, tot) /\ Total(b) = tot[n]
    BY TotalIsSum
<1>3. sum[n] = tot[n]
    BY <1>1, <1>2, SumsAgree
<1>4. sum[n + 1] = sum[n] + a[n + 1]
    BY <1>1 DEF SumsTo
<1> QED BY <1>1, <1>2, <1>3, <1>4

\* Nothing adds up to nothing.
LEMMA TotalOfNone == ASSUME NEW a, Len(a) = 0 PROVE Total(a) = 0
BY TotalIsSum DEF SumsTo

\* Numbers add up to a number.
LEMMA TotalIsNat == ASSUME NEW a \in Seq(Nat) PROVE Total(a) \in Nat
<1> DEFINE S == {n \in 0 .. Len(a) : Total([k \in 1 .. n |-> a[k]]) \in Nat}
<1>1. 0 \in S
    BY TotalOfNone
<1>2. ASSUME NEW n \in 0 .. Len(a), n \in S, n < Len(a) PROVE n + 1 \in S
    <2> DEFINE b == [k \in 1 .. n |-> a[k]]
               c == [k \in 1 .. n + 1 |-> a[k]]
    <2>1. Len(b) = n /\ Len(c) = n + 1 /\ (\A k \in 1 .. n : c[k] = b[k]) /\ c[n + 1] = a[n + 1]
        OBVIOUS
    <2>2. Total(c) = Total(b) + a[n + 1]
        <3> HIDE DEF b, c
        <3> QED BY <2>1, TotalOf
    <2>3. a[n + 1] \in Nat /\ Total(b) \in Nat BY <1>2
    <2> HIDE DEF b
    <2> QED BY <1>2, <2>2, <2>3
<1> HIDE DEF S
<1>3. Len(a) \in S
    <2>1. Len(a) \in Nat /\ Len(a) \in 0 .. Len(a) OBVIOUS
    <2>2. \A n \in 0 .. Len(a) : n \in S BY <1>1, <1>2, <2>1, Climb
    <2> QED BY <2>1, <2>2
<1>4. a = [k \in 1 .. Len(a) |-> a[k]] OBVIOUS
<1> QED BY <1>3, <1>4 DEF S

-----------------------------------------------------------------------------
(* Orders.                                                                   *)

RankOf(S, R, x) == Cardinality({y \in S : <<y, x>> \in R})
StrictOrder(S, R) ==
    /\ \A x \in S : <<x, x>> \notin R
    /\ \A x, y, z \in S : <<x, y>> \in R /\ <<y, z>> \in R => <<x, z>> \in R
    /\ \A x, y \in S : x = y \/ <<x, y>> \in R \/ <<y, x>> \in R

\* In a strict order of a finite set every rank is taken.
LEMMA Ranks ==
    ASSUME NEW S, IsFiniteSet(S), NEW R, StrictOrder(S, R)
    PROVE  /\ Cardinality(S) \in Nat
           /\ \A k \in 1 .. Cardinality(S) : \E x \in S : RankOf(S, R, x) = k - 1
           /\ \A x, y \in S : RankOf(S, R, x) < RankOf(S, R, y) => <<x, y>> \in R
<1> DEFINE above(x) == {y \in S : <<y, x>> \in R}
           N == Cardinality(S)
<1>1. N \in Nat BY FS_CardinalityType
<1>2. \A x \in S : IsFiniteSet(above(x)) /\ Cardinality(above(x)) \in Nat /\ Cardinality(above(x)) < N
    <2> TAKE x \in S
    <2>1. above(x) \subseteq S /\ above(x) # S BY DEF StrictOrder
    <2> HIDE DEF above
    <2>2. IsFiniteSet(above(x)) /\ Cardinality(above(x)) <= N /\ Cardinality(above(x)) # N
        BY <2>1, FS_Subset
    <2> QED BY <1>1, <2>2, FS_CardinalityType
<1>3. \A x, y \in S : <<x, y>> \in R => Cardinality(above(x)) < Cardinality(above(y))
    <2> SUFFICES ASSUME NEW x \in S, NEW y \in S, <<x, y>> \in R
                 PROVE  Cardinality(above(x)) < Cardinality(above(y))
        OBVIOUS
    <2>1. above(x) \subseteq above(y) /\ above(x) # above(y) BY DEF StrictOrder
    <2>2. IsFiniteSet(above(y)) /\ Cardinality(above(x)) \in Nat /\ Cardinality(above(y)) \in Nat BY <1>2
    <2> HIDE DEF above
    <2>3. Cardinality(above(x)) <= Cardinality(above(y)) /\ Cardinality(above(x)) # Cardinality(above(y))
        BY <2>1, <2>2, FS_Subset
    <2> QED BY <2>2, <2>3
<1>4. \A x, y \in S : Cardinality(above(x)) < Cardinality(above(y)) => <<x, y>> \in R
    <2> SUFFICES ASSUME NEW x \in S, NEW y \in S, Cardinality(above(x)) < Cardinality(above(y)),
                        <<x, y>> \notin R
                 PROVE  FALSE
        OBVIOUS
    <2>1. x = y \/ <<y, x>> \in R BY DEF StrictOrder
    <2> HIDE DEF above
    <2>2. Cardinality(above(x)) \in Nat /\ Cardinality(above(y)) \in Nat BY <1>2
    <2>3. x # y BY <2>2
    <2>4. Cardinality(above(y)) < Cardinality(above(x)) BY <1>3, <2>1, <2>3
    <2> QED BY <2>2, <2>4
<1> DEFINE rank == [x \in S |-> Cardinality(above(x))]
           taken == {rank[x] : x \in S}
<1>5. rank \in Injection(S, 0 .. N - 1)
    <2>1. rank \in [S -> 0 .. N - 1]
        <3> HIDE DEF above
        <3> QED BY <1>1, <1>2
    <2>2. \A x, y \in S : rank[x] = rank[y] => x = y
        <3> SUFFICES ASSUME NEW x \in S, NEW y \in S, rank[x] = rank[y], x # y PROVE FALSE
            OBVIOUS
        <3>1. <<x, y>> \in R \/ <<y, x>> \in R BY DEF StrictOrder
        <3>2. Cardinality(above(x)) = Cardinality(above(y)) /\ Cardinality(above(x)) \in Nat BY <1>2
        <3> HIDE DEF above
        <3> QED BY <1>3, <3>1, <3>2
    <2> HIDE DEF rank
    <2> QED BY <2>1, <2>2 DEF Injection, IsInjective
<1>6. IsFiniteSet(0 .. N - 1) /\ Cardinality(0 .. N - 1) = N
    BY <1>1, FS_Interval
<1>7. rank \in Surjection(S, 0 .. N - 1)
    <2> HIDE DEF rank
    <2> QED BY <1>5, <1>6, FS_Injection
<1>8. \A k \in 1 .. N : \E x \in S : rank[x] = k - 1
    <2>1. \A m \in 0 .. N - 1 : \E x \in S : rank[x] = m
        <3> HIDE DEF rank
        <3> QED BY <1>7 DEF Surjection
    <2>2. \A k \in 1 .. N : k - 1 \in 0 .. N - 1 BY <1>1
    <2> HIDE DEF rank
    <2> QED BY <2>1, <2>2
<1> QED BY <1>1, <1>4, <1>8 DEF RankOf

\* A list of the members of a set by their ranks is in order, and has each of them once.
Lists(f, S, R) ==
    /\ f \in [1 .. Cardinality(S) -> S] /\ Cardinality(S) \in Nat
    /\ \A i, j \in 1 .. Cardinality(S) : i < j => <<f[i], f[j]>> \in R

\* A function that is everywhere the member of a rank lists the set in its order.
LEMMA Ordered ==
    ASSUME NEW S, IsFiniteSet(S), NEW R, StrictOrder(S, R), NEW f, f = [k \in 1 .. Cardinality(S) |-> f[k]],
           \A k \in 1 .. Cardinality(S) : f[k] \in S /\ RankOf(S, R, f[k]) = k - 1
    PROVE  Lists(f, S, R)
<1>1. \A i, j \in 1 .. Cardinality(S) : i < j => RankOf(S, R, f[i]) < RankOf(S, R, f[j])
    OBVIOUS
<1>2. \A i, j \in 1 .. Cardinality(S) : i < j => <<f[i], f[j]>> \in R
    BY <1>1, Ranks
<1> QED BY <1>2, Ranks DEF Lists

\* Numbers up to a bound are finitely many, and each rank among them is taken.
LEMMA NumbersRank ==
    ASSUME NEW L \in Nat, NEW F, F \subseteq 1 .. L
    PROVE  /\ IsFiniteSet(F) /\ Cardinality(F) \in Nat /\ Cardinality(F) <= L
           /\ StrictOrder(F, Below)
           /\ \A x \in F : RankOf(F, Below, x) = Cardinality({y \in F : y < x})
           /\ \A k \in 1 .. Cardinality(F) : \E x \in F : Cardinality({y \in F : y < x}) = k - 1
<1>1. IsFiniteSet(F) /\ Cardinality(F) \in Nat /\ Cardinality(F) <= L
    <2>1. IsFiniteSet(1 .. L) /\ Cardinality(1 .. L) = IF 1 > L THEN 0 ELSE L - 1 + 1
        <3>1. 1 \in Int /\ L \in Int OBVIOUS
        <3> QED BY ONLY <3>1, FS_Interval
    <2>2. F \in SUBSET (1 .. L) OBVIOUS
    <2>3. IsFiniteSet(F) /\ Cardinality(F) <= Cardinality(1 .. L) BY <2>1, <2>2, FS_Subset
    <2> QED BY <2>1, <2>3, FS_CardinalityType
<1>2. StrictOrder(F, Below)
    BY DEF StrictOrder, Below
<1>3. \A x \in F : RankOf(F, Below, x) = Cardinality({y \in F : y < x})
    <2> SUFFICES ASSUME NEW x \in F PROVE RankOf(F, Below, x) = Cardinality({y \in F : y < x})
        OBVIOUS
    <2>1. \A y \in F : <<y, x>> \in Below <=> y < x BY DEF Below
    <2>2. {y \in F : <<y, x>> \in Below} = {y \in F : y < x} BY <2>1
    <2> QED BY <2>2 DEF RankOf
<1>4. \A k \in 1 .. Cardinality(F) : \E x \in F : Cardinality({y \in F : y < x}) = k - 1
    <2>1. IsFiniteSet(F) BY <1>1
    <2>2. \A k \in 1 .. Cardinality(F) : \E x \in F : RankOf(F, Below, x) = k - 1
        <3>1. PICK R : R = Below OBVIOUS
        <3>2. StrictOrder(F, R) BY <1>2, <3>1
        <3>3. \A k \in 1 .. Cardinality(F) : \E x \in F : RankOf(F, R, x) = k - 1
            BY ONLY <2>1, <3>2, Ranks
        <3> QED BY <3>1, <3>3
    <2> QED BY <1>3, <2>2, Zenon
<1> QED BY <1>1, <1>2, <1>3, <1>4

\* Listed by their ranks, they ascend.
LEMMA Ascending ==
    ASSUME NEW L \in Nat, NEW F, F \subseteq 1 .. L, NEW kept,
           kept = [k \in 1 .. Cardinality(F) |-> CHOOSE x \in F : Cardinality({y \in F : y < x}) = k - 1]
    PROVE  /\ Cardinality(F) \in Nat /\ Cardinality(F) <= L /\ DOMAIN kept = 1 .. Cardinality(F)
           /\ \A k \in 1 .. Cardinality(F) : kept[k] \in F
           /\ \A i, j \in 1 .. Cardinality(F) : i < j => kept[i] < kept[j]
<1>1. /\ IsFiniteSet(F) /\ Cardinality(F) \in Nat /\ Cardinality(F) <= L
      /\ StrictOrder(F, Below)
      /\ \A x \in F : RankOf(F, Below, x) = Cardinality({y \in F : y < x})
    BY NumbersRank
<1>2. \A k \in 1 .. Cardinality(F) : \E x \in F : Cardinality({y \in F : y < x}) = k - 1
    BY NumbersRank
<1>3. \A k \in 1 .. Cardinality(F) : kept[k] \in F /\ RankOf(F, Below, kept[k]) = k - 1
    <2> SUFFICES ASSUME NEW k \in 1 .. Cardinality(F)
                 PROVE  kept[k] \in F /\ RankOf(F, Below, kept[k]) = k - 1
        OBVIOUS
    <2>1. kept[k] \in F /\ Cardinality({y \in F : y < kept[k]}) = k - 1 BY <1>2
    <2> QED BY <1>1, <2>1
<1>4. kept = [k \in 1 .. Cardinality(F) |-> kept[k]]
    <2> DEFINE e(k) == CHOOSE x \in F : Cardinality({y \in F : y < x}) = k - 1
    <2>1. kept = [k \in 1 .. Cardinality(F) |-> e(k)] OBVIOUS
    <2> HIDE DEF e
    <2> QED BY ONLY <2>1
<1>5. Lists(kept, F, Below)
    BY ONLY <1>1, <1>3, <1>4, Ordered
<1>6. \A i, j \in 1 .. Cardinality(F) : i < j => kept[i] < kept[j]
    BY <1>3, <1>5 DEF Lists, Below
<1> QED BY <1>1, <1>3, <1>6

-----------------------------------------------------------------------------
(* What a search makes of its hits.                                          *)

\* Deduplication drops hits and leaves no two of one position.
LEMMA DeduplicatedAre ==
    ASSUME NEW H, NEW hits \in Seq(H), NEW d, d = DeduplicateChunks(hits)
    PROVE  /\ d \in Seq(H) /\ Len(d) <= Len(hits)
           /\ \A n, m \in DOMAIN d : n # m => Key(d[n]) # Key(d[m])
           /\ \A n \in DOMAIN d : \E m \in DOMAIN hits : d[n] = hits[m]
<1> DEFINE F == {n \in DOMAIN hits : \A m \in 1 .. n - 1 : Key(hits[m]) # Key(hits[n])}
<1>1. PICK kept : /\ kept = [k \in 1 .. Cardinality(F) |-> CHOOSE x \in F : Cardinality({y \in F : y < x}) = k - 1]
                  /\ d = [k \in DOMAIN kept |-> hits[kept[k]]]
    BY DEF DeduplicateChunks, InOrder
<1>2. PICK L \in Nat : L = Len(hits) /\ DOMAIN hits = 1 .. L
    OBVIOUS
<1>3. F \subseteq 1 .. L /\ \A n, m \in F : n < m => Key(hits[n]) # Key(hits[m])
    <2>1. F \subseteq 1 .. L BY <1>2
    <2> SUFFICES ASSUME NEW n \in F, NEW m \in F, n < m PROVE Key(hits[n]) # Key(hits[m])
        BY <2>1
    <2>2. n \in 1 .. m - 1 BY <2>1
    <2> QED BY <2>2
<1> HIDE DEF F
<1>4. /\ Cardinality(F) \in Nat /\ Cardinality(F) <= L /\ DOMAIN kept = 1 .. Cardinality(F)
      /\ \A k \in 1 .. Cardinality(F) : kept[k] \in F
      /\ \A i, j \in 1 .. Cardinality(F) : i < j => kept[i] < kept[j]
    BY <1>1, <1>3, Ascending
<1>5. \A i \in 1 .. Cardinality(F) : kept[i] \in 1 .. L /\ d[i] = hits[kept[i]] /\ d[i] \in H
    <2>1. \A i \in 1 .. Cardinality(F) : kept[i] \in 1 .. L /\ d[i] = hits[kept[i]]
        BY <1>1, <1>3, <1>4
    <2> QED BY <1>2, <2>1
<1>6. d \in [1 .. Cardinality(F) -> H]
    BY <1>1, <1>4, <1>5
<1>7. d \in Seq(H) /\ Len(d) = Cardinality(F) /\ DOMAIN d = 1 .. Cardinality(F)
    BY <1>4, <1>6
<1>8. \A n, m \in DOMAIN d : n < m => Key(d[n]) # Key(d[m])
    <2> SUFFICES ASSUME NEW n \in 1 .. Cardinality(F), NEW m \in 1 .. Cardinality(F), n < m
                 PROVE  Key(d[n]) # Key(d[m])
        BY <1>7
    <2> QED BY <1>3, <1>4, <1>5
<1>9. \A n, m \in DOMAIN d : n # m => n < m \/ m < n
    BY <1>4, <1>7
<1> QED BY <1>2, <1>4, <1>5, <1>7, <1>8, <1>9

\* Of two chunks of one source the one that is ranked higher has the higher score.
LEMMA Outranks ==
    ASSUME NEW L \in Nat, L # 0, NEW x \in Nat, NEW y \in Nat, NEW share \in Nat,
           7 * L * x + 3 * share >= 7 * L * y + 3 * share
    PROVE  x >= y
<1> SUFFICES ASSUME x + 1 <= y PROVE FALSE
    OBVIOUS
<1>1. PICK z \in Nat : y = x + 1 + z
    <2>1. y - (x + 1) \in Nat OBVIOUS
    <2> QED BY <2>1
<1>2. L * y = L * x + L + L * z
    BY <1>1
<1>3. L * x \in Nat /\ L * y \in Nat /\ L * z \in Nat /\ 7 * L * x = 7 * (L * x) /\ 7 * L * y = 7 * (L * y)
    OBVIOUS
<1> QED BY <1>2, <1>3

\* Ranking keeps the hits, and puts those of one source in the order of their scores.
LEMMA RankedAre ==
    ASSUME NEW H, \A h \in H : h.score \in Nat, NEW hits \in Seq(H), NEW r, r = RankChunks(hits),
           \A n, m \in DOMAIN hits : n # m => Key(hits[n]) # Key(hits[m])
    PROVE  /\ r \in Seq(H) /\ Len(r) = Len(hits)
           /\ \A n \in DOMAIN r : \E m \in DOMAIN hits : r[n] = hits[m]
           /\ \A n, m \in DOMAIN r : n # m => Key(r[n]) # Key(r[m])
           /\ \A n, m \in DOMAIN r : n < m /\ r[n].source = r[m].source => r[n].score >= r[m].score
<1> DEFINE D == DOMAIN hits
           part(source) == [n \in D |-> IF hits[n].source = source THEN hits[n].score ELSE 0]
           share == [source \in {hits[n].source : n \in D} |-> Total(part(source))]
           boosted == [n \in D |-> 7 * Len(hits) * hits[n].score + 3 * share[hits[n].source]]
           above(n, m) == \/ boosted[n] > boosted[m]
                          \/ boosted[n] = boosted[m] /\ n < m
           order == [k \in 1 .. Cardinality(D) |->
                        CHOOSE x \in D : Cardinality({y \in D : above(y, x)}) = k - 1]
           R == {p \in D \X D : above(p[1], p[2])}
<1>1. r = [k \in DOMAIN order |-> hits[order[k]]]
    BY DEF RankChunks, InOrder
<1>2. \A n \in D : share[hits[n].source] = Total(part(hits[n].source))
    <2> HIDE DEF part
    <2> QED OBVIOUS
<1> HIDE DEF share
<1>3. \A n \in D : boosted[n] = 7 * Len(hits) * hits[n].score + 3 * share[hits[n].source]
    OBVIOUS
<1> HIDE DEF boosted
<1>4. PICK L \in Nat : L = Len(hits) /\ D = 1 .. L
    OBVIOUS
<1>5. \A n \in D : hits[n] \in H /\ hits[n].score \in Nat /\ share[hits[n].source] \in Nat
    <2> SUFFICES ASSUME NEW n \in D PROVE hits[n] \in H /\ hits[n].score \in Nat /\ share[hits[n].source] \in Nat
        OBVIOUS
    <2>1. hits[n] \in H /\ hits[n].score \in Nat BY <1>4
    <2>2. part(hits[n].source) \in Seq(Nat)
        <3>1. \A k \in 1 .. L : hits[k].score \in Nat BY <1>4
        <3>2. part(hits[n].source) \in [1 .. L -> Nat] BY <1>4, <3>1
        <3> HIDE DEF part
        <3> QED BY <3>2
    <2>3. share[hits[n].source] = Total(part(hits[n].source)) BY <1>2
    <2> HIDE DEF part
    <2> QED BY <2>1, <2>2, <2>3, TotalIsNat
<1>6. \A n \in D : boosted[n] = 7 * L * hits[n].score + 3 * share[hits[n].source] /\ boosted[n] \in Nat
    <2> SUFFICES ASSUME NEW n \in D
                 PROVE  /\ boosted[n] = 7 * L * hits[n].score + 3 * share[hits[n].source]
                        /\ boosted[n] \in Nat
        OBVIOUS
    <2>1. PICK x \in Nat, y \in Nat : x = hits[n].score /\ y = share[hits[n].source] BY <1>5
    <2>2. boosted[n] = 7 * L * x + 3 * y BY <1>3, <1>4, <2>1
    <2>3. 7 * L * x + 3 * y \in Nat
        <3>1. 7 * L \in Nat OBVIOUS
        <3>2. 7 * L * x \in Nat BY <3>1
        <3> QED BY <3>2
    <2> QED BY <2>1, <2>2, <2>3
<1> HIDE DEF D
<1>7. StrictOrder(D, R)
    <2>1. \A n, m \in D : <<n, m>> \in R <=> above(n, m) OBVIOUS
    <2>2. \A n \in D : n \in Nat /\ boosted[n] \in Nat BY <1>4, <1>6
    <2> HIDE DEF R
    <2> QED BY <2>1, <2>2 DEF StrictOrder
<1>8. IsFiniteSet(D) /\ Cardinality(D) = L
    <2>1. IsFiniteSet(1 .. L) /\ Cardinality(1 .. L) = IF 1 > L THEN 0 ELSE L - 1 + 1
        <3>1. 1 \in Int /\ L \in Int BY <1>4
        <3> QED BY ONLY <3>1, FS_Interval
    <2> QED BY <1>4, <2>1
<1>9. \A x \in D : RankOf(D, R, x) = Cardinality({y \in D : above(y, x)})
    <2> SUFFICES ASSUME NEW x \in D PROVE RankOf(D, R, x) = Cardinality({y \in D : above(y, x)})
        OBVIOUS
    <2>1. \A y \in D : <<y, x>> \in R <=> above(y, x) OBVIOUS
    <2> HIDE DEF R, above
    <2>2. {y \in D : <<y, x>> \in R} = {y \in D : above(y, x)} BY <2>1
    <2> QED BY <2>2 DEF RankOf
<1> HIDE DEF R, above
<1>10. \A k \in 1 .. L : order[k] \in D /\ RankOf(D, R, order[k]) = k - 1
    <2> SUFFICES ASSUME NEW k \in 1 .. L PROVE order[k] \in D /\ RankOf(D, R, order[k]) = k - 1
        OBVIOUS
    <2>1. \E x \in D : RankOf(D, R, x) = k - 1
        <3> HIDE DEF part, order
        <3>1. IsFiniteSet(D) /\ StrictOrder(D, R) BY <1>7, <1>8
        <3>2. PICK E : E = D OBVIOUS
        <3>3. PICK Q : Q = R OBVIOUS
        <3>4. IsFiniteSet(E) /\ StrictOrder(E, Q) BY <3>1, <3>2, <3>3
        <3>5. \A j \in 1 .. Cardinality(E) : \E x \in E : RankOf(E, Q, x) = j - 1
            BY <3>4, Ranks
        <3>6. \A j \in 1 .. Cardinality(D) : \E x \in D : RankOf(D, R, x) = j - 1
            BY <3>2, <3>3, <3>5
        <3> QED BY <1>8, <3>6
    <2>2. \E x \in D : Cardinality({y \in D : above(y, x)}) = k - 1
        BY <1>9, <2>1
    <2>3. order[k] \in D /\ Cardinality({y \in D : above(y, order[k])}) = k - 1 BY <1>8, <2>2
    <2> QED BY <1>9, <2>3
<1>11. order = [k \in 1 .. L |-> order[k]]
    <2> DEFINE e(k) == CHOOSE x \in D : Cardinality({y \in D : above(y, x)}) = k - 1
    <2>1. order = [k \in 1 .. L |-> e(k)] BY <1>8
    <2> HIDE DEF e
    <2> QED BY <2>1
<1> HIDE DEF order
<1>12. \A i, j \in 1 .. L : i < j => <<order[i], order[j]>> \in R
    <2>1. Lists(order, D, R) BY <1>7, <1>8, <1>10, <1>11, Ordered
    <2> QED BY <1>8, <2>1 DEF Lists
<1>13. r = [k \in 1 .. L |-> hits[order[k]]] /\ \A k \in 1 .. L : hits[order[k]] \in H
    BY <1>1, <1>5, <1>10, <1>11
<1>14. r \in Seq(H) /\ Len(r) = L /\ DOMAIN r = 1 .. L /\ \A k \in 1 .. L : r[k] = hits[order[k]]
    BY <1>13
<1>15. \A i, j \in 1 .. L : i # j => order[i] # order[j]
    <2>1. \A i, j \in 1 .. L : i # j => i < j \/ j < i OBVIOUS
    <2> QED BY <1>7, <1>10, <1>12, <2>1 DEF StrictOrder
<1>16. ASSUME NEW n \in 1 .. L, NEW m \in 1 .. L, n < m, r[n].source = r[m].source
       PROVE  r[n].score >= r[m].score
    <2>1. PICK a \in D : a = order[n] /\ r[n] = hits[a] BY <1>10, <1>14
    <2>2. PICK b \in D : b = order[m] /\ r[m] = hits[b] BY <1>10, <1>14
    <2>3. <<a, b>> \in R BY <1>12, <1>16, <2>1, <2>2
    <2>4. boosted[a] > boosted[b] \/ boosted[a] = boosted[b] BY <2>3 DEF R, above
    <2>5. boosted[a] >= boosted[b] BY <1>6, <2>4
    <2>6. PICK s \in Nat : s = share[hits[a].source] BY <1>5
    <2>7. 7 * L * hits[a].score + 3 * s >= 7 * L * hits[b].score + 3 * s
        <3>1. boosted[a] = 7 * L * hits[a].score + 3 * s BY <1>6, <2>6
        <3>2. boosted[b] = 7 * L * hits[b].score + 3 * s
            <4>1. hits[b].source = hits[a].source BY <1>16, <2>1, <2>2
            <4>2. share[hits[b].source] = s BY <2>6, <4>1
            <4>3. boosted[b] = 7 * L * hits[b].score + 3 * share[hits[b].source] BY <1>6
            <4> QED BY <4>2, <4>3
        <3> QED BY <2>5, <3>1, <3>2
    <2>8. L # 0 OBVIOUS
    <2>9. hits[a].score >= hits[b].score
        BY <1>5, <2>6, <2>7, <2>8, Outranks
    <2> QED BY <2>1, <2>2, <2>9
<1>17. ASSUME NEW n \in 1 .. L, NEW m \in 1 .. L, n # m PROVE Key(r[n]) # Key(r[m])
    <2>1. PICK a \in D : a = order[n] /\ r[n] = hits[a] BY <1>10, <1>14
    <2>2. PICK b \in D : b = order[m] /\ r[m] = hits[b] BY <1>10, <1>14
    <2>3. a # b BY <1>15, <1>17, <2>1, <2>2
    <2> QED BY <2>1, <2>2, <2>3 DEF D
<1> QED BY <1>4, <1>10, <1>14, <1>16, <1>17 DEF D

\* What an analysis is given is the top of the ranking, as far as the budget goes.
LEMMA AssembledAre ==
    ASSUME NEW H, \A h \in H : h.tokens \in Nat, NEW hits \in Seq(H), NEW budget \in Nat,
           NEW a, a = AssembleContext(hits, budget)
    PROVE  \E m \in 0 .. Len(hits) : /\ a = [n \in 1 .. m |-> hits[n]]
                                     /\ Total([n \in 1 .. m |-> hits[n].tokens]) <= budget
<1> DEFINE spent(n) == Total([k \in 1 .. n |-> hits[k].tokens])
<1>1. PICK L \in Nat : L = Len(hits) /\ DOMAIN hits = 1 .. L
    OBVIOUS
<1>2. \A k \in 1 .. L : hits[k].tokens \in Nat
    BY <1>1
<1>3. \A n \in 0 .. L : spent(n) \in Nat
    <2> SUFFICES ASSUME NEW n \in 0 .. L PROVE spent(n) \in Nat
        OBVIOUS
    <2>1. [k \in 1 .. n |-> hits[k].tokens] \in Seq(Nat)
        <3>1. [k \in 1 .. n |-> hits[k].tokens] \in [1 .. n -> Nat] BY <1>1, <1>2
        <3> QED BY <3>1
    <2> QED BY <2>1, TotalIsNat
<1>4. \A n \in 0 .. L : n < L => spent(n + 1) = spent(n) + hits[n + 1].tokens
    <2> SUFFICES ASSUME NEW n \in 0 .. L, n < L PROVE spent(n + 1) = spent(n) + hits[n + 1].tokens
        OBVIOUS
    <2>1. PICK t : t = [k \in 1 .. n + 1 |-> hits[k].tokens] OBVIOUS
    <2>2. PICK b : b = [k \in 1 .. n |-> hits[k].tokens] OBVIOUS
    <2>3. n \in Nat /\ Len(t) = n + 1 /\ Len(b) = n /\ (\A k \in 1 .. n : t[k] = b[k])
          /\ t[n + 1] = hits[n + 1].tokens
        BY <2>1, <2>2
    <2>4. Total(t) = Total(b) + t[n + 1] BY <2>3, TotalOf
    <2> QED BY <2>1, <2>2, <2>3, <2>4
<1>5. spent(0) = 0
    BY TotalOfNone
<1>6. a = [n \in {k \in DOMAIN hits : spent(k) <= budget} |-> hits[n]]
    BY DEF AssembleContext
<1> HIDE DEF spent
<1> DEFINE S == {n \in 0 .. L : n = L \/ spent(n + 1) > budget}
<1>7. PICK m \in S : \A n \in S : m <= n
    <2>1. S \subseteq Nat /\ L \in S OBVIOUS
    <2> HIDE DEF S
    <2> QED BY <2>1, LeastNumber
<1>8. m \in 0 .. L /\ (m = L \/ spent(m + 1) > budget)
    BY <1>7
<1>9. \A k \in 1 .. m : spent(k) <= budget
    <2> SUFFICES ASSUME NEW k \in 1 .. m PROVE spent(k) <= budget
        OBVIOUS
    <2>1. k - 1 \in 0 .. L /\ k - 1 < m /\ k \in 0 .. L /\ (k - 1) + 1 = k BY <1>8
    <2>2. k - 1 \notin S
        <3> HIDE DEF S
        <3>1. ~(m <= k - 1) BY <1>8, <2>1
        <3> QED BY <1>7, <3>1
    <2>3. ~(spent((k - 1) + 1) > budget) BY <2>1, <2>2
    <2> QED BY <1>3, <2>1, <2>3
<1>10. \A k \in 1 .. L : k > m => spent(k) > budget
    <2> DEFINE T == {k \in 0 .. L : k > m => spent(k) > budget}
    <2>1. 0 \in T OBVIOUS
    <2>2. ASSUME NEW n \in 0 .. L, n \in T, n < L PROVE n + 1 \in T
        <3>1. spent(n + 1) \in Nat /\ spent(n) \in Nat /\ hits[n + 1].tokens \in Nat
            BY <1>2, <1>3, <2>2
        <3>2. spent(n + 1) >= spent(n) BY <1>4, <2>2, <3>1
        <3>3. CASE n < m BY <3>3, <2>2
        <3>4. CASE n = m BY <1>7, <2>2, <3>4
        <3>5. CASE n > m BY <2>2, <3>1, <3>2, <3>5
        <3> QED BY <3>3, <3>4, <3>5
    <2> HIDE DEF T
    <2>3. \A k \in 0 .. L : k \in T BY <2>1, <2>2, Climb
    <2> QED BY <2>3 DEF T
<1>11. {k \in DOMAIN hits : spent(k) <= budget} = 1 .. m
    <2>1. \A k \in 1 .. L : spent(k) <= budget <=> k <= m BY <1>3, <1>9, <1>10
    <2> QED BY <1>1, <2>1
<1>12. spent(m) <= budget
    <2>1. m = 0 \/ m \in 1 .. m OBVIOUS
    <2> QED BY <1>5, <1>9, <2>1
<1> QED BY <1>1, <1>6, <1>11, <1>12 DEF spent

-----------------------------------------------------------------------------
(* Flattening.                                                               *)

FlattensTo(seqs, N, flat) ==
    flat = [n \in 1 .. N |-> IF n = 1 THEN seqs[n] ELSE flat[n - 1] \o seqs[n]]

\* The beginnings of a flattened list exist.
LEMMA FlatExists == ASSUME NEW seqs, NEW N \in Nat PROVE \E flat : FlattensTo(seqs, N, flat)
<1> DEFINE S == {n \in Nat : \E flat : FlattensTo(seqs, n, flat)}
<1>1. 0 \in S
    <2>1. FlattensTo(seqs, 0, [n \in 1 .. 0 |-> 0]) BY DEF FlattensTo
    <2> QED BY <2>1
<1>2. ASSUME NEW n \in 0 .. N, n \in S, n < N PROVE n + 1 \in S
    <2>1. PICK flat : FlattensTo(seqs, n, flat) BY <1>2
    <2>2. PICK next : next = IF n + 1 = 1 THEN seqs[n + 1] ELSE flat[n] \o seqs[n + 1] OBVIOUS
    <2> DEFINE more == [k \in 1 .. n + 1 |-> IF k = n + 1 THEN next ELSE flat[k]]
    <2>3. \A k \in 1 .. n : flat[k] = IF k = 1 THEN seqs[k] ELSE flat[k - 1] \o seqs[k]
        BY <2>1 DEF FlattensTo
    <2>4. \A k \in 1 .. n + 1 : more[k] = IF k = 1 THEN seqs[k] ELSE more[k - 1] \o seqs[k]
        BY <2>2, <2>3
    <2>5. FlattensTo(seqs, n + 1, more)
        BY <2>4 DEF FlattensTo
    <2> QED BY <2>5
<1> HIDE DEF S
<1>3. N \in S BY <1>1, <1>2, Climb
<1> QED BY <1>3 DEF S

\* A flattened list is the last of its beginnings.
LEMMA FlattenIsFlat ==
    ASSUME NEW seqs, Len(seqs) \in Nat \ {0}
    PROVE  \E flat : FlattensTo(seqs, Len(seqs), flat) /\ FlattenSeq(seqs) = flat[Len(seqs)]
BY FlatExists DEF FlattenSeq, FlattensTo

\* Lists that agree up to N are flattened alike up to N.
LEMMA FlatsAgree ==
    ASSUME NEW a, NEW b, NEW f, NEW g, NEW L \in Nat, NEW M \in Nat, NEW N \in Nat, 1 <= N, N <= L, N <= M,
           FlattensTo(a, L, f), FlattensTo(b, M, g), \A n \in 1 .. N : a[n] = b[n]
    PROVE  f[N] = g[N]
<1> DEFINE S == {n \in 0 .. N : n = 0 \/ f[n] = g[n]}
<1>1. \A n \in 1 .. N : /\ f[n] = IF n = 1 THEN a[n] ELSE f[n - 1] \o a[n]
                        /\ g[n] = IF n = 1 THEN b[n] ELSE g[n - 1] \o b[n]
    <2> SUFFICES ASSUME NEW n \in 1 .. N
                 PROVE  /\ f[n] = IF n = 1 THEN a[n] ELSE f[n - 1] \o a[n]
                        /\ g[n] = IF n = 1 THEN b[n] ELSE g[n - 1] \o b[n]
        OBVIOUS
    <2>1. n \in 1 .. L /\ n \in 1 .. M OBVIOUS
    <2>2. f[n] = IF n = 1 THEN a[n] ELSE f[n - 1] \o a[n] BY <2>1 DEF FlattensTo
    <2>3. g[n] = IF n = 1 THEN b[n] ELSE g[n - 1] \o b[n] BY <2>1 DEF FlattensTo
    <2> QED BY <2>2, <2>3
<1>2. 0 \in S OBVIOUS
<1>3. ASSUME NEW n \in 0 .. N, n \in S, n < N PROVE n + 1 \in S
    <2>1. n + 1 \in 1 .. N /\ (n + 1) - 1 = n BY <1>3
    <2>2. a[n + 1] = b[n + 1] BY <2>1
    <2>3. CASE n = 0 BY <1>1, <2>1, <2>2, <2>3
    <2>4. CASE n # 0
        <3>1. f[n] = g[n] BY <1>3, <2>4
        <3>2. n + 1 # 1 BY <2>4
        <3>3. f[n + 1] = f[n] \o a[n + 1] /\ g[n + 1] = g[n] \o b[n + 1]
            <4>1. f[n + 1] = f[(n + 1) - 1] \o a[n + 1] BY <1>1, <2>1, <3>2
            <4>2. g[n + 1] = g[(n + 1) - 1] \o b[n + 1] BY <1>1, <2>1, <3>2
            <4> QED BY <2>1, <4>1, <4>2
        <3>4. f[n + 1] = g[n + 1] BY <2>2, <3>1, <3>3, Zenon
        <3> QED BY <1>3, <3>4
    <2> QED BY <2>3, <2>4
<1> HIDE DEF S
<1>4. N \in S BY <1>2, <1>3, Climb
<1> QED BY <1>4 DEF S

\* A list with one more member is flattened to that member after the others.
LEMMA FlattenMore ==
    ASSUME NEW U, NEW n \in Nat, NEW a, NEW b, Len(a) = n + 1, Len(b) = n, a[n + 1] \in Seq(U),
           b \in Seq(Seq(U)), \A k \in 1 .. n : a[k] = b[k]
    PROVE  FlattenSeq(a) = FlattenSeq(b) \o a[n + 1]
<1>1. PICK f : FlattensTo(a, n + 1, f) /\ FlattenSeq(a) = f[n + 1]
    BY FlattenIsFlat
<1>2. n + 1 \in 1 .. n + 1 /\ (n + 1) - 1 = n
    OBVIOUS
<1>3. f[n + 1] = IF n + 1 = 1 THEN a[n + 1] ELSE f[n] \o a[n + 1]
    BY <1>1, <1>2 DEF FlattensTo
<1>4. CASE n = 0
    <2>1. b = << >> /\ FlattenSeq(b) = b BY <1>4 DEF FlattenSeq
    <2>2. << >> \o a[n + 1] = a[n + 1] BY ConcatEmptySeq
    <2>3. f[n + 1] = a[n + 1] BY <1>3, <1>4
    <2> QED BY <1>1, <2>1, <2>2, <2>3
<1>5. CASE n # 0
    <2>1. PICK g : FlattensTo(b, n, g) /\ FlattenSeq(b) = g[n]
        BY <1>5, FlattenIsFlat
    <2>2. f[n] = g[n]
        <3>1. 1 <= n /\ n <= n + 1 /\ n <= n /\ n + 1 \in Nat BY <1>5
        <3>2. FlattensTo(a, n + 1, f) /\ FlattensTo(b, n, g) BY <1>1, <2>1
        <3> QED BY <3>1, <3>2, FlatsAgree
    <2>3. f[n + 1] = f[n] \o a[n + 1]
        <3>1. n + 1 # 1 BY <1>5
        <3> QED BY <1>3, <3>1, Zenon
    <2> QED BY <1>1, <2>1, <2>2, <2>3
<1> QED BY <1>4, <1>5

\* What is appended is said last.
LEMMA FlattenAppend ==
    ASSUME NEW U, NEW list \in Seq(Seq(U)), NEW last \in Seq(U)
    PROVE  FlattenSeq(Append(list, last)) = FlattenSeq(list) \o last
<1>1. PICK n \in Nat : n = Len(list) BY LenProperties
<1>2. PICK more : more = Append(list, last) OBVIOUS
<1>3. Len(more) = n + 1 /\ more[n + 1] = last /\ \A k \in 1 .. n : more[k] = list[k]
    BY <1>1, <1>2, AppendProperties
<1>4. more[n + 1] \in Seq(U) BY <1>3
<1>5. FlattenSeq(more) = FlattenSeq(list) \o more[n + 1] BY <1>1, <1>3, <1>4, FlattenMore
<1> QED BY <1>2, <1>3, <1>5

\* Lists of members of a set are flattened to a list of members of it.
LEMMA FlattenType == ASSUME NEW U, NEW a \in Seq(Seq(U)) PROVE FlattenSeq(a) \in Seq(U)
<1> DEFINE upTo(n) == [k \in 1 .. n |-> a[k]]
           S == {n \in 0 .. Len(a) : FlattenSeq(upTo(n)) \in Seq(U)}
<1>1. 0 \in S
    <2>1. upTo(0) = << >> OBVIOUS
    <2>2. FlattenSeq(<< >>) = << >> BY DEF FlattenSeq
    <2>3. << >> \in Seq(U) /\ 0 \in 0 .. Len(a) OBVIOUS
    <2> QED BY <2>1, <2>2, <2>3
<1>2. ASSUME NEW n \in 0 .. Len(a), n \in S, n < Len(a) PROVE n + 1 \in S
    <2>1. PICK b : b = upTo(n) OBVIOUS
    <2>2. PICK c : c = upTo(n + 1) OBVIOUS
    <2>3. \A k \in 1 .. Len(a) : a[k] \in Seq(U) OBVIOUS
    <2>4. /\ Len(b) = n /\ Len(c) = n + 1 /\ n \in Nat /\ (\A k \in 1 .. n : c[k] = b[k])
          /\ c[n + 1] = a[n + 1]
        BY <1>2, <2>1, <2>2
    <2>5. b \in Seq(Seq(U)) /\ c[n + 1] \in Seq(U)
        <3>1. \A k \in 1 .. n : a[k] \in Seq(U) BY <1>2, <2>3
        <3>2. b \in [1 .. n -> Seq(U)] BY <2>1, <3>1
        <3>3. b \in Seq(Seq(U))
            <4>1. PICK W : W = Seq(U) OBVIOUS
            <4>2. b \in [1 .. n -> W] /\ n \in Nat BY <2>4, <3>2, <4>1
            <4>3. b \in Seq(W) BY <4>2
            <4> QED BY <4>1, <4>3
        <3>4. n + 1 \in 1 .. Len(a) BY <1>2
        <3> QED BY <2>3, <2>4, <3>3, <3>4
    <2>6. FlattenSeq(c) = FlattenSeq(b) \o c[n + 1]
        <3>1. PICK last \in Seq(U) : last = c[n + 1] BY <2>5
        <3>2. c = Append(b, last) BY <1>2, <2>1, <2>2, <2>4, <3>1
        <3> QED BY <2>5, <3>1, <3>2, FlattenAppend
    <2>7. FlattenSeq(b) \in Seq(U) BY <1>2, <2>1
    <2>8. FlattenSeq(c) \in Seq(U) BY <2>5, <2>6, <2>7, ConcatProperties
    <2> QED BY <1>2, <2>2, <2>8
<1> HIDE DEF S
<1>3. Len(a) \in S
    <2>1. Len(a) \in Nat /\ Len(a) \in 0 .. Len(a) OBVIOUS
    <2>2. \A n \in 0 .. Len(a) : n \in S BY <1>1, <1>2, <2>1, Climb
    <2> QED BY <2>1, <2>2
<1>4. a = upTo(Len(a)) OBVIOUS
<1> QED BY <1>3, <1>4 DEF S

-----------------------------------------------------------------------------
(* Segments.                                                                 *)

\* The pieces of a text, by position, and how long one is.
UnitsOf(text) == {unit \in Nat \X Nat : unit[1] \in DOMAIN text /\ unit[2] \in DOMAIN text[unit[1]]}
LengthOf(text, unit) == text[unit[1]][unit[2]].length

\* A piece has a length.
LEMMA UnitsAre ==
    ASSUME NEW text \in Seq(Paragraph), NEW unit \in UnitsOf(text)
    PROVE  LengthOf(text, unit) \in Nat \ {0} /\ unit = <<unit[1], unit[2]>>
<1>1. unit[1] \in DOMAIN text /\ unit[2] \in DOMAIN text[unit[1]] /\ unit = <<unit[1], unit[2]>>
    BY DEF UnitsOf
<1>2. text[unit[1]] \in Paragraph BY <1>1
<1>3. text[unit[1]] \in Seq(Piece) BY <1>2 DEF Paragraph
<1>4. text[unit[1]][unit[2]] \in Piece BY <1>1, <1>3
<1> QED BY <1>1, <1>4 DEF LengthOf, Piece

\* What the n-th piece of a segment adds to its length.
Adds(text, segment, n) == LengthOf(text, segment[n]) + IF n > 1 /\ segment[n][2] = 1 THEN 2 ELSE 0

\* The length of a segment is what its pieces add.
LEMMA SegmentLengthIs ==
    ASSUME NEW text, NEW segment
    PROVE  SegmentLength(text, segment) = Total([n \in DOMAIN segment |-> Adds(text, segment, n)])
BY DEF SegmentLength, Adds, LengthOf

\* What a piece adds is a number.
LEMMA AddsAre ==
    ASSUME NEW text \in Seq(Paragraph), NEW segment \in Seq(UnitsOf(text)), NEW n \in DOMAIN segment
    PROVE  Adds(text, segment, n) \in Nat
<1>1. segment[n] \in UnitsOf(text) OBVIOUS
<1>2. LengthOf(text, segment[n]) \in Nat BY <1>1, UnitsAre
<1> QED BY <1>2 DEF Adds

\* The length of a segment is a number.
LEMMA SegmentLengthIsNat ==
    ASSUME NEW text \in Seq(Paragraph), NEW segment \in Seq(UnitsOf(text))
    PROVE  SegmentLength(text, segment) \in Nat
<1>1. PICK L \in Nat : L = Len(segment) /\ DOMAIN segment = 1 .. L OBVIOUS
<1>2. \A n \in 1 .. L : Adds(text, segment, n) \in Nat BY <1>1, AddsAre
<1>3. [n \in 1 .. L |-> Adds(text, segment, n)] \in [1 .. L -> Nat] BY <1>2
<1>4. [n \in 1 .. L |-> Adds(text, segment, n)] \in Seq(Nat) BY <1>3
<1> QED BY <1>1, <1>4, SegmentLengthIs, TotalIsNat

\* A segment grows by the length of a piece, and by a blank line before the first
\* piece of a further paragraph.
LEMMA SegmentGrows ==
    ASSUME NEW text \in Seq(Paragraph), NEW segment \in Seq(UnitsOf(text)), NEW unit \in UnitsOf(text)
    PROVE  /\ segment \o <<unit>> \in Seq(UnitsOf(text))
           /\ Len(segment \o <<unit>>) = Len(segment) + 1
           /\ SegmentLength(text, segment \o <<unit>>)
                = SegmentLength(text, segment) + LengthOf(text, unit)
                    + IF segment # << >> /\ unit[2] = 1 THEN 2 ELSE 0
<1>1. PICK L \in Nat : L = Len(segment) /\ DOMAIN segment = 1 .. L OBVIOUS
<1>2. PICK more : more = segment \o <<unit>> OBVIOUS
<1>3. <<unit>> \in Seq(UnitsOf(text)) /\ Len(<<unit>>) = 1 /\ <<unit>>[1] = unit OBVIOUS
<1>4. /\ more \in Seq(UnitsOf(text)) /\ Len(more) = L + 1
      /\ \A n \in 1 .. L + 1 : more[n] = IF n <= L THEN segment[n] ELSE <<unit>>[n - L]
    BY <1>1, <1>2, <1>3, ConcatProperties
<1>5. DOMAIN more = 1 .. L + 1 /\ more[L + 1] = unit /\ \A n \in 1 .. L : more[n] = segment[n]
    BY <1>3, <1>4
<1>6. PICK a : a = [n \in 1 .. L + 1 |-> Adds(text, more, n)] OBVIOUS
<1>7. PICK b : b = [n \in 1 .. L |-> Adds(text, segment, n)] OBVIOUS
<1>8. \A n \in 1 .. L : a[n] = b[n]
    BY <1>5, <1>6, <1>7 DEF Adds
<1>9. Len(a) = L + 1 /\ Len(b) = L BY <1>6, <1>7
<1>10. Total(a) = Total(b) + a[L + 1] BY <1>8, <1>9, TotalOf
<1>11. SegmentLength(text, more) = Total(a) /\ SegmentLength(text, segment) = Total(b)
    BY <1>1, <1>5, <1>6, <1>7, SegmentLengthIs
<1>12. a[L + 1] = LengthOf(text, unit) + IF L + 1 > 1 /\ unit[2] = 1 THEN 2 ELSE 0
    BY <1>5, <1>6 DEF Adds
<1>13. L + 1 > 1 <=> segment # << >> BY <1>1
<1>14. LengthOf(text, unit) \in Nat /\ SegmentLength(text, segment) \in Nat
    BY UnitsAre, SegmentLengthIsNat
<1> QED BY <1>1, <1>2, <1>4, <1>10, <1>11, <1>12, <1>13, <1>14

\* A segment without pieces has no length.
LEMMA SegmentLengthOfNone == ASSUME NEW text PROVE SegmentLength(text, << >>) = 0
<1>1. Len([n \in DOMAIN << >> |-> Adds(text, << >>, n)]) = 0 OBVIOUS
<1> QED BY <1>1, SegmentLengthIs, TotalOfNone

\* The first n pieces of a paragraph.
Beginning(i, n) == [j \in 1 .. n |-> <<i, j>>]

\* A paragraph has pieces, and its units are all of them.
LEMMA ParagraphIs ==
    ASSUME NEW text \in Seq(Paragraph), NEW i \in DOMAIN text
    PROVE  \E L \in Nat \ {0} :
              /\ L = Len(text[i]) /\ DOMAIN text[i] = 1 .. L
              /\ Units(i, text[i]) = Beginning(i, L)
              /\ \A j \in 1 .. L : <<i, j>> \in UnitsOf(text)
              /\ \A n \in 0 .. L : Beginning(i, n) \in Seq(UnitsOf(text)) /\ Len(Beginning(i, n)) = n
<1>1. text[i] \in Paragraph /\ i \in Nat OBVIOUS
<1>2. text[i] \in Seq(Piece) /\ text[i] # << >> BY <1>1 DEF Paragraph
<1>3. PICK L \in Nat \ {0} : L = Len(text[i]) /\ DOMAIN text[i] = 1 .. L
    BY <1>2, EmptySeq
<1>4. Units(i, text[i]) = Beginning(i, L) BY <1>3 DEF Units, Beginning
<1>5. \A j \in 1 .. L : <<i, j>> \in UnitsOf(text) BY <1>1, <1>3 DEF UnitsOf
<1>6. ASSUME NEW n \in 0 .. L PROVE Beginning(i, n) \in Seq(UnitsOf(text)) /\ Len(Beginning(i, n)) = n
    <2>1. Beginning(i, n) \in [1 .. n -> UnitsOf(text)] BY <1>5 DEF Beginning
    <2>2. n \in Nat OBVIOUS
    <2> QED BY <2>1, <2>2
<1> QED BY <1>3, <1>4, <1>5, <1>6

\* A beginning grows by its next piece.
LEMMA BeginningGrows ==
    ASSUME NEW U, NEW i, NEW n \in Nat, Beginning(i, n) \in Seq(U), <<i, n + 1>> \in U
    PROVE  Beginning(i, n + 1) = Beginning(i, n) \o << <<i, n + 1>> >>
<1>1. PICK b : b = Beginning(i, n) OBVIOUS
<1>2. b = [j \in 1 .. n |-> <<i, j>>] BY <1>1 DEF Beginning
<1>3. b \in Seq(U) /\ Len(b) = n /\ \A j \in 1 .. n : b[j] = <<i, j>> BY <1>1, <1>2
<1>4. Append(b, <<i, n + 1>>) = b \o << <<i, n + 1>> >> BY <1>3, AppendIsConcat
<1>5. Append(b, <<i, n + 1>>) = [j \in 1 .. n + 1 |-> <<i, j>>]
    <2>1. PICK c : c = Append(b, <<i, n + 1>>) OBVIOUS
    <2>2. /\ c \in Seq(U) /\ Len(c) = n + 1 /\ c[n + 1] = <<i, n + 1>>
          /\ \A j \in 1 .. n : c[j] = <<i, j>>
        BY <1>3, <2>1, AppendProperties
    <2>3. c = [j \in 1 .. n + 1 |-> c[j]] BY <2>2
    <2>4. \A j \in 1 .. n + 1 : c[j] = <<i, j>> BY <2>2
    <2> QED BY <2>1, <2>3, <2>4
<1> QED BY <1>1, <1>4, <1>5 DEF Beginning

\* The first n members of a list.
Begun(list, n) == [k \in 1 .. n |-> list[k]]

\* They are a list of such members themselves.
LEMMA BegunIs ==
    ASSUME NEW U, NEW list \in Seq(U), NEW n \in 0 .. Len(list)
    PROVE  Begun(list, n) \in Seq(U) /\ Len(Begun(list, n)) = n /\ Begun(list, Len(list)) = list
<1>1. n \in Nat /\ \A k \in 1 .. n : list[k] \in U OBVIOUS
<1>2. Begun(list, n) \in [1 .. n -> U] BY <1>1 DEF Begun
<1>3. list = [k \in 1 .. Len(list) |-> list[k]] OBVIOUS
<1> QED BY <1>1, <1>2, <1>3 DEF Begun

\* A beginning of a list grows by its next member.
LEMMA BegunGrows ==
    ASSUME NEW U, NEW list \in Seq(U), NEW n \in Nat, n + 1 \in 1 .. Len(list)
    PROVE  Begun(list, n + 1) = Begun(list, n) \o << list[n + 1] >>
<1>1. PICK next \in U : next = list[n + 1] OBVIOUS
<1>2. n \in 0 .. Len(list) BY SMTT(10)
<1>3. PICK b \in Seq(U) : b = Begun(list, n) /\ Len(b) = n BY <1>2, BegunIs
<1>4. \A k \in 1 .. n : b[k] = list[k] BY <1>3 DEF Begun
<1>5. PICK c : c = Append(b, next) OBVIOUS
<1>6. /\ c \in Seq(U) /\ Len(c) = n + 1 /\ c[n + 1] = next
      /\ \A k \in 1 .. n : c[k] = b[k]
    BY <1>3, <1>5, AppendProperties
<1>7. c = [k \in 1 .. n + 1 |-> c[k]] BY <1>6
<1>8. \A k \in 1 .. n + 1 : c[k] = list[k] BY <1>1, <1>4, <1>6
<1>9. c = Begun(list, n + 1) BY <1>7, <1>8 DEF Begun
<1> QED BY <1>1, <1>3, <1>5, <1>9, AppendIsConcat

\* How the pieces of a text are grouped does not matter for their order.
LEMMA UnitsRegroup ==
    ASSUME NEW text, NEW f \in Seq(UnitsOf(text)), NEW b \in Seq(UnitsOf(text)), NEW u \in Seq(UnitsOf(text))
    PROVE  (f \o b) \o u = f \o (b \o u)
BY ConcatAssociative

\* A segment grows by the length of a paragraph, and by the blank line before it.
LEMMA SegmentGrowsByParagraph ==
    ASSUME NEW text \in Seq(Paragraph), NEW segment \in Seq(UnitsOf(text)), NEW i \in DOMAIN text
    PROVE  /\ Length(text[i]) \in Nat
           /\ SegmentLength(text, segment \o Units(i, text[i]))
                = SegmentLength(text, segment) + (Length(text[i]) + IF segment = << >> THEN 0 ELSE 2)
<1>1. PICK L \in Nat \ {0} :
        /\ L = Len(text[i]) /\ DOMAIN text[i] = 1 .. L
        /\ Units(i, text[i]) = Beginning(i, L)
        /\ \A j \in 1 .. L : <<i, j>> \in UnitsOf(text)
        /\ \A n \in 0 .. L : Beginning(i, n) \in Seq(UnitsOf(text)) /\ Len(Beginning(i, n)) = n
    BY ParagraphIs
<1> DEFINE long(n) == Total([j \in 1 .. n |-> text[i][j].length])
           blank == IF segment = << >> THEN 0 ELSE 2
           S == {n \in 0 .. L :
                   /\ long(n) \in Nat
                   /\ SegmentLength(text, segment \o Beginning(i, n))
                        = SegmentLength(text, segment) + (long(n) + IF n = 0 THEN 0 ELSE blank)}
<1>2. SegmentLength(text, segment) \in Nat BY SegmentLengthIsNat
<1>3. 0 \in S
    <2>1. long(0) = 0 BY TotalOfNone
    <2>2. Beginning(i, 0) = << >> BY DEF Beginning
    <2>3. segment \o << >> = segment BY ConcatEmptySeq
    <2>4. SegmentLength(text, segment \o Beginning(i, 0)) = SegmentLength(text, segment)
        BY <2>2, <2>3
    <2>5. 0 \in 0 .. L OBVIOUS
    <2> HIDE DEF long, blank
    <2> QED BY <1>2, <2>1, <2>4, <2>5
<1>4. ASSUME NEW n \in 0 .. L, n \in S, n < L PROVE n + 1 \in S
    <2>1. n \in Nat /\ n + 1 \in 1 .. L /\ n + 1 \in 0 .. L BY <1>4
    <2>2. PICK unit \in UnitsOf(text) : unit = <<i, n + 1>> BY <1>1, <2>1
    <2>3. PICK begun \in Seq(UnitsOf(text)) : begun = segment \o Beginning(i, n) /\ Len(begun) = Len(segment) + n
        <3>1. Beginning(i, n) \in Seq(UnitsOf(text)) /\ Len(Beginning(i, n)) = n BY <1>1
        <3> HIDE DEF S
        <3>2. /\ segment \o Beginning(i, n) \in Seq(UnitsOf(text))
              /\ Len(segment \o Beginning(i, n)) = Len(segment) + n
            BY <3>1, ConcatProperties
        <3> QED BY <3>2
    <2>4. segment \o Beginning(i, n + 1) = begun \o <<unit>>
        <3>1. Beginning(i, n + 1) = Beginning(i, n) \o <<unit>> BY <1>1, <2>1, <2>2, BeginningGrows
        <3>2. <<unit>> \in Seq(UnitsOf(text)) OBVIOUS
        <3>3. Beginning(i, n) \in Seq(UnitsOf(text)) BY <1>1
        <3>4. PICK b \in Seq(UnitsOf(text)), u \in Seq(UnitsOf(text)) : b = Beginning(i, n) /\ u = <<unit>>
            BY <3>2, <3>3
        <3>5. (segment \o b) \o u = segment \o (b \o u) BY <3>4, UnitsRegroup, SMTT(30)
        <3> QED BY <2>3, <3>1, <3>4, <3>5, Zenon
    <2>5. SegmentLength(text, begun \o <<unit>>)
            = SegmentLength(text, begun) + LengthOf(text, unit)
                + IF begun # << >> /\ unit[2] = 1 THEN 2 ELSE 0
        BY SegmentGrows
    <2>6. LengthOf(text, unit) \in Nat /\ LengthOf(text, unit) = text[i][n + 1].length
        BY <2>2, UnitsAre DEF LengthOf
    <2>7. long(n + 1) = long(n) + text[i][n + 1].length
        <3>1. PICK a : a = [j \in 1 .. n + 1 |-> text[i][j].length] OBVIOUS
        <3>2. PICK b : b = [j \in 1 .. n |-> text[i][j].length] OBVIOUS
        <3>3. /\ Len(a) = n + 1 /\ Len(b) = n /\ (\A k \in 1 .. n : a[k] = b[k])
              /\ a[n + 1] = text[i][n + 1].length
            BY <2>1, <3>1, <3>2
        <3>4. Total(a) = Total(b) + a[n + 1] BY <2>1, <3>3, TotalOf
        <3> QED BY <3>1, <3>2, <3>3, <3>4
    <2>8. (begun # << >> /\ unit[2] = 1) <=> (n = 0 /\ segment # << >>)
        <3>1. unit[2] = 1 <=> n = 0 BY <2>1, <2>2
        <3>2. Len(segment) \in Nat /\ (segment = << >> <=> Len(segment) = 0) BY EmptySeq
        <3>3. Len(begun) \in Nat /\ (begun = << >> <=> Len(begun) = 0) BY EmptySeq
        <3> QED BY <2>1, <2>3, <3>1, <3>2, <3>3
    <2>9. /\ long(n) \in Nat
          /\ SegmentLength(text, begun) = SegmentLength(text, segment) + (long(n) + IF n = 0 THEN 0 ELSE blank)
        BY <1>4, <2>3
    <2> HIDE DEF long
    <2>10. long(n + 1) \in Nat BY <2>6, <2>7, <2>9
    <2>11. SegmentLength(text, begun \o <<unit>>)
            = SegmentLength(text, segment) + (long(n + 1) + blank)
        <3>1. PICK x \in Nat, y \in Nat, z \in Nat :
                x = SegmentLength(text, segment) /\ y = long(n) /\ z = LengthOf(text, unit)
            BY <1>2, <2>6, <2>9
        <3>2. long(n + 1) = y + z BY <2>6, <2>7, <3>1
        <3>3. CASE n = 0
            <4>1. (begun # << >> /\ unit[2] = 1) <=> segment # << >> BY <2>8, <3>3
            <4>2. SegmentLength(text, begun) = x + y BY <2>9, <3>1, <3>3
            <4>3. (IF begun # << >> /\ unit[2] = 1 THEN 2 ELSE 0) = blank
                BY <4>1
            <4>4. blank \in Nat OBVIOUS
            <4> HIDE DEF blank
            <4>5. SegmentLength(text, begun \o <<unit>>) = x + y + z + blank
                BY <2>5, <3>1, <4>2, <4>3
            <4> QED BY <3>1, <3>2, <4>4, <4>5
        <3>4. CASE n # 0
            <4>1. ~(begun # << >> /\ unit[2] = 1) BY <2>8, <3>4
            <4>2. SegmentLength(text, begun) = x + (y + blank) BY <2>9, <3>1, <3>4
            <4>3. SegmentLength(text, begun \o <<unit>>) = SegmentLength(text, begun) + LengthOf(text, unit) + 0
                <5>1. (IF begun # << >> /\ unit[2] = 1 THEN 2 ELSE 0) = 0 BY <4>1
                <5> QED BY <2>5, <5>1
            <4>4. PICK gap \in Nat : gap = blank OBVIOUS
            <4> HIDE DEF blank
            <4>5. SegmentLength(text, begun \o <<unit>>) = x + (y + gap) + z + 0
                BY <3>1, <4>2, <4>3, <4>4
            <4>6. x + (y + gap) + z + 0 = x + ((y + z) + gap) OBVIOUS
            <4>7. x + ((y + z) + gap) = SegmentLength(text, segment) + (long(n + 1) + blank)
                BY <3>1, <3>2, <4>4
            <4> QED BY <4>5, <4>6, <4>7
        <3> QED BY <3>3, <3>4
    <2>12. n + 1 # 0 BY <2>1
    <2> HIDE DEF blank
    <2> QED BY <2>1, <2>4, <2>10, <2>11, <2>12
<1>5. L \in S
    <2> HIDE DEF S
    <2>1. \A n \in 0 .. L : n \in S BY <1>3, <1>4, Climb
    <2> QED BY <2>1
<1>6. Length(text[i]) = long(L) BY <1>1 DEF Length
<1> HIDE DEF long
<1> QED BY <1>1, <1>5, <1>6

-----------------------------------------------------------------------------
(* chunkDocument, from one sentence or paragraph to the next.                *)

\* The segments a text may be cut into.
Fitting(text, size) ==
    {segment \in Seq(UnitsOf(text)) :
        segment # << >> /\ (Len(segment) = 1 \/ SegmentLength(text, segment) <= size)}

\* Where chunking may be, and what it has said so far.
Cutting(text, size) ==
    {s \in [closed : Seq(Fitting(text, size)), current : Seq(UnitsOf(text)), length : Nat] :
        /\ s.length = SegmentLength(text, s.current)
        /\ s.current = << >> \/ Len(s.current) = 1 \/ s.length <= size}
Said(s) == FlattenSeq(s.closed) \o s.current

\* Segments are lists of pieces, and so is what they are flattened to.
LEMMA FittingAre ==
    ASSUME NEW text, NEW size, NEW closed \in Seq(Fitting(text, size))
    PROVE  closed \in Seq(Seq(UnitsOf(text))) /\ FlattenSeq(closed) \in Seq(UnitsOf(text))
<1>1. Fitting(text, size) \subseteq Seq(UnitsOf(text)) BY DEF Fitting
<1>2. closed \in Seq(Seq(UnitsOf(text))) BY <1>1, SeqMonotonic
<1> QED BY <1>2, FlattenType

\* What is closed, open and measured between two steps of chunkDocument.
LEMMA CuttingIs ==
    ASSUME NEW text, NEW size, NEW s \in Cutting(text, size)
    PROVE  /\ s.closed \in Seq(Fitting(text, size)) /\ s.current \in Seq(UnitsOf(text)) /\ s.length \in Nat
           /\ s = [closed |-> s.closed, current |-> s.current, length |-> s.length]
           /\ s.length = SegmentLength(text, s.current)
           /\ s.current = << >> \/ Len(s.current) = 1 \/ s.length <= size
           /\ FlattenSeq(s.closed) \in Seq(UnitsOf(text)) /\ Said(s) \in Seq(UnitsOf(text))
<1>1. s \in [closed : Seq(Fitting(text, size)), current : Seq(UnitsOf(text)), length : Nat]
    BY DEF Cutting
<1>2. FlattenSeq(s.closed) \in Seq(UnitsOf(text)) BY <1>1, FittingAre
<1>3. Said(s) \in Seq(UnitsOf(text)) BY <1>1, <1>2, ConcatProperties DEF Said
<1> QED BY <1>1, <1>2, <1>3 DEF Cutting

\* To close what is open loses nothing.
LEMMA ClosedAre ==
    ASSUME NEW text, NEW size, NEW s \in Cutting(text, size)
    PROVE  Closed(s) \in Seq(Fitting(text, size)) /\ FlattenSeq(Closed(s)) = Said(s)
<1>1. CASE s.current = << >>
    <2>1. Closed(s) = s.closed BY <1>1 DEF Closed
    <2>2. Said(s) = FlattenSeq(s.closed) BY <1>1, CuttingIs, ConcatEmptySeq DEF Said
    <2> QED BY <2>1, <2>2, CuttingIs
<1>2. CASE s.current # << >>
    <2>1. s.current \in Fitting(text, size)
        <3>1. PICK c : c = s.current OBVIOUS
        <3>2. c \in Seq(UnitsOf(text)) /\ c # << >> /\ (Len(c) = 1 \/ SegmentLength(text, c) <= size)
            BY <1>2, <3>1, CuttingIs
        <3> QED BY <3>1, <3>2 DEF Fitting
    <2>2. Closed(s) = Append(s.closed, s.current) BY <1>2 DEF Closed
    <2>3. PICK list \in Seq(Seq(UnitsOf(text))), last \in Seq(UnitsOf(text)) :
            list = s.closed /\ last = s.current
        BY CuttingIs, FittingAre
    <2>4. FlattenSeq(Append(list, last)) = FlattenSeq(list) \o last BY FlattenAppend
    <2>5. FlattenSeq(Closed(s)) = Said(s) BY <2>2, <2>3, <2>4, Zenon DEF Said
    <2>6. Closed(s) \in Seq(Fitting(text, size)) BY <2>1, <2>2, CuttingIs, AppendProperties
    <2> QED BY <2>5, <2>6
<1> QED BY <1>1, <1>2

\* To open a segment closes the one before it, and says what is new after it.
LEMMA OpenAre ==
    ASSUME NEW text, NEW size, NEW s \in Cutting(text, size), NEW units \in Seq(UnitsOf(text)),
           NEW length \in Nat, length = SegmentLength(text, units), Len(units) = 1 \/ length <= size
    PROVE  Open(s, units, length) \in Cutting(text, size) /\ Said(Open(s, units, length)) = Said(s) \o units
<1>1. Closed(s) \in Seq(Fitting(text, size)) /\ FlattenSeq(Closed(s)) = Said(s)
    BY ClosedAre
<1> QED BY <1>1 DEF Open, Cutting, Said

\* To extend the open segment says what is new after it.
LEMMA ExtendedAre ==
    ASSUME NEW text, NEW size, NEW s \in Cutting(text, size), NEW units \in Seq(UnitsOf(text)),
           NEW length \in Nat, SegmentLength(text, s.current \o units) = s.length + length,
           Len(s.current \o units) = 1 \/ s.length + length <= size
    PROVE  /\ Extended(s, units, length) \in Cutting(text, size)
           /\ Said(Extended(s, units, length)) = Said(s) \o units
<1>1. PICK more : more = s.current \o units OBVIOUS
<1>2. PICK long : long = s.length + length OBVIOUS
<1>3. PICK t : t = [closed |-> s.closed, current |-> more, length |-> long] OBVIOUS
<1>4. Extended(s, units, length) = t
    BY <1>1, <1>2, <1>3 DEF Extended
<1>5. more \in Seq(UnitsOf(text)) /\ long \in Nat
    BY <1>1, <1>2, CuttingIs, ConcatProperties
<1>6. t.closed = s.closed /\ t.current = more /\ t.length = long BY <1>3
<1>7. t \in Cutting(text, size)
    <2>1. t \in [closed : Seq(Fitting(text, size)), current : Seq(UnitsOf(text)), length : Nat]
        BY <1>3, <1>5, CuttingIs
    <2>2. long = SegmentLength(text, more) /\ (Len(more) = 1 \/ long <= size) BY <1>1, <1>2
    <2> QED BY <1>6, <2>1, <2>2 DEF Cutting
<1>8. Said(t) = Said(s) \o units
    <2>1. PICK f \in Seq(UnitsOf(text)), c \in Seq(UnitsOf(text)) : f = FlattenSeq(s.closed) /\ c = s.current
        BY CuttingIs
    <2>2. (f \o c) \o units = f \o (c \o units) BY ConcatAssociative
    <2>3. Said(t) = f \o more BY <1>6, <2>1 DEF Said
    <2>4. Said(s) = f \o c BY <2>1 DEF Said
    <2> QED BY <1>1, <2>1, <2>2, <2>3, <2>4
<1> QED BY <1>4, <1>7, <1>8

\* A piece of a paragraph that is split goes into a segment it fits.
LEMMA WithSentenceAre ==
    ASSUME NEW text \in Seq(Paragraph), NEW size \in Nat, NEW s \in Cutting(text, size), NEW unit \in UnitsOf(text),
           unit[2] = 1 => s.current = << >>
    PROVE  /\ WithSentence(s, unit, text, size) \in Cutting(text, size)
           /\ Said(WithSentence(s, unit, text, size)) = Said(s) \o <<unit>>
<1>1. PICK length \in Nat : length = LengthOf(text, unit) BY UnitsAre
<1>2. <<unit>> \in Seq(UnitsOf(text)) /\ Len(<<unit>>) = 1 OBVIOUS
<1>3. s.current \in Seq(UnitsOf(text)) /\ s.length \in Nat /\ s.length = SegmentLength(text, s.current)
    BY CuttingIs
<1>4. SegmentLength(text, s.current \o <<unit>>) = s.length + length
    <2>1. SegmentLength(text, s.current \o <<unit>>)
            = SegmentLength(text, s.current) + LengthOf(text, unit)
                + IF s.current # << >> /\ unit[2] = 1 THEN 2 ELSE 0
        BY <1>3, SegmentGrows
    <2>2. (IF s.current # << >> /\ unit[2] = 1 THEN 2 ELSE 0) = 0 OBVIOUS
    <2> QED BY <1>1, <1>3, <2>1, <2>2
<1>5. CASE s.current # << >> /\ s.length + length > size
    <2>1. WithSentence(s, unit, text, size) = Open(s, <<unit>>, length)
        BY <1>1, <1>5 DEF WithSentence, LengthOf
    <2>2. length = SegmentLength(text, <<unit>>)
        <3>1. << >> \in Seq(UnitsOf(text)) /\ << >> \o <<unit>> = <<unit>> BY <1>2, ConcatEmptySeq
        <3>2. SegmentLength(text, << >> \o <<unit>>) = SegmentLength(text, << >>) + LengthOf(text, unit)
                                                        + IF << >> # << >> /\ unit[2] = 1 THEN 2 ELSE 0
            BY <3>1, SegmentGrows
        <3>3. SegmentLength(text, << >>) = 0 BY SegmentLengthOfNone
        <3>4. (IF << >> # << >> /\ unit[2] = 1 THEN 2 ELSE 0) = 0 OBVIOUS
        <3> QED BY <1>1, <3>1, <3>2, <3>3, <3>4
    <2>3. PICK units \in Seq(UnitsOf(text)) : units = <<unit>> /\ Len(units) = 1 BY <1>2
    <2>4. /\ Open(s, units, length) \in Cutting(text, size)
          /\ Said(Open(s, units, length)) = Said(s) \o units
        BY <2>2, <2>3, OpenAre
    <2> QED BY <2>1, <2>3, <2>4, Zenon
<1>6. CASE ~(s.current # << >> /\ s.length + length > size)
    <2>1. WithSentence(s, unit, text, size) = Extended(s, <<unit>>, length)
        BY <1>1, <1>6 DEF WithSentence, LengthOf
    <2>2. Len(s.current \o <<unit>>) = 1 \/ s.length + length <= size
        <3>1. CASE s.current = << >>
            BY <1>2, <3>1, ConcatEmptySeq
        <3>2. CASE s.current # << >>
            BY <1>3, <1>6, <3>2
        <3> QED BY <3>1, <3>2
    <2> QED BY <1>2, <1>4, <2>1, <2>2, ExtendedAre
<1> QED BY <1>5, <1>6

\* The states of a paragraph's split exist.
SplitsTo(state, N, first, units, text, size) ==
    state = [n \in 0 .. N |-> IF n = 0 THEN first
                              ELSE WithSentence(state[n - 1], units[n], text, size)]

\* They do, for any number of pieces.
LEMMA SplitExists ==
    ASSUME NEW first, NEW units, NEW text, NEW size, NEW N \in Nat
    PROVE  \E state : SplitsTo(state, N, first, units, text, size)
<1> DEFINE S == {n \in Nat : \E state : SplitsTo(state, n, first, units, text, size)}
<1>1. 0 \in S
    <2>1. SplitsTo([n \in 0 .. 0 |-> first], 0, first, units, text, size)
        BY DEF SplitsTo
    <2> QED BY <2>1
<1>2. ASSUME NEW n \in 0 .. N, n \in S, n < N PROVE n + 1 \in S
    <2>1. PICK state : SplitsTo(state, n, first, units, text, size) BY <1>2
    <2>2. PICK next : next = WithSentence(state[n], units[n + 1], text, size) OBVIOUS
    <2> DEFINE more == [k \in 0 .. n + 1 |-> IF k = n + 1 THEN next ELSE state[k]]
    <2>3. \A k \in 0 .. n : state[k] = IF k = 0 THEN first ELSE WithSentence(state[k - 1], units[k], text, size)
        BY <2>1 DEF SplitsTo
    <2>4. \A k \in 0 .. n + 1 : more[k] = IF k = 0 THEN first ELSE WithSentence(more[k - 1], units[k], text, size)
        BY <2>2, <2>3
    <2>5. SplitsTo(more, n + 1, first, units, text, size)
        BY <2>4 DEF SplitsTo
    <2> QED BY <2>5
<1> HIDE DEF S
<1>3. N \in S BY <1>1, <1>2, Climb
<1> QED BY <1>3 DEF S

\* What splitting returns is what its last state closes.
LEMMA SplitIs ==
    ASSUME NEW closed, NEW units, NEW text, NEW size, Len(units) \in Nat
    PROVE  \E state, first : /\ first = [closed |-> closed, current |-> << >>, length |-> 0]
                             /\ SplitsTo(state, Len(units), first, units, text, size)
                             /\ Split(closed, units, text, size) = Closed(state[Len(units)])
<1>1. \E state : /\ SplitsTo(state, Len(units), After(closed), units, text, size)
                 /\ Split(closed, units, text, size) = Closed(state[Len(units)])
    <2>1. \E state : SplitsTo(state, Len(units), After(closed), units, text, size)
        BY SplitExists
    <2> QED BY <2>1 DEF Split, SplitsTo
<1> QED BY <1>1 DEF After

\* What is split leaves out nothing of its pieces: none but the first of them may be
\* the first of a paragraph.
LEMMA SplitAre ==
    ASSUME NEW text \in Seq(Paragraph), NEW size \in Nat, NEW closed \in Seq(Fitting(text, size)),
           NEW units \in Seq(UnitsOf(text)), \A n \in 2 .. Len(units) : units[n][2] # 1
    PROVE  /\ Split(closed, units, text, size) \in Seq(Fitting(text, size))
           /\ FlattenSeq(Split(closed, units, text, size)) = FlattenSeq(closed) \o units
<1>1. PICK N \in Nat : N = Len(units) /\ \A n \in 1 .. N : units[n] \in UnitsOf(text) OBVIOUS
<1>2. \A n \in 0 .. N : Begun(units, n) \in Seq(UnitsOf(text)) BY <1>1, BegunIs
<1>3. Begun(units, N) = units BY <1>1, BegunIs
<1>4. PICK state, first : /\ first = [closed |-> closed, current |-> << >>, length |-> 0]
                          /\ SplitsTo(state, N, first, units, text, size)
                          /\ Split(closed, units, text, size) = Closed(state[N])
    BY <1>1, SplitIs
<1>5. state[0] = first /\ \A n \in 1 .. N : state[n] = WithSentence(state[n - 1], units[n], text, size)
    BY <1>1, <1>4 DEF SplitsTo
<1>6. FlattenSeq(closed) \in Seq(UnitsOf(text)) BY FittingAre
<1> DEFINE S == {n \in 0 .. N : /\ state[n] \in Cutting(text, size)
                                /\ Said(state[n]) = FlattenSeq(closed) \o Begun(units, n)
                                /\ n = 0 => state[n].current = << >>}
<1>7. 0 \in S
    <2>1. first.closed = closed /\ first.current = << >> /\ first.length = 0 BY <1>4
    <2>2. SegmentLength(text, << >>) = 0 BY SegmentLengthOfNone
    <2>3. first \in Cutting(text, size) BY <1>4, <2>1, <2>2 DEF Cutting
    <2>4. Begun(units, 0) = << >> BY DEF Begun
    <2>5. Said(first) = FlattenSeq(closed) \o << >>
        <3>1. Said(first) = FlattenSeq(first.closed) \o first.current BY DEF Said
        <3> QED BY <2>1, <3>1, Zenon
    <2>6. state[0] \in Cutting(text, size) /\ state[0].current = << >>
        BY <1>5, <2>1, <2>3
    <2>7. Said(state[0]) = FlattenSeq(closed) \o Begun(units, 0)
        BY <1>5, <2>4, <2>5, Zenon
    <2>8. 0 \in 0 .. N BY <1>1
    <2> QED BY <2>6, <2>7, <2>8
<1>8. ASSUME NEW n \in 0 .. N, n \in S, n < N PROVE n + 1 \in S
    <2>1. n \in Nat /\ n + 1 \in 1 .. N /\ n + 1 \in 0 .. N /\ (n + 1) - 1 = n BY <1>1, <1>8
    <2>2. PICK unit \in UnitsOf(text) : unit = units[n + 1] BY <1>1, <2>1
    <2>3. PICK s \in Cutting(text, size) :
            /\ s = state[n] /\ Said(s) = FlattenSeq(closed) \o Begun(units, n)
            /\ n = 0 => s.current = << >>
        BY <1>8
    <2>4. state[n + 1] = WithSentence(s, unit, text, size)
        <3>1. state[n + 1] = WithSentence(state[(n + 1) - 1], units[n + 1], text, size) BY <1>5, <2>1
        <3> QED BY <2>1, <2>2, <2>3, <3>1
    <2>5. unit[2] = 1 => s.current = << >>
        <3>1. n # 0 => n + 1 \in 2 .. Len(units) BY <1>1, <2>1
        <3> QED BY <2>2, <2>3, <3>1
    <2>6. state[n + 1] \in Cutting(text, size) /\ Said(state[n + 1]) = Said(s) \o <<unit>>
        <3>1. PICK next : next = WithSentence(s, unit, text, size) OBVIOUS
        <3>2. next \in Cutting(text, size) BY <2>5, <3>1, WithSentenceAre
        <3>3. Said(next) = Said(s) \o <<unit>> BY <2>5, <3>1, WithSentenceAre
        <3> QED BY <2>4, <3>1, <3>2, <3>3
    <2>7. Said(s) \o <<unit>> = FlattenSeq(closed) \o Begun(units, n + 1)
        <3>1. Begun(units, n) \in Seq(UnitsOf(text)) /\ <<unit>> \in Seq(UnitsOf(text)) BY <1>2, <2>1
        <3>2. Begun(units, n + 1) = Begun(units, n) \o <<unit>> BY <1>1, <2>1, <2>2, BegunGrows
        <3>3. PICK f \in Seq(UnitsOf(text)), b \in Seq(UnitsOf(text)) :
                f = FlattenSeq(closed) /\ b = Begun(units, n)
            BY <1>6, <3>1
        <3>4. PICK u \in Seq(UnitsOf(text)) : u = <<unit>> BY <3>1
        <3>5. (f \o b) \o u = f \o (b \o u) BY UnitsRegroup, SMTT(30)
        <3> QED BY <2>3, <3>2, <3>3, <3>4, <3>5
    <2>8. n + 1 # 0 BY <2>1
    <2> QED BY <2>1, <2>6, <2>7, <2>8
<1>9. N \in S
    <2> HIDE DEF S
    <2>1. \A n \in 0 .. N : n \in S BY <1>1, <1>7, <1>8, Climb
    <2> QED BY <1>1, <2>1
<1> QED BY <1>3, <1>4, <1>9, ClosedAre

\* What is left of a paragraph that is split are units of it, of which only the first may
\* begin the paragraph.
LEMMA SplitUnitsAre ==
    ASSUME NEW text \in Seq(Paragraph), NEW i \in DOMAIN text
    PROVE  \E units \in Seq(UnitsOf(text)) :
              units = SplitUnits(i, text[i]) /\ \A n \in 2 .. Len(units) : units[n][2] # 1
<1>1. PICK L \in Nat \ {0} :
        /\ L = Len(text[i]) /\ DOMAIN text[i] = 1 .. L
        /\ Units(i, text[i]) = Beginning(i, L)
        /\ \A j \in 1 .. L : <<i, j>> \in UnitsOf(text)
        /\ \A n \in 0 .. L : Beginning(i, n) \in Seq(UnitsOf(text)) /\ Len(Beginning(i, n)) = n
    BY ParagraphIs
<1> DEFINE F == {j \in DOMAIN text[i] : text[i][j].ends}
<1>2. PICK kept :
        /\ kept = [k \in 1 .. Cardinality(F) |-> CHOOSE x \in F : Cardinality({y \in F : y < x}) = k - 1]
        /\ SplitUnits(i, text[i]) = IF kept = << >> THEN Units(i, text[i])
                                    ELSE [k \in DOMAIN kept |-> <<i, kept[k]>>]
    <2> DEFINE list == [k \in 1 .. Cardinality(F) |-> CHOOSE x \in F : Cardinality({y \in F : y < x}) = k - 1]
    <2>1. SplitUnits(i, text[i]) = IF list = << >> THEN Units(i, text[i])
                                   ELSE [k \in DOMAIN list |-> <<i, list[k]>>]
        BY DEF SplitUnits, InOrder
    <2> HIDE DEF F
    <2> QED BY <2>1, Zenon
<1>3. F \subseteq 1 .. L BY <1>1
<1> HIDE DEF F
<1>4. PICK N \in Nat : /\ N = Cardinality(F) /\ DOMAIN kept = 1 .. N
                       /\ \A k \in 1 .. N : kept[k] \in 1 .. L
                       /\ \A k, j \in 1 .. N : k < j => kept[k] < kept[j]
    <2>1. /\ Cardinality(F) \in Nat /\ DOMAIN kept = 1 .. Cardinality(F)
          /\ \A k \in 1 .. Cardinality(F) : kept[k] \in F
          /\ \A k, j \in 1 .. Cardinality(F) : k < j => kept[k] < kept[j]
        <3>1. L \in Nat OBVIOUS
        <3> QED BY <1>2, <1>3, <3>1, Ascending
    <2> QED BY ONLY <1>3, <2>1
<1>5. CASE kept = << >>
    <2>1. PICK units \in Seq(UnitsOf(text)) : units = Beginning(i, L) /\ Len(units) = L BY <1>1
    <2>2. \A n \in 2 .. Len(units) : units[n][2] # 1 BY <2>1 DEF Beginning
    <2>3. units = SplitUnits(i, text[i]) BY <1>1, <1>2, <1>5, <2>1
    <2> QED BY <2>2, <2>3
<1>6. CASE kept # << >>
    <2>1. PICK units : units = [k \in 1 .. N |-> <<i, kept[k]>>] OBVIOUS
    <2>2. units \in [1 .. N -> UnitsOf(text)] BY <1>1, <1>4, <2>1
    <2>3. units \in Seq(UnitsOf(text)) /\ Len(units) = N BY <2>2
    <2>4. ASSUME NEW n \in 2 .. N PROVE units[n][2] # 1
        <3>1. 1 \in 1 .. N /\ n \in 1 .. N /\ 1 < n OBVIOUS
        <3>2. kept[1] \in 1 .. L /\ kept[n] \in 1 .. L /\ kept[1] < kept[n] BY <1>4, <3>1
        <3>3. units[n][2] = kept[n] BY <2>1, <3>1
        <3> QED BY <3>2, <3>3
    <2>5. units = SplitUnits(i, text[i]) BY <1>2, <1>4, <1>6, <2>1
    <2> QED BY <2>3, <2>4, <2>5
<1> QED BY <1>5, <1>6

\* A paragraph adds what is kept of it, merged, on its own or split.
LEMMA WithParagraphAre ==
    ASSUME NEW text \in Seq(Paragraph), NEW s \in Cutting(text, ChunkSize), NEW i \in DOMAIN text
    PROVE  /\ WithParagraph(s, i, text, ChunkSize) \in Cutting(text, ChunkSize)
           /\ Kept(text, i) \in Seq(UnitsOf(text))
           /\ Said(WithParagraph(s, i, text, ChunkSize)) = Said(s) \o Kept(text, i)
<1>1. ChunkSize \in Nat BY BoundsAssumption
<1>2. PICK some \in Seq(UnitsOf(text)) :
        some = SplitUnits(i, text[i]) /\ \A n \in 2 .. Len(some) : some[n][2] # 1
    BY SplitUnitsAre
<1>3. PICK L \in Nat \ {0} :
        /\ L = Len(text[i])
        /\ Units(i, text[i]) = Beginning(i, L)
        /\ \A n \in 0 .. L : Beginning(i, n) \in Seq(UnitsOf(text))
    BY ParagraphIs
<1>4. PICK units \in Seq(UnitsOf(text)) : units = Units(i, text[i]) BY <1>3
<1>5. PICK length \in Nat :
        /\ length = Length(text[i])
        /\ SegmentLength(text, s.current \o units)
            = SegmentLength(text, s.current) + (length + IF s.current = << >> THEN 0 ELSE 2)
    BY <1>4, CuttingIs, SegmentGrowsByParagraph
<1>6. CASE length > ChunkSize
    <2>1. PICK closed \in Seq(Fitting(text, ChunkSize)) : closed = Closed(s) /\ FlattenSeq(closed) = Said(s)
        BY ClosedAre
    <2>2. PICK more : more = Split(closed, some, text, ChunkSize) OBVIOUS
    <2>3. more \in Seq(Fitting(text, ChunkSize)) BY <1>1, <1>2, <2>2, SplitAre
    <2>4. FlattenSeq(more) = FlattenSeq(closed) \o some BY <1>1, <1>2, <2>2, SplitAre
    <2>5. PICK t : t = [closed |-> more, current |-> << >>, length |-> 0] OBVIOUS
    <2>6. WithParagraph(s, i, text, ChunkSize) = t
        BY <1>2, <1>5, <1>6, <2>1, <2>2, <2>5 DEF WithParagraph, After
    <2>7. t.closed = more /\ t.current = << >> /\ t.length = 0 BY <2>5
    <2>8. t \in Cutting(text, ChunkSize)
        <3>1. SegmentLength(text, << >>) = 0 BY SegmentLengthOfNone
        <3>2. t \in [closed : Seq(Fitting(text, ChunkSize)), current : Seq(UnitsOf(text)), length : Nat]
            BY <2>3, <2>5
        <3> QED BY <2>7, <3>1, <3>2 DEF Cutting
    <2>9. Said(t) = FlattenSeq(more)
        <3>1. Said(t) = FlattenSeq(t.closed) \o t.current BY DEF Said
        <3>2. FlattenSeq(more) \o << >> = FlattenSeq(more) BY <2>3, FittingAre, ConcatEmptySeq
        <3> QED BY <2>7, <3>1, <3>2, Zenon
    <2>10. Kept(text, i) = some BY <1>2, <1>5, <1>6 DEF Kept
    <2> QED BY <2>1, <2>4, <2>6, <2>8, <2>9, <2>10
<1>7. CASE ~(length > ChunkSize)
    <2>1. Kept(text, i) = units BY <1>4, <1>5, <1>7 DEF Kept
    <2>2. s.length \in Nat /\ s.length = SegmentLength(text, s.current) BY CuttingIs
    <2>3. CASE s.current # << >> /\ s.length + 2 + length > ChunkSize
        <3>1. WithParagraph(s, i, text, ChunkSize) = Open(s, units, length)
            BY <1>4, <1>5, <1>7, <2>3 DEF WithParagraph
        <3>2. length = SegmentLength(text, units)
            <4>1. << >> \in Seq(UnitsOf(text)) /\ << >> \o units = units BY ConcatEmptySeq
            <4>2. SegmentLength(text, << >> \o units)
                    = SegmentLength(text, << >>) + (length + IF << >> = << >> THEN 0 ELSE 2)
                BY <1>4, <1>5, <4>1, SegmentGrowsByParagraph
            <4>3. SegmentLength(text, << >>) = 0 BY SegmentLengthOfNone
            <4>4. (IF << >> = << >> THEN 0 ELSE 2) = 0 OBVIOUS
            <4> QED BY <4>1, <4>2, <4>3, <4>4
        <3>3. length <= ChunkSize BY <1>1, <1>7
        <3> QED BY <2>1, <3>1, <3>2, <3>3, OpenAre
    <2>4. CASE ~(s.current # << >> /\ s.length + 2 + length > ChunkSize)
        <3>1. PICK added \in Nat : added = length + IF s.current = << >> THEN 0 ELSE 2 OBVIOUS
        <3>2. WithParagraph(s, i, text, ChunkSize) = Extended(s, units, added)
            BY <1>4, <1>5, <1>7, <2>4, <3>1 DEF WithParagraph
        <3>3. SegmentLength(text, s.current \o units) = s.length + added BY <1>5, <2>2, <3>1
        <3>4. s.length + added <= ChunkSize
            <4>1. CASE s.current = << >>
                <5>1. s.length = 0 BY <2>2, <4>1, SegmentLengthOfNone
                <5> QED BY <1>1, <1>7, <3>1, <4>1, <5>1
            <4>2. CASE s.current # << >>
                BY <1>1, <2>2, <2>4, <3>1, <4>2
            <4> QED BY <4>1, <4>2
        <3> QED BY <2>1, <3>2, <3>3, <3>4, ExtendedAre
    <2> QED BY <2>3, <2>4
<1> QED BY <1>6, <1>7

\* The states of a document's cut exist.
CutsTo(state, N, text, size) ==
    state = [n \in 0 .. N |-> IF n = 0 THEN After(<< >>) ELSE WithParagraph(state[n - 1], n, text, size)]

\* They do, for any number of paragraphs.
LEMMA CutExists == ASSUME NEW text, NEW size, NEW N \in Nat PROVE \E state : CutsTo(state, N, text, size)
<1> DEFINE S == {n \in Nat : \E state : CutsTo(state, n, text, size)}
<1>1. 0 \in S
    <2>1. CutsTo([n \in 0 .. 0 |-> After(<< >>)], 0, text, size) BY DEF CutsTo
    <2> QED BY <2>1
<1>2. ASSUME NEW n \in 0 .. N, n \in S, n < N PROVE n + 1 \in S
    <2>1. PICK state : CutsTo(state, n, text, size) BY <1>2
    <2>2. PICK next : next = WithParagraph(state[n], n + 1, text, size) OBVIOUS
    <2> DEFINE more == [k \in 0 .. n + 1 |-> IF k = n + 1 THEN next ELSE state[k]]
    <2>3. \A k \in 0 .. n : state[k] = IF k = 0 THEN After(<< >>) ELSE WithParagraph(state[k - 1], k, text, size)
        BY <2>1 DEF CutsTo
    <2>4. \A k \in 0 .. n + 1 : more[k] = IF k = 0 THEN After(<< >>) ELSE WithParagraph(more[k - 1], k, text, size)
        BY <2>2, <2>3
    <2>5. CutsTo(more, n + 1, text, size)
        BY <2>4 DEF CutsTo
    <2> QED BY <2>5
<1> HIDE DEF S
<1>3. N \in S BY <1>1, <1>2, Climb
<1> QED BY <1>3 DEF S

\* What chunking keeps of the first n paragraphs.
KeptTo(text, n) == [p \in 1 .. n |-> Kept(text, p)]

\* The segments of a document are what is kept of its paragraphs, in their order, and
\* each of them fits.
LEMMA SegmentsAre ==
    ASSUME NEW text \in Seq(Paragraph)
    PROVE  /\ Segments(text, ChunkSize) \in Seq(Fitting(text, ChunkSize))
           /\ FlattenSeq(Segments(text, ChunkSize)) = FlattenSeq(KeptTo(text, Len(text)))
<1>1. PICK N \in Nat : N = Len(text) /\ DOMAIN text = 1 .. N OBVIOUS
<1>2. PICK state : CutsTo(state, N, text, ChunkSize) /\ Segments(text, ChunkSize) = Closed(state[N])
    <2>1. \E state : CutsTo(state, Len(text), text, ChunkSize) BY <1>1, CutExists
    <2>2. \E state : CutsTo(state, Len(text), text, ChunkSize) /\ Segments(text, ChunkSize) = Closed(state[Len(text)])
        BY <2>1 DEF Segments, CutsTo
    <2> QED BY <1>1, <2>2
<1>3. /\ state[0] = After(<< >>)
      /\ \A n \in 1 .. N : state[n] = WithParagraph(state[n - 1], n, text, ChunkSize)
    BY <1>2 DEF CutsTo
<1> DEFINE S == {n \in 0 .. N : /\ state[n] \in Cutting(text, ChunkSize)
                                /\ KeptTo(text, n) \in Seq(Seq(UnitsOf(text)))
                                /\ Said(state[n]) = FlattenSeq(KeptTo(text, n))}
<1>4. 0 \in S
    <2>1. PICK t : t = After(<< >>) OBVIOUS
    <2>2. t = [closed |-> << >>, current |-> << >>, length |-> 0] BY <2>1 DEF After
    <2>3. t.closed = << >> /\ t.current = << >> /\ t.length = 0 BY <2>2
    <2>4. t \in Cutting(text, ChunkSize)
        <3>1. SegmentLength(text, << >>) = 0 BY SegmentLengthOfNone
        <3>2. t \in [closed : Seq(Fitting(text, ChunkSize)), current : Seq(UnitsOf(text)), length : Nat]
            BY <2>2
        <3> QED BY <2>3, <3>1, <3>2 DEF Cutting
    <2>5. KeptTo(text, 0) = << >> BY DEF KeptTo
    <2>6. FlattenSeq(<< >>) = << >> BY DEF FlattenSeq
    <2>7. Said(t) = << >>
        <3>1. Said(t) = FlattenSeq(t.closed) \o t.current BY DEF Said
        <3>2. << >> \o << >> = << >> OBVIOUS
        <3> QED BY <2>3, <2>6, <3>1, <3>2, Zenon
    <2>8. Said(state[0]) = FlattenSeq(KeptTo(text, 0)) BY <1>3, <2>1, <2>5, <2>6, <2>7
    <2>9. KeptTo(text, 0) \in Seq(Seq(UnitsOf(text)))
        <3>1. PICK W : W = Seq(UnitsOf(text)) OBVIOUS
        <3>2. << >> \in Seq(W) OBVIOUS
        <3> QED BY <2>5, <3>1, <3>2
    <2>10. 0 \in 0 .. N OBVIOUS
    <2> QED BY <1>3, <2>1, <2>4, <2>8, <2>9, <2>10
<1>5. ASSUME NEW n \in 0 .. N, n \in S, n < N PROVE n + 1 \in S
    <2>1. n \in Nat /\ n + 1 \in 1 .. N /\ n + 1 \in 0 .. N /\ n + 1 \in DOMAIN text /\ (n + 1) - 1 = n BY <1>1, <1>5
    <2>2. PICK s \in Cutting(text, ChunkSize) : s = state[n] /\ Said(s) = FlattenSeq(KeptTo(text, n))
        BY <1>5
    <2>3. state[n + 1] = WithParagraph(s, n + 1, text, ChunkSize)
        <3>1. state[n + 1] = WithParagraph(state[(n + 1) - 1], n + 1, text, ChunkSize) BY <1>3, <2>1
        <3> QED BY <2>1, <2>2, <3>1
    <2>4. /\ state[n + 1] \in Cutting(text, ChunkSize) /\ Kept(text, n + 1) \in Seq(UnitsOf(text))
          /\ Said(state[n + 1]) = Said(s) \o Kept(text, n + 1)
        BY <2>1, <2>3, WithParagraphAre
    <2>5. PICK W : W = Seq(UnitsOf(text)) OBVIOUS
    <2>6. PICK b \in Seq(W) : b = KeptTo(text, n) BY <1>5, <2>5
    <2>7. PICK a : a = KeptTo(text, n + 1) OBVIOUS
    <2>8. /\ Len(a) = n + 1 /\ Len(b) = n /\ a[n + 1] = Kept(text, n + 1)
          /\ \A k \in 1 .. n : a[k] = b[k] /\ b[k] \in W
        <3>1. Len(a) = n + 1 /\ Len(b) = n BY <2>1, <2>6, <2>7 DEF KeptTo
        <3>2. a[n + 1] = Kept(text, n + 1) BY <2>1, <2>7 DEF KeptTo
        <3>3. \A k \in 1 .. n : a[k] = b[k] BY <2>1, <2>6, <2>7 DEF KeptTo
        <3> QED BY <3>1, <3>2, <3>3
    <2>9. FlattenSeq(a) = FlattenSeq(b) \o a[n + 1]
        <3>1. b \in Seq(Seq(UnitsOf(text))) /\ a[n + 1] \in Seq(UnitsOf(text)) BY <2>4, <2>5, <2>6, <2>8
        <3>2. Len(a) = n + 1 /\ Len(b) = n /\ n \in Nat /\ \A k \in 1 .. n : a[k] = b[k] BY <2>1, <2>8
        <3> QED BY <3>1, <3>2, FlattenMore
    <2>10. a \in Seq(W)
        <3>1. \A k \in 1 .. n + 1 : k = n + 1 \/ k \in 1 .. n BY <2>1
        <3>2. a[n + 1] \in W BY <2>4, <2>5, <2>8
        <3>3. \A k \in 1 .. n : a[k] \in W BY <2>8
        <3>4. \A k \in 1 .. n + 1 : a[k] \in W BY <3>1, <3>2, <3>3
        <3>5. a = [k \in 1 .. n + 1 |-> a[k]] BY <2>7 DEF KeptTo
        <3>6. a \in [1 .. n + 1 -> W] BY <3>4, <3>5
        <3> QED BY <2>1, <3>6
    <2>11. Said(state[n + 1]) = FlattenSeq(a) BY <2>2, <2>4, <2>6, <2>8, <2>9
    <2> QED BY <2>1, <2>4, <2>5, <2>7, <2>10, <2>11
<1>6. N \in S
    <2> HIDE DEF S
    <2>1. \A n \in 0 .. N : n \in S BY <1>4, <1>5, Climb
    <2> QED BY <2>1
<1> QED BY <1>1, <1>2, <1>6, ClosedAre

-----------------------------------------------------------------------------
(* The ingestions, and the record of the searches.                           *)

\* What is stored of a document.
Stored(i) == {chunk \in Written : chunk[1] = i}

\* Nothing of an ingestion is anywhere before it begins, and its rows come into the
\* table at the commit, all together.
Whole(i) ==
    /\ stage[i] = "idle" => Stored(i) = {} /\ job[i] # "completed" /\ i \notin announced
    /\ stage[i] = "committing" => pending[i] = Chunks(i)
    /\ Stored(i) \in {{}, Chunks(i)}
    /\ stage[i] \in {"completing", "announcing", "answered"} => Stored(i) = Chunks(i)

Truthful(i) ==
    /\ job[i] = "completed" => Stored(i) = Chunks(i)
    /\ i \in announced => stage[i] \in Ended
    /\ i \in announced \/ stage[i] \in {"announcing", "answered"} => job[i] = "completed"

Within(a, b) == \A n \in DOMAIN a : \E m \in DOMAIN b : b[m] = a[n]

Audited(s) ==
    /\ stage[s] = "announcing" => AuditRow(s) \in audits
    /\ stage[s] \notin Ended => answer[s] = << >>
    /\ answer[s] # << >> => AuditRow(s) \in audits /\ Within(answer[s], found[s])

IndexInv ==
    /\ TypeOK
    /\ \A i \in Ingestions : Whole(i) /\ Truthful(i)
    /\ \A s \in Searches : Audited(s)

-----------------------------------------------------------------------------
\* It holds when nothing has been called.
LEMMA InitInv == ASSUME Init PROVE IndexInv
<1>1. TypeOK BY DEF Init, TypeOK, Stages, Ended
<1>2. ASSUME NEW i \in Ingestions PROVE Whole(i) /\ Truthful(i)
    <2>1. Stored(i) = {} /\ stage[i] = "idle" /\ job[i] = "none" /\ i \notin announced
        BY DEF Init, Stored, Written
    <2> QED BY <2>1 DEF Whole, Truthful
<1>3. ASSUME NEW s \in Searches PROVE Audited(s)
    BY DEF Init, Audited, Ended
<1> QED BY <1>1, <1>2, <1>3 DEF IndexInv

(* A step of an ingestion i leaves the others, and the searches, alone.      *)
LEMMA OtherIngestions ==
    ASSUME IndexInv, NEW i \in Ingestions,
           NEW s \in Stages, Goto(i, s),
           \A j \in Ingestions \ {i} :
              /\ pending'[j] = pending[j] /\ job'[j] = job[j] /\ passages'[j] = passages[j]
              /\ Stored(j)' = Stored(j) /\ (j \in announced' <=> j \in announced),
           UNCHANGED <<found, audits, answer>>
    PROVE  /\ stage' \in [Ingestions \cup Searches -> Stages] /\ stage'[i] = s
           /\ \A j \in Ingestions \ {i} : Whole(j)' /\ Truthful(j)'
           /\ \A t \in Searches : Audited(t)'
<1>1. /\ stage' \in [Ingestions \cup Searches -> Stages] /\ stage'[i] = s
      /\ \A c \in (Ingestions \cup Searches) \ {i} : stage'[c] = stage[c]
    BY DEF IndexInv, TypeOK, Goto
<1>2. ASSUME NEW j \in Ingestions \ {i} PROVE Whole(j)' /\ Truthful(j)'
    <2>1. Chunks(j)' = Chunks(j) BY DEF Chunks
    <2> QED BY <1>1, <2>1 DEF IndexInv, Whole, Truthful
<1>3. ASSUME NEW t \in Searches PROVE Audited(t)'
    <2>1. t # i BY CallsAssumption
    <2> QED BY <1>1, <2>1 DEF IndexInv, Audited, AuditRow
<1> QED BY <1>1, <1>2, <1>3

\* Index starts an ingestion that has left nothing yet.
LEMMA IndexStep == ASSUME IndexInv, NEW i \in Ingestions, Index(i) PROVE IndexInv'
<1>1. \A j \in Ingestions : Stored(j)' = Stored(j)
    BY DEF Index, indexVars, Stored, Written
<1>2. TypeOK' /\ stage'[i] = "opening" /\ \A j \in Ingestions \ {i} : passages'[j] = passages[j]
    BY DEF IndexInv, TypeOK, Index, Goto, Stages, searchVars
<1>3. /\ \A j \in Ingestions \ {i} : Whole(j)' /\ Truthful(j)'
      /\ \A t \in Searches : Audited(t)'
    BY <1>1, <1>2, OtherIngestions DEF Index, searchVars, Stages
<1>4. Whole(i)' /\ Truthful(i)'
    BY <1>1, <1>2 DEF IndexInv, Whole, Truthful, Index, Ended
<1> QED BY <1>2, <1>3, <1>4 DEF IndexInv

\* The steps that leave the table alone.
LEMMA TableRests ==
    ASSUME UNCHANGED <<table, removed, passages>>, NEW i \in Ingestions
    PROVE  Stored(i)' = Stored(i) /\ Chunks(i)' = Chunks(i)
BY DEF Stored, Written, Chunks

\* The steps on the job record follow what was stored.
LEMMA JobStep ==
    ASSUME IndexInv, NEW i \in Ingestions,
           CreateIngestionJob(i) \/ CompleteIngestionJob(i) \/ FailIngestionJob(i)
    PROVE  IndexInv'
<1>1. \A j \in Ingestions : Stored(j)' = Stored(j) /\ Chunks(j)' = Chunks(j)
    BY TableRests DEF CreateIngestionJob, CompleteIngestionJob, FailIngestionJob, indexVars
<1>2. PICK s \in {"embedding", "announcing", "failed"} : Goto(i, s)
    BY DEF CreateIngestionJob, CompleteIngestionJob, FailIngestionJob
<1>3. /\ \A j \in Ingestions \ {i} : Whole(j)' /\ Truthful(j)'
      /\ \A t \in Searches : Audited(t)'
      /\ stage' \in [Ingestions \cup Searches -> Stages] /\ stage'[i] = s
    <2>1. s \in Stages BY DEF Stages, Ended
    <2>2. \A j \in Ingestions \ {i} : job'[j] = job[j]
        BY DEF CreateIngestionJob, CompleteIngestionJob, FailIngestionJob, IndexInv, TypeOK
    <2> QED BY <1>1, <1>2, <2>1, <2>2, OtherIngestions
            DEF CreateIngestionJob, CompleteIngestionJob, FailIngestionJob, searchVars
<1>4. TypeOK'
    BY <1>3 DEF IndexInv, TypeOK, CreateIngestionJob, CompleteIngestionJob, FailIngestionJob, searchVars
<1>5. Whole(i)' /\ Truthful(i)'
    <2>1. CASE CreateIngestionJob(i)
        <3>1. s \in {"embedding", "failed"} /\ (job'[i] # "completed" \/ job'[i] = job[i])
            BY <1>2, <1>3, <2>1 DEF IndexInv, TypeOK, CreateIngestionJob, Goto
        <3> QED BY <1>1, <1>3, <2>1 DEF IndexInv, TypeOK, Whole, Truthful, CreateIngestionJob, Goto, Ended
    <2>2. CASE CompleteIngestionJob(i)
        BY <1>1, <1>3, <2>2 DEF IndexInv, TypeOK, Whole, Truthful, CompleteIngestionJob, Goto, Ended
    <2>3. CASE FailIngestionJob(i)
        BY <1>1, <1>3, <2>3 DEF IndexInv, TypeOK, Whole, Truthful, FailIngestionJob, Goto, Ended
    <2> QED BY <2>1, <2>2, <2>3
<1> QED BY <1>3, <1>4, <1>5 DEF IndexInv

\* An INSERT fills the transaction up to all chunks.
LEMMA InsertChunkStep == ASSUME IndexInv, NEW i \in Ingestions, InsertChunk(i) PROVE IndexInv'
<1>1. \A j \in Ingestions : Stored(j)' = Stored(j) /\ Chunks(j)' = Chunks(j)
    BY TableRests DEF InsertChunk, indexVars
<1>2. PICK s \in {"committing", "inserting", "closing"} :
        Goto(i, s) /\ (s = "committing" => pending'[i] = Chunks(i))
    BY DEF InsertChunk
<1>3. /\ \A j \in Ingestions \ {i} : Whole(j)' /\ Truthful(j)'
      /\ \A t \in Searches : Audited(t)'
      /\ stage' \in [Ingestions \cup Searches -> Stages] /\ stage'[i] = s
    <2>1. s \in Stages BY DEF Stages
    <2>2. \A j \in Ingestions \ {i} : pending'[j] = pending[j]
        BY DEF InsertChunk, IndexInv, TypeOK
    <2> QED BY <1>1, <1>2, <2>1, <2>2, OtherIngestions DEF InsertChunk, searchVars
<1>4. TypeOK'
    BY <1>3 DEF IndexInv, TypeOK, InsertChunk, searchVars
<1>5. Whole(i)' /\ Truthful(i)'
    BY <1>1, <1>2, <1>3 DEF IndexInv, Whole, Truthful, InsertChunk, Ended
<1> QED BY <1>3, <1>4, <1>5 DEF IndexInv

\* A COMMIT stores all chunks or, if it is lost, none.
LEMMA CommitChunksStep == ASSUME IndexInv, NEW i \in Ingestions, CommitChunks(i) PROVE IndexInv'
<1>1. pending[i] = Chunks(i) /\ \A chunk \in Chunks(i) : chunk[1] = i
    BY DEF IndexInv, Whole, CommitChunks, Chunks
<1>2. PICK s \in {"completing", "closing"} :
        /\ Goto(i, s)
        /\ table' = table \cup pending[i] \/ (table' = table /\ s = "closing")
    BY DEF CommitChunks
<1>3. \A j \in Ingestions : Chunks(j)' = Chunks(j)
    BY DEF CommitChunks, Chunks
<1>4. \A j \in Ingestions \ {i} : Stored(j)' = Stored(j)
    BY <1>1, <1>2 DEF CommitChunks, Stored, Written
<1>5. Stored(i)' = Chunks(i) \/ (Stored(i)' = Stored(i) /\ s = "closing")
    <2>1. Stored(i) \in {{}, Chunks(i)} BY DEF IndexInv, Whole
    <2>2. CASE table' = table
        BY <1>2, <1>1, <2>2, <2>1 DEF CommitChunks, Stored, Written
    <2>3. CASE table' = table \cup pending[i]
        <3>1. Written' = Written \cup Chunks(i) BY <1>1, <2>3 DEF CommitChunks, Written
        <3>2. Stored(i)' = Stored(i) \cup Chunks(i) BY <1>1, <3>1 DEF Stored
        <3> QED BY <2>1, <3>2
    <2> QED BY <1>2, <2>2, <2>3
<1>6. /\ \A j \in Ingestions \ {i} : Whole(j)' /\ Truthful(j)'
      /\ \A t \in Searches : Audited(t)'
      /\ stage' \in [Ingestions \cup Searches -> Stages] /\ stage'[i] = s
    <2>1. s \in Stages BY DEF Stages
    <2>2. \A j \in Ingestions \ {i} : pending'[j] = pending[j]
        BY DEF CommitChunks, IndexInv, TypeOK
    <2> QED BY <1>2, <1>4, <2>1, <2>2, OtherIngestions DEF CommitChunks, searchVars
<1>7. TypeOK'
    BY <1>6 DEF IndexInv, TypeOK, CommitChunks, searchVars
<1>8. Whole(i)' /\ Truthful(i)'
    BY <1>3, <1>5, <1>6 DEF IndexInv, Whole, Truthful, CommitChunks, Ended
<1> QED BY <1>6, <1>7, <1>8 DEF IndexInv

\* The event is published for a job that is completed.
LEMMA PublishIngestedStep == ASSUME IndexInv, NEW i \in Ingestions, PublishIngested(i) PROVE IndexInv'
<1>1. \A j \in Ingestions : Stored(j)' = Stored(j) /\ Chunks(j)' = Chunks(j)
    BY TableRests DEF PublishIngested, indexVars
<1>2. PICK s \in {"answered", "failed"} : Goto(i, s)
    BY DEF PublishIngested
<1>3. /\ \A j \in Ingestions \ {i} : Whole(j)' /\ Truthful(j)'
      /\ \A t \in Searches : Audited(t)'
      /\ stage' \in [Ingestions \cup Searches -> Stages] /\ stage'[i] = s
    <2>1. s \in Stages BY DEF Stages, Ended
    <2>2. \A j \in Ingestions \ {i} : j \in announced' <=> j \in announced
        BY DEF PublishIngested
    <2> QED BY <1>1, <1>2, <2>1, <2>2, OtherIngestions DEF PublishIngested, searchVars
<1>4. TypeOK'
    BY <1>3 DEF IndexInv, TypeOK, PublishIngested, searchVars
<1>5. Whole(i)' /\ Truthful(i)'
    BY <1>1, <1>3 DEF IndexInv, Whole, Truthful, PublishIngested, Ended
<1> QED BY <1>3, <1>4, <1>5 DEF IndexInv

-----------------------------------------------------------------------------
(* A step of a search leaves the ingestions, and the other searches, alone.  *)
LEMMA OtherSearches ==
    ASSUME IndexInv, NEW s \in Searches, NEW at \in Stages, Goto(s, at),
           UNCHANGED <<pending, job, passages, announced, table, removed>>,
           \A row \in audits : row \in audits',
           \A t \in Searches \ {s} : found'[t] = found[t] /\ answer'[t] = answer[t]
    PROVE  /\ stage' \in [Ingestions \cup Searches -> Stages] /\ stage'[s] = at
           /\ \A i \in Ingestions : Whole(i)' /\ Truthful(i)'
           /\ \A t \in Searches \ {s} : Audited(t)'
<1>1. /\ stage' \in [Ingestions \cup Searches -> Stages] /\ stage'[s] = at
      /\ \A c \in (Ingestions \cup Searches) \ {s} : stage'[c] = stage[c]
    BY DEF IndexInv, TypeOK, Goto
<1>2. ASSUME NEW i \in Ingestions PROVE Whole(i)' /\ Truthful(i)'
    <2>1. i # s /\ Chunks(i)' = Chunks(i) /\ Stored(i)' = Stored(i)
        BY CallsAssumption, TableRests
    <2> QED BY <1>1, <2>1 DEF IndexInv, Whole, Truthful
<1>3. ASSUME NEW t \in Searches \ {s} PROVE Audited(t)'
    BY <1>1 DEF IndexInv, Audited, AuditRow, Within
<1> QED BY <1>1, <1>2, <1>3

\* Steps of a search that hand out nothing and are not waiting for the event.
LEMMA SilentStep ==
    ASSUME IndexInv, NEW s \in Searches, NEW at \in Stages, Goto(s, at), at # "announcing",
           stage[s] \notin Ended,
           UNCHANGED <<pending, job, passages, announced, table, removed, answer>>,
           \A row \in audits : row \in audits',
           \A t \in Searches \ {s} : found'[t] = found[t], DOMAIN found' = Searches
    PROVE  IndexInv'
<1>1. /\ stage' \in [Ingestions \cup Searches -> Stages] /\ stage'[s] = at
      /\ \A i \in Ingestions : Whole(i)' /\ Truthful(i)'
      /\ \A t \in Searches \ {s} : Audited(t)'
    BY OtherSearches
<1>2. TypeOK' BY <1>1 DEF IndexInv, TypeOK
<1>3. Audited(s)' BY <1>1 DEF IndexInv, Audited
<1> QED BY <1>1, <1>2, <1>3 DEF IndexInv

\* A search that begins, or reads the index, hands out nothing.
LEMMA SearchStep ==
    ASSUME IndexInv, NEW s \in Searches, Search(s) \/ SemanticSearch(s)
    PROVE  IndexInv'
<1>1. PICK at \in {"embedding", "auditing", "answered", "failed"} : Goto(s, at)
    BY CallsAssumption DEF Search, SemanticSearch, GivesUp
<1>2. at \in Stages /\ at # "announcing" /\ stage[s] \notin Ended
    BY DEF Stages, Ended, Search, SemanticSearch
<1>3. DOMAIN found' = Searches /\ \A t \in Searches \ {s} : found'[t] = found[t]
    BY DEF IndexInv, TypeOK, Search, SemanticSearch
<1> QED BY <1>1, <1>2, <1>3, SilentStep
        DEF Search, SemanticSearch, ingestVars, indexVars

\* What is handed out is what was found.
LEMMA HandedIsFound == ASSUME NEW s \in Searches PROVE Within(Handed(s), found[s])
BY DEF Within, Handed, AssembleContext

\* The audit record is written before anything is handed out.
LEMMA WriteRetrievalAuditStep ==
    ASSUME IndexInv, NEW s \in Searches, WriteRetrievalAudit(s)
    PROVE  IndexInv'
<1>1. PICK at \in {"announcing", "answered", "failed"} : Goto(s, at)
    BY CallsAssumption DEF WriteRetrievalAudit, GivesUp
<1>2. /\ at \in Stages /\ DOMAIN answer' = Searches
      /\ \A t \in Searches \ {s} : answer'[t] = answer[t]
      /\ \A row \in audits : row \in audits'
      /\ UNCHANGED <<pending, job, passages, announced, table, removed, found>>
    BY DEF IndexInv, TypeOK, Stages, Ended, WriteRetrievalAudit, ingestVars, indexVars
<1>3. /\ stage' \in [Ingestions \cup Searches -> Stages] /\ stage'[s] = at
      /\ \A i \in Ingestions : Whole(i)' /\ Truthful(i)'
      /\ \A t \in Searches \ {s} : Audited(t)'
    BY <1>1, <1>2, OtherSearches
<1>4. TypeOK' BY <1>2, <1>3 DEF IndexInv, TypeOK
<1>5. Audited(s)'
    <2>1. answer[s] = << >>
        BY DEF IndexInv, Audited, WriteRetrievalAudit, Ended
    <2>2. AuditRow(s)' = AuditRow(s) BY <1>2 DEF AuditRow
    <2>3. CASE answer' = answer /\ at # "announcing"
        BY <1>3, <2>1, <2>3 DEF Audited
    <2>4. CASE AuditRow(s) \in audits' /\ answer' = answer /\ at = "announcing"
        BY <1>3, <2>1, <2>2, <2>4 DEF Audited
    <2>5. CASE AuditRow(s) \in audits' /\ at = "answered" /\ answer' = [answer EXCEPT ![s] = Handed(s)]
        <3>1. answer'[s] = Handed(s) BY <2>5 DEF IndexInv, TypeOK
        <3>2. Within(answer'[s], found'[s]) BY <1>2, <3>1, HandedIsFound
        <3> QED BY <1>3, <2>2, <2>5, <3>2 DEF Audited, Ended
    <2>6. \/ answer' = answer /\ at # "announcing"
          \/ AuditRow(s) \in audits' /\ answer' = answer /\ at = "announcing"
          \/ AuditRow(s) \in audits' /\ at = "answered" /\ answer' = [answer EXCEPT ![s] = Handed(s)]
        <3>1. ASSUME Goto(s, "announcing") PROVE at = "announcing"
            BY <1>3, <3>1 DEF IndexInv, TypeOK, Goto
        <3>2. ASSUME Goto(s, "answered") PROVE at = "answered"
            BY <1>3, <3>2 DEF IndexInv, TypeOK, Goto
        <3>3. ASSUME Goto(s, GivesUp(s)) PROVE at # "announcing"
            BY <1>3, <3>3, CallsAssumption DEF IndexInv, TypeOK, Goto, GivesUp
        <3> QED BY <3>1, <3>2, <3>3 DEF WriteRetrievalAudit
    <2> QED BY <2>3, <2>4, <2>5, <2>6
<1> QED BY <1>3, <1>4, <1>5 DEF IndexInv

\* What a client is handed is on the audit record.
LEMMA PublishRetrievalStep ==
    ASSUME IndexInv, NEW s \in Searches, PublishRetrieval(s)
    PROVE  IndexInv'
<1>1. CASE Goto(s, "failed") /\ UNCHANGED answer
    <2>1. "failed" \in Stages /\ stage[s] \notin Ended
        BY DEF Stages, Ended, PublishRetrieval
    <2> QED BY <1>1, <2>1, SilentStep DEF PublishRetrieval, ingestVars, indexVars, IndexInv, TypeOK
<1>2. CASE Goto(s, "answered") /\ answer' = [answer EXCEPT ![s] = Handed(s)]
    <2>1. /\ "answered" \in Stages /\ DOMAIN answer' = Searches /\ answer'[s] = Handed(s)
          /\ \A t \in Searches \ {s} : answer'[t] = answer[t]
          /\ UNCHANGED <<pending, job, passages, announced, table, removed, found, audits>>
        BY <1>2 DEF IndexInv, TypeOK, Stages, Ended, PublishRetrieval, ingestVars, indexVars
    <2>2. /\ stage' \in [Ingestions \cup Searches -> Stages] /\ stage'[s] = "answered"
          /\ \A i \in Ingestions : Whole(i)' /\ Truthful(i)'
          /\ \A t \in Searches \ {s} : Audited(t)'
        BY <1>2, <2>1, OtherSearches
    <2>3. TypeOK' BY <2>1, <2>2 DEF IndexInv, TypeOK
    <2>4. AuditRow(s) \in audits /\ AuditRow(s)' = AuditRow(s)
        BY <2>1 DEF IndexInv, Audited, PublishRetrieval, AuditRow
    <2>5. Within(answer'[s], found'[s]) BY <2>1, HandedIsFound
    <2>6. Audited(s)' BY <2>1, <2>2, <2>4, <2>5 DEF Audited, Ended
    <2> QED BY <2>2, <2>3, <2>6 DEF IndexInv
<1> QED BY <1>1, <1>2 DEF PublishRetrieval

-----------------------------------------------------------------------------
(* The steps both kinds of calls have, and deletions.                        *)

\* An embedding, a refusal or a crash stores and hands out nothing.
LEMMA EmbedStep ==
    ASSUME IndexInv, NEW c \in Ingestions \cup Searches, Embed(c) \/ CallDies(c)
    PROVE  IndexInv'
<1>1. \/ UNCHANGED stage
      \/ \E at \in {"inserting", "searching", "closing", "answered", "failed"} :
            Goto(c, at) /\ (c \in Ingestions => at \in {"inserting", "closing", "failed"})
    BY DEF Embed, Embedded, EmbeddingFails, GivesUp, CallDies
<1>2. /\ stage[c] \notin Ended
      /\ UNCHANGED <<job, passages, announced, table, removed, found, audits, answer>>
      /\ DOMAIN pending' = Ingestions
      /\ \A i \in Ingestions \ {c} : pending'[i] = pending[i]
      /\ stage' = stage \/ c \in Searches => pending' = pending
    BY CallsAssumption DEF IndexInv, TypeOK, Embed, Embedded, EmbeddingFails, CallDies, ingestVars, indexVars,
           searchVars, Ended, Goto
<1>3. CASE UNCHANGED stage
    <2>1. \A i \in Ingestions : Stored(i)' = Stored(i) /\ Chunks(i)' = Chunks(i)
        BY <1>2, TableRests
    <2> QED BY <1>2, <1>3, <2>1 DEF IndexInv, TypeOK, Whole, Truthful, Audited, AuditRow
<1>4. ASSUME NEW at \in {"inserting", "closing", "failed"}, Goto(c, at), c \in Ingestions
      PROVE  IndexInv'
    <2>1. \A i \in Ingestions : Stored(i)' = Stored(i) /\ Chunks(i)' = Chunks(i)
        BY <1>2, TableRests
    <2>2. at \in Stages BY DEF Stages, Ended
    <2>3. /\ stage' \in [Ingestions \cup Searches -> Stages] /\ stage'[c] = at
          /\ \A j \in Ingestions \ {c} : Whole(j)' /\ Truthful(j)'
          /\ \A t \in Searches : Audited(t)'
        BY <1>2, <1>4, <2>1, <2>2, OtherIngestions
    <2>4. TypeOK' BY <1>2, <2>3 DEF IndexInv, TypeOK
    <2>5. Whole(c)' /\ Truthful(c)'
        BY <1>2, <1>4, <2>1, <2>3 DEF IndexInv, Whole, Truthful, Ended
    <2> QED BY <2>3, <2>4, <2>5 DEF IndexInv
<1>5. ASSUME NEW at \in {"inserting", "searching", "closing", "answered", "failed"}, Goto(c, at),
             c \in Searches
      PROVE  IndexInv'
    <2>1. at \in Stages /\ at # "announcing" BY DEF Stages, Ended
    <2> QED BY <1>2, <1>5, <2>1, SilentStep DEF IndexInv, TypeOK
<1> QED BY <1>1, <1>3, <1>4, <1>5

\* A deletion moves chunks from the table to the history.
LEMMA DeleteStep == ASSUME IndexInv, DeleteChunks PROVE IndexInv'
<1>1. Written' = Written
    BY DEF DeleteChunks, Written
<1>2. \A i \in Ingestions : Stored(i)' = Stored(i) /\ Chunks(i)' = Chunks(i)
    BY <1>1 DEF DeleteChunks, ingestVars, Stored, Chunks
<1> QED BY <1>2 DEF IndexInv, TypeOK, Whole, Truthful, Audited, AuditRow, DeleteChunks,
                   ingestVars, searchVars

\* Every step preserves the invariant.
LEMMA InvariantStep == ASSUME IndexInv, [Next]_vars PROVE IndexInv'
<1>1. CASE UNCHANGED vars
    <2>1. \A i \in Ingestions : Stored(i)' = Stored(i) /\ Chunks(i)' = Chunks(i)
        BY <1>1, TableRests DEF vars
    <2> QED BY <1>1, <2>1 DEF IndexInv, TypeOK, Whole, Truthful, Audited, AuditRow, vars
<1>2. ASSUME NEW i \in Ingestions, Index(i) \/ Ingest(i) \/ CallDies(i) PROVE IndexInv'
    BY <1>2, IndexStep, JobStep, InsertChunkStep, CommitChunksStep, PublishIngestedStep, EmbedStep
       DEF Ingest
<1>3. ASSUME NEW s \in Searches, Search(s) \/ Retrieve(s) \/ CallDies(s) PROVE IndexInv'
    BY <1>3, SearchStep, WriteRetrievalAuditStep, PublishRetrievalStep, EmbedStep DEF Retrieve
<1> QED BY <1>1, <1>2, <1>3, DeleteStep DEF Next

-----------------------------------------------------------------------------
\* The inductive invariant of the index.
THEOREM IndexInvariance == Spec => []IndexInv
BY InitInv, InvariantStep, PTL DEF Spec

\* Whatever fails, an ingestion or a search is in one of its awaits, and keeps what it
\* works on under its own name.
THEOREM IndexTypes == Spec => []TypeOK
<1>1. IndexInv => TypeOK BY DEF IndexInv
<1> QED BY <1>1, IndexInvariance, PTL

\* The index holds all chunks of a document or none, deletions aside: the rows of
\* insertChunks become visible together, wherever the ingestion ends.
THEOREM DocumentsStayWhole == Spec => []DocumentsAreWhole
<1>1. IndexInv => DocumentsAreWhole
    BY DEF IndexInv, Whole, Stored, DocumentsAreWhole
<1> QED BY <1>1, IndexInvariance, PTL

\* A job is completed, its event published and its client answered only when the
\* document has been stored.
THEOREM JobsAreTrue == Spec => []JobsTellTheTruth
<1>1. IndexInv => JobsTellTheTruth
    BY DEF IndexInv, Truthful, Stored, JobsTellTheTruth
<1> QED BY <1>1, IndexInvariance, PTL

\* Whatever the ranking and the budget make of the hits, no chunk is handed to a
\* client or an analysis before the audit record that names it is written.
THEOREM AnswersStayAudited == Spec => []AnswersAreAudited
<1>1. ASSUME IndexInv PROVE AnswersAreAudited
    <2> SUFFICES ASSUME NEW s \in Searches, answer[s] # << >>
                 PROVE \E row \in audits :
                          /\ row.search = s
                          /\ \A n \in DOMAIN answer[s] :
                                \E m \in DOMAIN row.chunks : row.chunks[m] = answer[s][n]
        BY DEF AnswersAreAudited
    <2>1. AuditRow(s) \in audits /\ Within(answer[s], found[s])
        BY <1>1 DEF IndexInv, Audited
    <2>2. AuditRow(s).search = s /\ AuditRow(s).chunks = found[s]
        BY DEF AuditRow
    <2> QED BY <2>1, <2>2 DEF Within
<1> QED BY <1>1, IndexInvariance, PTL

-----------------------------------------------------------------------------
(* What is stored of a document.                                             *)

\* A segment scores what its best piece does.
LEMMA SegmentScoreIs ==
    ASSUME NEW text \in Seq(Paragraph), NEW segment \in Seq(UnitsOf(text)), segment # << >>
    PROVE  SegmentScore(text, segment) \in Percent
<1> DEFINE scores == {text[segment[n][1]][segment[n][2]].score : n \in DOMAIN segment}
<1>1. \A n \in DOMAIN segment : text[segment[n][1]][segment[n][2]].score \in Percent
    <2> SUFFICES ASSUME NEW n \in DOMAIN segment
                 PROVE  text[segment[n][1]][segment[n][2]].score \in Percent
        OBVIOUS
    <2>1. PICK unit \in UnitsOf(text) : unit = segment[n] OBVIOUS
    <2>2. unit[1] \in DOMAIN text /\ unit[2] \in DOMAIN text[unit[1]] BY DEF UnitsOf
    <2>3. text[unit[1]] \in Paragraph BY <2>2
    <2>4. text[unit[1]] \in Seq(Piece) BY <2>3 DEF Paragraph
    <2>5. text[unit[1]][unit[2]] \in Piece BY <2>2, <2>4
    <2> QED BY <2>1, <2>5 DEF Piece
<1>2. 1 \in DOMAIN segment BY EmptySeq
<1>3. scores \subseteq Percent /\ scores # {} BY <1>1, <1>2
<1>4. SegmentScore(text, segment) = CHOOSE x \in scores : \A y \in scores : x >= y
    BY DEF SegmentScore
<1> HIDE DEF scores
<1>5. \E x \in scores : \A y \in scores : x >= y
    <2> DEFINE missing == {100 - x : x \in scores}
    <2>1. \A x \in scores : 100 - x \in Nat BY <1>3 DEF Percent
    <2>2. missing \subseteq Nat /\ missing # {} BY <1>3, <2>1
    <2> HIDE DEF missing
    <2>3. PICK m \in missing : \A k \in missing : m <= k BY <2>2, LeastNumber
    <2>4. PICK x \in scores : m = 100 - x BY DEF missing
    <2>5. \A y \in scores : 100 - x <= 100 - y BY <2>3, <2>4 DEF missing
    <2>6. \A y \in scores : x >= y BY <1>3, <2>5 DEF Percent
    <2> QED BY <2>6
<1> QED BY <1>3, <1>4, <1>5

\* The last pieces of a segment are an end of it, and some are left when any are asked for.
LEMMA LastPiecesAre ==
    ASSUME NEW text \in Seq(Paragraph), NEW segment \in Seq(UnitsOf(text)), segment # << >>,
           NEW overlap \in Nat \ {0}, NEW last, last = LastPieces(text, segment, overlap)
    PROVE  /\ last \in Seq(UnitsOf(text)) /\ last # << >>
           /\ last \in Ends(segment)
<1>1. PICK L \in Nat \ {0} : L = Len(segment) /\ DOMAIN segment = 1 .. L BY EmptySeq
<1> DEFINE F == {n \in 1 .. L : SegmentLength(text, segment)
                                 - SegmentLength(text, SubSeq(segment, 1, n)) >= overlap}
<1>2. last = SubSeq(segment, Cardinality(F) + 1, L) BY <1>1 DEF LastPieces
<1>3. F \subseteq 1 .. L - 1
    <2>1. SubSeq(segment, 1, L) = segment
        <3>1. PICK all : all = SubSeq(segment, 1, L) OBVIOUS
        <3>2. 1 \in Int /\ L \in Int /\ \A n \in 1 .. L : segment[n] \in UnitsOf(text) BY <1>1
        <3>3. /\ all \in Seq(UnitsOf(text)) /\ Len(all) = (IF 1 <= L THEN L - 1 + 1 ELSE 0)
              /\ \A n \in 1 .. L - 1 + 1 : all[n] = segment[1 + n - 1]
            BY <3>1, <3>2, SubSeqProperties
        <3>4. Len(all) = L /\ \A n \in 1 .. L : all[n] = segment[n]
            <4>1. \A n \in 1 .. L : n \in 1 .. L - 1 + 1 /\ 1 + n - 1 = n BY <1>1
            <4> QED BY <1>1, <3>3, <4>1
        <3>5. all = [n \in 1 .. L |-> all[n]] /\ segment = [n \in 1 .. L |-> segment[n]]
            BY <1>1, <3>3, <3>4
        <3> QED BY <3>1, <3>4, <3>5
    <2>2. PICK x \in Nat : x = SegmentLength(text, segment) BY SegmentLengthIsNat
    <2>3. SegmentLength(text, SubSeq(segment, 1, L)) = x BY <2>1, <2>2
    <2>4. L \notin F
        <3>1. ~(x - x >= overlap) OBVIOUS
        <3> QED BY <2>2, <2>3, <3>1
    <2>5. F \subseteq 1 .. L OBVIOUS
    <2> HIDE DEF F
    <2> QED BY <1>1, <2>4, <2>5
<1> HIDE DEF F
<1>4. PICK C \in Nat : C = Cardinality(F) /\ C <= L - 1
    <2>1. \E kept : kept = [k \in 1 .. Cardinality(F) |-> CHOOSE x \in F : Cardinality({y \in F : y < x}) = k - 1]
        OBVIOUS
    <2>2. L - 1 \in Nat BY <1>1
    <2> QED BY <1>3, <2>1, <2>2, Ascending
<1>5. C + 1 \in 1 .. L /\ C + 1 \in DOMAIN segment BY <1>1, <1>4
<1>6. last = SubSeq(segment, C + 1, L) BY <1>2, <1>4
<1>7. /\ last \in Seq(UnitsOf(text))
      /\ Len(last) = IF C + 1 <= L THEN L - (C + 1) + 1 ELSE 0
    <2>1. C + 1 \in Int /\ L \in Int /\ \A n \in C + 1 .. L : segment[n] \in UnitsOf(text) BY <1>1, <1>5
    <2> QED BY <1>6, <2>1, SubSeqProperties
<1>8. last # << >>
    <2>1. Len(last) # 0 BY <1>1, <1>4, <1>7
    <2> QED BY <2>1
<1>9. last \in Ends(segment) BY <1>1, <1>5, <1>6 DEF Ends
<1> QED BY <1>7, <1>8, <1>9

\* A chunk is its segment after an end of the one before, scored and measured; it exceeds
\* its segment by the overlap and a blank line at most.
LEMMA PassageIs ==
    ASSUME NEW text \in Seq(Paragraph), NEW segments \in Seq(Fitting(text, ChunkSize)),
           NEW k \in DOMAIN segments, NEW p, p = Passage(text, segments, k)
    PROVE  /\ p.units = segments[k] /\ p.score \in Nat /\ p.tokens \in Nat /\ p.length \in Nat
           /\ p.length <= SegmentLength(text, segments[k]) + ChunkOverlap + 2
           /\ IF k = 1 \/ ChunkOverlap = 0 THEN p.carried = << >>
              ELSE p.carried \in Ends(segments[k - 1])
<1> DEFINE carried == IF k = 1 \/ ChunkOverlap = 0 THEN << >>
                      ELSE LastPieces(text, segments[k - 1], ChunkOverlap)
           before  == IF carried = << >> THEN 0 ELSE SegmentLength(text, segments[k - 1])
           tail    == IF before > ChunkOverlap THEN ChunkOverlap ELSE before
           length  == SegmentLength(text, segments[k]) + IF carried = << >> THEN 0 ELSE tail + 2
<1>1. p = [units |-> segments[k], carried |-> carried, length |-> length,
           score |-> SegmentScore(text, carried \o segments[k]),
           tokens |-> (HeaderLength + length + 3) \div 4]
    BY DEF Passage
<1>2. ChunkOverlap \in Nat /\ HeaderLength \in Nat BY BoundsAssumption
<1>3. \A m \in DOMAIN segments : segments[m] \in Seq(UnitsOf(text)) /\ segments[m] # << >>
    BY DEF Fitting
<1>4. k # 1 => k - 1 \in DOMAIN segments OBVIOUS
<1>5. CASE k = 1 \/ ChunkOverlap = 0
    <2>1. carried = << >> BY <1>5
    <2>2. PICK long \in Nat : long = SegmentLength(text, segments[k]) BY <1>3, SegmentLengthIsNat
    <2>3. length = long BY <2>1, <2>2
    <2>4. carried \o segments[k] = segments[k] BY <1>3, <2>1, ConcatEmptySeq
    <2> HIDE DEF carried, length
    <2>5. SegmentScore(text, segments[k]) \in Nat
        <3>1. PICK segment \in Seq(UnitsOf(text)) : segment = segments[k] /\ segment # << >> BY <1>3
        <3>2. SegmentScore(text, segment) \in Percent BY <3>1, SegmentScoreIs
        <3>3. Percent \subseteq Nat BY DEF Percent
        <3> QED BY <3>1, <3>2, <3>3
    <2>6. (HeaderLength + long + 3) \div 4 \in Nat BY <1>2
    <2>7. long <= long + ChunkOverlap + 2 BY <1>2
    <2>8. /\ p.units = segments[k] /\ p.carried = << >> /\ p.length = long
          /\ p.score = SegmentScore(text, segments[k]) /\ p.tokens = (HeaderLength + long + 3) \div 4
        BY <1>1, <2>1, <2>3, <2>4
    <2> QED BY <1>5, <2>2, <2>5, <2>6, <2>7, <2>8
<1>6. CASE ~(k = 1 \/ ChunkOverlap = 0)
    <2>1. PICK segment \in Seq(UnitsOf(text)) : segment = segments[k - 1] /\ segment # << >>
        BY <1>3, <1>4, <1>6
    <2>2. PICK last : last = LastPieces(text, segment, ChunkOverlap) OBVIOUS
    <2>3. /\ last \in Seq(UnitsOf(text)) /\ last # << >>
          /\ last \in Ends(segment)
        <3>1. PICK overlap \in Nat \ {0} : overlap = ChunkOverlap BY <1>2, <1>6
        <3>2. last = LastPieces(text, segment, overlap) /\ segment # << >> BY <2>1, <2>2, <3>1
        <3> HIDE DEF carried, before, tail, length
        <3> QED BY <3>2, LastPiecesAre
    <2>4. carried = last BY <1>6, <2>1, <2>2
    <2>5. PICK earlier \in Nat : earlier = SegmentLength(text, segment) BY SegmentLengthIsNat
    <2>6. PICK kept \in Nat : kept = tail /\ kept <= ChunkOverlap
        <3>1. before = earlier BY <2>1, <2>3, <2>4, <2>5
        <3> HIDE DEF before
        <3> QED BY <1>2, <3>1
    <2>7. PICK long \in Nat : long = SegmentLength(text, segments[k]) BY <1>3, SegmentLengthIsNat
    <2>8. length = long + (kept + 2)
        <3> HIDE DEF carried, tail
        <3> QED BY <2>3, <2>4, <2>6, <2>7
    <2> HIDE DEF carried, length
    <2>9. SegmentScore(text, last \o segments[k]) \in Nat
        <3>1. PICK own \in Seq(UnitsOf(text)) : own = segments[k] /\ own # << >> BY <1>3
        <3>2. PICK all : all = last \o own OBVIOUS
        <3>3. all \in Seq(UnitsOf(text)) /\ Len(all) = Len(last) + Len(own)
            BY <2>3, <3>1, <3>2, ConcatProperties
        <3>4. all # << >>
            <4>1. Len(last) \in Nat /\ Len(own) \in Nat /\ Len(own) # 0 BY <2>3, <3>1, EmptySeq
            <4>2. Len(all) # 0 BY <3>3, <4>1
            <4> QED BY <4>2
        <3>5. SegmentScore(text, all) \in Percent BY <3>3, <3>4, SegmentScoreIs
        <3>6. Percent \subseteq Nat BY DEF Percent
        <3> QED BY <3>1, <3>2, <3>5, <3>6
    <2>10. long + (kept + 2) \in Nat /\ (HeaderLength + (long + (kept + 2)) + 3) \div 4 \in Nat BY <1>2
    <2>11. long + (kept + 2) <= long + ChunkOverlap + 2 BY <1>2, <2>6
    <2>12. /\ p.units = segments[k] /\ p.carried = last /\ p.length = long + (kept + 2)
           /\ p.score = SegmentScore(text, last \o segments[k])
           /\ p.tokens = (HeaderLength + (long + (kept + 2)) + 3) \div 4
        BY <1>1, <2>4, <2>8
    <2> QED BY <1>6, <2>1, <2>3, <2>7, <2>9, <2>10, <2>11, <2>12
<1> QED BY <1>5, <1>6

\* The chunks of a document are those of its segments.
LEMMA CutIs ==
    ASSUME NEW doc \in Documents
    PROVE  /\ doc.text \in Seq(Paragraph)
           /\ Segments(doc.text, ChunkSize) \in Seq(Fitting(doc.text, ChunkSize))
           /\ \E n \in Nat : DOMAIN Cut(doc) = 1 .. n /\ DOMAIN Segments(doc.text, ChunkSize) = 1 .. n
           /\ \A k \in DOMAIN Cut(doc) :
                 /\ Cut(doc)[k] = Passage(doc.text, Segments(doc.text, ChunkSize), k)
                 /\ Cut(doc)[k].units = Segments(doc.text, ChunkSize)[k]
                 /\ Cut(doc)[k].score \in Nat /\ Cut(doc)[k].tokens \in Nat
<1>1. PICK text \in Seq(Paragraph) : text = doc.text BY DocumentsAssumption DEF Document
<1>2. PICK segments \in Seq(Fitting(text, ChunkSize)) : segments = Segments(text, ChunkSize)
    BY SegmentsAre
<1>3. PICK n \in Nat : DOMAIN segments = 1 .. n OBVIOUS
<1>4. PICK c : /\ c = Cut(doc) /\ DOMAIN c = 1 .. n
               /\ \A k \in 1 .. n : c[k] = Passage(text, segments, k)
    <2>1. Cut(doc) = [k \in DOMAIN Segments(doc.text, ChunkSize)
                        |-> Passage(doc.text, Segments(doc.text, ChunkSize), k)]
        BY DEF Cut
    <2>2. Cut(doc) = [k \in 1 .. n |-> Passage(text, segments, k)] BY <1>1, <1>2, <1>3, <2>1
    <2> QED BY <2>2
<1>5. \A k \in 1 .. n : c[k].units = segments[k] /\ c[k].score \in Nat /\ c[k].tokens \in Nat
    BY <1>3, <1>4, PassageIs
<1> QED BY <1>1, <1>2, <1>3, <1>4, <1>5

\* An ingestion has no document yet, or has cut it.
Cutout(i) ==
    \/ document[i] = None /\ passages[i] = << >>
    \/ document[i] \in Documents /\ passages[i] = Cut(document[i])

\* The hits of a query: what is, or was, in the table and matches.
HitsFor(q) == {Hit(chunk) : chunk \in {c \in Written : Matches(q, c)}}

\* What a search may have found.
SoundFor(q, hits) ==
    /\ hits \in Seq(HitsFor(q)) /\ Len(hits) <= q.topK
    /\ \A n, m \in DOMAIN hits : n # m => Key(hits[n]) # Key(hits[m])
    /\ \A n, m \in DOMAIN hits :
          n < m /\ hits[n].source = hits[m].source => hits[n].score >= hits[m].score

Looked(s) ==
    /\ stage[s] # "idle" => query[s] \in Queries
    /\ stage[s] = "idle" => found[s] = << >>
    /\ found[s] # << >> => SoundFor(query[s], found[s])
    /\ answer[s] # << >> => query[s] \in Queries /\ answer[s] = Handed(s) /\ found[s] # << >>

LookupInv ==
    /\ DOMAIN document = Ingestions /\ DOMAIN query = Searches
    /\ \A i \in Ingestions : Cutout(i)
    /\ Written \subseteq Ingestions \X Nat /\ IsFiniteSet(table)
    /\ \A s \in Searches : Looked(s)

\* What is stored has a document and a passage.
LEMMA StoredChunks ==
    ASSUME IndexInv, LookupInv, NEW c \in Written
    PROVE  /\ c[1] \in Ingestions /\ c[2] \in Nat /\ c = <<c[1], c[2]>>
           /\ stage[c[1]] # "idle" /\ document[c[1]] \in Documents
           /\ c[2] \in DOMAIN passages[c[1]]
           /\ Hit(c).id = c /\ Hit(c).score \in Nat /\ Hit(c).tokens \in Nat
<1>1. PICK i \in Ingestions, k \in Nat : c = <<i, k>> /\ c[1] = i /\ c[2] = k
    BY DEF LookupInv
<1>2. c \in Stored(i) BY <1>1 DEF Stored
<1>3. stage[i] # "idle" /\ Stored(i) \in {{}, Chunks(i)} BY <1>2 DEF IndexInv, Whole
<1>4. c \in Chunks(i) BY <1>2, <1>3
<1>5. k \in DOMAIN passages[i] BY <1>1, <1>4 DEF Chunks
<1>6. document[i] \in Documents /\ passages[i] = Cut(document[i])
    <2>1. passages[i] # << >> BY <1>5
    <2> QED BY <2>1 DEF LookupInv, Cutout
<1>7. passages[i][k].score \in Nat /\ passages[i][k].tokens \in Nat
    BY <1>5, <1>6, CutIs
<1>8. Hit(c).id = c /\ Hit(c).score = passages[i][k].score /\ Hit(c).tokens = passages[i][k].tokens
    BY <1>1 DEF Hit
<1> QED BY <1>1, <1>3, <1>5, <1>6, <1>7, <1>8

\* What the index finds for a query matches it, and is not more than was asked for.
LEMMA HitsAre ==
    ASSUME IndexInv, LookupInv, NEW q \in Query, NEW turn \in Turns,
           NEW probed, probed \subseteq {chunk \in table : Matches(q, chunk)}
    PROVE  Hits(q, probed, turn) \in Seq(HitsFor(q)) /\ Len(Hits(q, probed, turn)) <= q.topK
<1> DEFINE above(c, d) == LET x == Hit(c).score  y == Hit(d).score
                          IN  \/ x > y
                              \/ x = y /\ turn[c[1]] < turn[d[1]]
                              \/ x = y /\ c[1] = d[1] /\ c[2] < d[2]
           rows == [k \in 1 .. Cardinality(probed) |->
                       CHOOSE x \in probed : Cardinality({y \in probed : above(y, x)}) = k - 1]
           R == {p \in probed \X probed : above(p[1], p[2])}
           few == IF Len(rows) < q.topK THEN Len(rows) ELSE q.topK
<1>1. Hits(q, probed, turn) = [n \in 1 .. few |-> Hit(rows[n])]
    BY DEF Hits, InOrder
<1>2. probed \subseteq table /\ probed \subseteq Written /\ \A c \in probed : Matches(q, c)
    BY DEF Written
<1>3. IsFiniteSet(probed) /\ Cardinality(probed) \in Nat
    BY <1>2, FS_Subset, FS_CardinalityType DEF LookupInv
<1>4. \A c \in probed : /\ Hit(c).score \in Nat /\ c[1] \in Ingestions /\ c[2] \in Nat /\ c = <<c[1], c[2]>>
                        /\ turn[c[1]] \in Nat
    <2>1. \A i \in Ingestions : turn[i] \in Nat BY DEF Turns
    <2> QED BY <1>2, <2>1, StoredChunks
<1>5. \A c, d \in probed : turn[c[1]] = turn[d[1]] => c[1] = d[1]
    BY <1>4 DEF Turns
<1>6. StrictOrder(probed, R)
    <2>1. \A c, d \in probed : <<c, d>> \in R <=> above(c, d) OBVIOUS
    <2> HIDE DEF R
    <2>2. \A c, d \in probed : c[1] = d[1] /\ c[2] = d[2] => c = d BY <1>4
    <2>3. \A c \in probed : <<c, c>> \notin R BY <1>4, <2>1
    <2>4. \A c, d \in probed : c = d \/ <<c, d>> \in R \/ <<d, c>> \in R
        <3> SUFFICES ASSUME NEW c \in probed, NEW d \in probed, c # d PROVE above(c, d) \/ above(d, c)
            BY <2>1
        <3>1. PICK x \in Nat, y \in Nat : x = Hit(c).score /\ y = Hit(d).score BY <1>4
        <3>2. PICK t \in Nat, u \in Nat : t = turn[c[1]] /\ u = turn[d[1]] BY <1>4
        <3>3. PICK j \in Nat, k \in Nat : j = c[2] /\ k = d[2] BY <1>4
        <3>4. x > y \/ y > x \/ x = y OBVIOUS
        <3>5. CASE x = y /\ c[1] # d[1]
            <4>1. t # u BY <1>5, <3>2, <3>5
            <4>2. t < u \/ u < t BY <4>1
            <4> QED BY <3>1, <3>2, <3>5, <4>2
        <3>6. CASE x = y /\ c[1] = d[1]
            <4>1. j # k BY <2>2, <3>3, <3>6
            <4>2. j < k \/ k < j BY <4>1
            <4> QED BY <3>1, <3>3, <3>6, <4>2
        <3> QED BY <3>1, <3>4, <3>5, <3>6
    <2>5. \A c, d, e \in probed : <<c, d>> \in R /\ <<d, e>> \in R => <<c, e>> \in R
        BY <1>4, <1>5, <2>1
    <2> QED BY <2>3, <2>4, <2>5 DEF StrictOrder
<1>7. \A x \in probed : RankOf(probed, R, x) = Cardinality({y \in probed : above(y, x)})
    <2> SUFFICES ASSUME NEW x \in probed
                 PROVE  RankOf(probed, R, x) = Cardinality({y \in probed : above(y, x)})
        OBVIOUS
    <2>1. \A y \in probed : <<y, x>> \in R <=> above(y, x) OBVIOUS
    <2> HIDE DEF R, above
    <2>2. {y \in probed : <<y, x>> \in R} = {y \in probed : above(y, x)} BY <2>1
    <2> QED BY <2>2 DEF RankOf
<1> HIDE DEF R, above
<1>8. \A k \in 1 .. Cardinality(probed) : rows[k] \in probed
    <2> SUFFICES ASSUME NEW k \in 1 .. Cardinality(probed) PROVE rows[k] \in probed
        OBVIOUS
    <2>1. \E x \in probed : RankOf(probed, R, x) = k - 1
        <3>1. PICK Q : Q = R OBVIOUS
        <3>2. StrictOrder(probed, Q) BY <1>6, <3>1
        <3>3. \E x \in probed : RankOf(probed, Q, x) = k - 1 BY <1>3, <3>2, Ranks
        <3> QED BY <3>1, <3>3
    <2>2. \E x \in probed : Cardinality({y \in probed : above(y, x)}) = k - 1
        BY <1>7, <2>1
    <2> QED BY <2>2
<1>9. Len(rows) = Cardinality(probed)
    <2> DEFINE e(k) == CHOOSE x \in probed : Cardinality({y \in probed : above(y, x)}) = k - 1
    <2>1. rows = [k \in 1 .. Cardinality(probed) |-> e(k)] OBVIOUS
    <2> HIDE DEF e
    <2>2. Len([k \in 1 .. Cardinality(probed) |-> e(k)]) = Cardinality(probed) BY <1>3
    <2> QED BY <2>1, <2>2
<1> HIDE DEF rows
<1>10. few \in Nat /\ few <= q.topK /\ few <= Cardinality(probed)
    BY <1>3, <1>9 DEF Query
<1> HIDE DEF few
<1>11. \A n \in 1 .. few : Hit(rows[n]) \in HitsFor(q)
    BY <1>2, <1>3, <1>8, <1>10 DEF HitsFor
<1> QED
    <2>1. PICK list : list = [n \in 1 .. few |-> Hit(rows[n])] OBVIOUS
    <2>2. list \in [1 .. few -> HitsFor(q)] BY <1>11, <2>1
    <2>3. list \in Seq(HitsFor(q)) /\ Len(list) = few BY <1>10, <2>2
    <2> QED BY <1>1, <1>10, <2>1, <2>3

\* What a search makes of them is sound.
LEMMA SelectedAreSound ==
    ASSUME IndexInv, LookupInv, NEW q \in Query, NEW hits \in Seq(HitsFor(q)), Len(hits) <= q.topK
    PROVE  SoundFor(q, RankChunks(DeduplicateChunks(hits)))
<1>1. PICK H : H = HitsFor(q) OBVIOUS
<1>2. \A h \in H : h.score \in Nat BY <1>1, StoredChunks DEF HitsFor
<1>3. PICK d : d = DeduplicateChunks(hits) OBVIOUS
<1>4. /\ d \in Seq(H) /\ Len(d) <= Len(hits)
      /\ \A n, m \in DOMAIN d : n # m => Key(d[n]) # Key(d[m])
    BY <1>1, <1>3, DeduplicatedAre
<1>5. PICK r : r = RankChunks(d) OBVIOUS
<1>6. /\ r \in Seq(H) /\ Len(r) = Len(d)
      /\ \A n, m \in DOMAIN r : n # m => Key(r[n]) # Key(r[m])
      /\ \A n, m \in DOMAIN r : n < m /\ r[n].source = r[m].source => r[n].score >= r[m].score
    <2>1. d \in Seq(H) /\ \A n, m \in DOMAIN d : n # m => Key(d[n]) # Key(d[m]) BY <1>4
    <2>2. r \in Seq(H) /\ Len(r) = Len(d) BY <1>2, <1>5, <2>1, RankedAre
    <2>3. \A n, m \in DOMAIN r : n # m => Key(r[n]) # Key(r[m]) BY <1>2, <1>5, <2>1, RankedAre
    <2>4. \A n, m \in DOMAIN r : n < m /\ r[n].source = r[m].source => r[n].score >= r[m].score
        BY <1>2, <1>5, <2>1, RankedAre
    <2> QED BY <2>2, <2>3, <2>4
<1>7. Len(r) <= q.topK
    <2>1. Len(hits) \in Nat /\ Len(d) \in Nat /\ Len(r) \in Nat /\ q.topK \in Nat
        BY <1>1, <1>4, <1>6 DEF Query
    <2> QED BY <1>4, <1>6, <2>1
<1> QED BY <1>1, <1>3, <1>5, <1>6, <1>7 DEF SoundFor

-----------------------------------------------------------------------------
(* What a step may change of what was looked up.                             *)

\* A search that a step leaves alone, or that waits through it.
Rests(s) ==
    /\ query'[s] = query[s] /\ found'[s] = found[s] /\ answer'[s] = answer[s]
    /\ stage'[s] = "idle" <=> stage[s] = "idle"

\* A step moves the call that takes it, and no other.
LEMMA MovesOne ==
    ASSUME IndexInv, NEW c \in Ingestions \cup Searches, NEW at, Goto(c, at)
    PROVE  stage'[c] = at /\ \A d \in (Ingestions \cup Searches) \ {c} : stage'[d] = stage[d]
BY DEF IndexInv, TypeOK, Goto

\* The ingestions, and the steps both kinds of calls have, hand out nothing.
LEMMA IngestionRests ==
    ASSUME IndexInv, NEW i \in Ingestions, Index(i) \/ Ingest(i) \/ CallDies(i), NEW s \in Searches
    PROVE  Rests(s)
<1>1. i # s BY CallsAssumption
<1>2. UNCHANGED searchVars
    BY DEF Index, Ingest, CreateIngestionJob, Embed, Embedded, EmbeddingFails, InsertChunk, CommitChunks,
           CompleteIngestionJob, FailIngestionJob, PublishIngested, CallDies
<1>3. UNCHANGED stage \/ \E at : Goto(i, at)
    BY DEF Index, Ingest, CreateIngestionJob, Embed, Embedded, EmbeddingFails, InsertChunk, CommitChunks,
           CompleteIngestionJob, FailIngestionJob, PublishIngested, CallDies
<1>4. stage'[s] = stage[s] BY <1>1, <1>3, MovesOne
<1> QED BY <1>2, <1>4 DEF Rests, searchVars

\* An embedding of a query, a refusal or a crash finds nothing.
LEMMA WaitingRests ==
    ASSUME IndexInv, NEW t \in Searches, Embed(t) \/ CallDies(t), NEW s \in Searches
    PROVE  Rests(s)
<1>1. UNCHANGED searchVars /\ stage[t] # "idle"
    BY DEF Embed, Embedded, EmbeddingFails, CallDies
<1>2. UNCHANGED stage \/ \E at \in {"searching", "answered", "failed"} : Goto(t, at)
    BY CallsAssumption DEF Embed, Embedded, EmbeddingFails, GivesUp, CallDies
<1>3. stage'[s] = "idle" <=> stage[s] = "idle" BY <1>1, <1>2, MovesOne
<1> QED BY <1>1, <1>3 DEF Rests, searchVars

Looks(t) == Search(t) \/ SemanticSearch(t) \/ WriteRetrievalAudit(t) \/ PublishRetrieval(t)

\* A step of one search leaves the others alone.
LEMMA OthersRest ==
    ASSUME IndexInv, LookupInv, NEW t \in Searches, Looks(t), NEW s \in Searches, s # t
    PROVE  Rests(s)
<1>1. \E at : Goto(t, at)
    BY DEF Looks, Search, SemanticSearch, WriteRetrievalAudit, PublishRetrieval
<1>2. stage'[s] = stage[s] BY <1>1, MovesOne
<1>3. query'[s] = query[s] /\ found'[s] = found[s] /\ answer'[s] = answer[s]
    <2>1. DOMAIN query = Searches /\ DOMAIN found = Searches /\ DOMAIN answer = Searches
        BY DEF IndexInv, TypeOK, LookupInv
    <2>2. CASE Search(t) BY <2>1, <2>2 DEF Search
    <2>3. CASE SemanticSearch(t) BY <2>1, <2>3 DEF SemanticSearch
    <2>4. CASE WriteRetrievalAudit(t) BY <2>1, <2>4 DEF WriteRetrievalAudit
    <2>5. CASE PublishRetrieval(t) BY <2>1, <2>5 DEF PublishRetrieval
    <2> QED BY <2>2, <2>3, <2>4, <2>5 DEF Looks
<1> QED BY <1>2, <1>3 DEF Rests

\* A search rests through a step or takes it.
LEMMA RestsOrLooks ==
    ASSUME IndexInv, LookupInv, [Next]_vars, NEW s \in Searches
    PROVE  Rests(s) \/ Looks(s)
<1>1. CASE UNCHANGED vars BY <1>1 DEF vars, Rests
<1>2. CASE DeleteChunks BY <1>2 DEF DeleteChunks, searchVars, Rests
<1>3. ASSUME NEW i \in Ingestions, Index(i) \/ Ingest(i) \/ CallDies(i) PROVE Rests(s)
    BY <1>3, IngestionRests
<1>4. ASSUME NEW t \in Searches, Search(t) \/ Retrieve(t) \/ CallDies(t) PROVE Rests(s) \/ Looks(s)
    <2>1. CASE Embed(t) \/ CallDies(t) BY <2>1, WaitingRests
    <2>2. CASE Looks(t) BY <2>2, OthersRest
    <2> QED BY <1>4, <2>1, <2>2 DEF Retrieve, Looks
<1> QED BY <1>1, <1>2, <1>3, <1>4 DEF Next

\* Only an ingestion that begins gets a document.
LEMMA DocumentsChange ==
    ASSUME [Next]_vars
    PROVE  UNCHANGED <<document, passages>> \/ \E i \in Ingestions : Index(i)
<1>1. CASE UNCHANGED vars BY <1>1 DEF vars
<1>2. CASE DeleteChunks BY <1>2 DEF DeleteChunks, ingestVars
<1>3. ASSUME NEW i \in Ingestions, Ingest(i) \/ CallDies(i) PROVE UNCHANGED <<document, passages>>
    BY <1>3 DEF Ingest, CreateIngestionJob, Embed, Embedded, EmbeddingFails, InsertChunk, CommitChunks,
           CompleteIngestionJob, FailIngestionJob, PublishIngested, CallDies, ingestVars
<1>4. ASSUME NEW t \in Searches, Search(t) \/ Retrieve(t) \/ CallDies(t)
      PROVE  UNCHANGED <<document, passages>>
    BY <1>4 DEF Search, Retrieve, Embed, Embedded, EmbeddingFails, SemanticSearch, WriteRetrievalAudit,
           PublishRetrieval, CallDies, ingestVars
<1> QED BY <1>1, <1>2, <1>3, <1>4 DEF Next

\* Only commits and deletions change the table.
LEMMA TableChanges ==
    ASSUME [Next]_vars
    PROVE  UNCHANGED <<table, removed>> \/ DeleteChunks \/ \E i \in Ingestions : CommitChunks(i)
<1>1. CASE UNCHANGED vars BY <1>1 DEF vars
<1>2. ASSUME NEW i \in Ingestions, Index(i) \/ Ingest(i) \/ CallDies(i), ~CommitChunks(i)
      PROVE  UNCHANGED <<table, removed>>
    BY <1>2 DEF Index, Ingest, CreateIngestionJob, Embed, Embedded, EmbeddingFails, InsertChunk,
           CompleteIngestionJob, FailIngestionJob, PublishIngested, CallDies, indexVars
<1>3. ASSUME NEW t \in Searches, Search(t) \/ Retrieve(t) \/ CallDies(t)
      PROVE  UNCHANGED <<table, removed>>
    BY <1>3 DEF Search, Retrieve, Embed, Embedded, EmbeddingFails, SemanticSearch, WriteRetrievalAudit,
           PublishRetrieval, CallDies, indexVars
<1> QED BY <1>1, <1>2, <1>3 DEF Next

\* A document that is cut stays what it is, and one that is indexed is cut.
LEMMA DocumentsStep ==
    ASSUME IndexInv, LookupInv, [Next]_vars
    PROVE  /\ DOMAIN document' = Ingestions
           /\ \A i \in Ingestions : Cutout(i)'
           /\ \A i \in Ingestions : stage[i] # "idle" =>
                 document'[i] = document[i] /\ passages'[i] = passages[i]
<1>1. CASE UNCHANGED <<document, passages>>
    BY <1>1 DEF LookupInv, Cutout
<1>2. ASSUME NEW i \in Ingestions, Index(i)
      PROVE  /\ DOMAIN document' = Ingestions
             /\ \A j \in Ingestions : Cutout(j)'
             /\ \A j \in Ingestions : stage[j] # "idle" =>
                   document'[j] = document[j] /\ passages'[j] = passages[j]
    <2>1. PICK doc \in Documents : /\ document' = [document EXCEPT ![i] = doc]
                                   /\ passages' = [passages EXCEPT ![i] = Cut(doc)]
        BY <1>2 DEF Index
    <2>2. DOMAIN document = Ingestions /\ DOMAIN passages = Ingestions /\ stage[i] = "idle"
        BY <1>2 DEF LookupInv, IndexInv, TypeOK, Index
    <2>3. document'[i] = doc /\ passages'[i] = Cut(doc) BY <2>1, <2>2
    <2>4. \A j \in Ingestions \ {i} : document'[j] = document[j] /\ passages'[j] = passages[j] BY <2>1, <2>2
    <2>5. Cutout(i)'
        <3>1. PICK d : d = Cut(doc) OBVIOUS
        <3>2. document'[i] \in Documents BY <2>3
        <3>3. passages'[i] = Cut(document'[i]) BY <2>3
        <3> QED BY <3>2, <3>3 DEF Cutout, Cut
    <2>6. \A j \in Ingestions \ {i} : Cutout(j)'
        BY <2>4 DEF LookupInv, Cutout
    <2> QED BY <2>1, <2>2, <2>4, <2>5, <2>6
<1> QED BY <1>1, <1>2, DocumentsChange

\* Nothing that was ever stored is forgotten, and the table stays finite.
LEMMA TableStep ==
    ASSUME IndexInv, LookupInv, [Next]_vars
    PROVE  Written \subseteq Written' /\ Written' \subseteq Ingestions \X Nat /\ IsFiniteSet(table')
<1>1. CASE UNCHANGED <<table, removed>> BY <1>1 DEF LookupInv, Written
<1>2. CASE DeleteChunks
    <2>1. table' \subseteq table /\ Written' = Written BY <1>2 DEF DeleteChunks, Written
    <2> QED BY <2>1, FS_Subset DEF LookupInv
<1>3. ASSUME NEW i \in Ingestions, CommitChunks(i)
      PROVE  Written \subseteq Written' /\ Written' \subseteq Ingestions \X Nat /\ IsFiniteSet(table')
    <2>1. pending[i] = Chunks(i) /\ removed' = removed /\ table' \in {table, table \cup pending[i]}
        BY <1>3 DEF IndexInv, Whole, CommitChunks
    <2>2. PICK n \in Nat : DOMAIN passages[i] = 1 .. n
        <3>1. CASE document[i] \in Documents /\ passages[i] = Cut(document[i])
            BY <3>1, CutIs
        <3>2. CASE passages[i] = << >> BY <3>2
        <3> QED BY <3>1, <3>2 DEF LookupInv, Cutout
    <2>3. Chunks(i) = {i} \X (1 .. n) BY <2>2 DEF Chunks
    <2>4. IsFiniteSet(Chunks(i))
        <3>1. IsFiniteSet(1 .. n)
            <4>1. 1 \in Int /\ n \in Int OBVIOUS
            <4> QED BY ONLY <4>1, FS_Interval
        <3>2. IsFiniteSet({i}) BY FS_Singleton
        <3> QED BY <2>3, <3>1, <3>2, FS_Product
    <2>5. IsFiniteSet(table \cup Chunks(i)) BY <2>4, FS_Union DEF LookupInv
    <2>6. Chunks(i) \subseteq Ingestions \X Nat BY <2>3
    <2> QED BY <2>1, <2>5, <2>6 DEF LookupInv, Written
<1> QED BY <1>1, <1>2, <1>3, TableChanges

\* A row that was ever stored says the same for good.
LEMMA HitsStay ==
    ASSUME IndexInv, LookupInv, [Next]_vars
    PROVE  \A q : \A h \in HitsFor(q) : h \in HitsFor(q)'
<1> SUFFICES ASSUME NEW q, NEW h \in HitsFor(q) PROVE h \in HitsFor(q)'
    OBVIOUS
<1>1. PICK c \in Written : Matches(q, c) /\ h = Hit(c) BY DEF HitsFor
<1>2. c[1] \in Ingestions /\ stage[c[1]] # "idle" BY StoredChunks
<1>3. document'[c[1]] = document[c[1]] /\ passages'[c[1]] = passages[c[1]] BY <1>2, DocumentsStep
<1>4. Hit(c)' = Hit(c) BY <1>3 DEF Hit
<1>5. Matches(q, c)' BY <1>1, <1>3, <1>4 DEF Matches
<1>6. c \in Written' BY TableStep
<1> QED BY <1>1, <1>4, <1>5, <1>6 DEF HitsFor

\* What was found stays sound through later ingestions and deletions.
LEMMA SoundStays ==
    ASSUME IndexInv, LookupInv, [Next]_vars, NEW q, NEW hits, SoundFor(q, hits)
    PROVE  SoundFor(q, hits)'
<1>1. PICK H : H = HitsFor(q) OBVIOUS
<1>2. PICK I : I = HitsFor(q)' OBVIOUS
<1>3. H \subseteq I BY <1>1, <1>2, HitsStay
<1>4. hits \in Seq(H) BY <1>1 DEF SoundFor
<1>5. hits \in Seq(I) BY <1>3, <1>4, SeqMonotonic
<1> QED BY <1>2, <1>5 DEF SoundFor, Key

\* A search that has found something stays sound while it waits.
LEMMA RestsStep ==
    ASSUME IndexInv, LookupInv, [Next]_vars, NEW s \in Searches, Rests(s)
    PROVE  Looked(s)'
<1>1. PICK q, f, a : q = query[s] /\ f = found[s] /\ a = answer[s] OBVIOUS
<1>2. query'[s] = q /\ found'[s] = f /\ answer'[s] = a /\ (stage'[s] = "idle" <=> stage[s] = "idle")
    BY <1>1 DEF Rests
<1>3. Looked(s) BY DEF LookupInv
<1>4. f # << >> => SoundFor(q, f)' BY <1>1, <1>3, SoundStays DEF Looked
<1>5. found'[s] # << >> => SoundFor(query[s], found[s])'
    BY <1>2, <1>4 DEF SoundFor, Key
<1>6. Handed(s)' = Handed(s) BY <1>1, <1>2 DEF Handed
<1> QED BY <1>1, <1>2, <1>3, <1>5, <1>6 DEF Looked

\* What a step of a search finds, or hands out, is sound.
LEMMA LooksStep ==
    ASSUME IndexInv, LookupInv, [Next]_vars, NEW s \in Searches, Looks(s)
    PROVE  Looked(s)'
<1>1. Looked(s) /\ Audited(s) BY DEF LookupInv, IndexInv
<1>2. DOMAIN query = Searches /\ DOMAIN found = Searches /\ DOMAIN answer = Searches
    BY DEF IndexInv, TypeOK, LookupInv
<1>3. stage[s] \notin Ended /\ answer[s] = << >>
    <2>1. stage[s] \in {"idle", "searching", "auditing", "announcing"}
        BY DEF Looks, Search, SemanticSearch, WriteRetrievalAudit, PublishRetrieval
    <2> QED BY <1>1, <2>1 DEF Audited, Ended
<1>4. CASE Search(s)
    <2>1. PICK q \in Queries : query' = [query EXCEPT ![s] = q] BY <1>4 DEF Search
    <2>2. query'[s] = q /\ found'[s] = << >> /\ answer'[s] = << >> /\ stage'[s] = "embedding"
        BY <1>1, <1>2, <1>3, <1>4, <2>1, MovesOne DEF Search, Looked
    <2> QED BY <2>2 DEF Looked
<1>5. CASE SemanticSearch(s)
    <2>1. query'[s] = query[s] /\ query[s] \in Queries /\ answer'[s] = << >>
        BY <1>1, <1>3, <1>5 DEF SemanticSearch, Looked
    <2>2. stage'[s] # "idle"
        <3>1. \E at \in {"auditing", "answered", "failed"} : Goto(s, at)
            BY <1>5, CallsAssumption DEF SemanticSearch, GivesUp
        <3> QED BY <3>1, MovesOne
    <2>3. found'[s] # << >> => SoundFor(query[s], found[s])'
        <3>1. CASE UNCHANGED found
            <4>1. PICK q, f : q = query[s] /\ f = found[s] OBVIOUS
            <4>2. f # << >> => SoundFor(q, f)' BY <1>1, <4>1, SoundStays DEF Looked
            <4>3. query'[s] = q /\ found'[s] = f BY <2>1, <3>1, <4>1
            <4> QED BY <4>2, <4>3 DEF SoundFor, Key
        <3>2. ASSUME NEW probed \in SUBSET {chunk \in table : Matches(query[s], chunk)}, NEW turn \in Turns,
                     found' = [found EXCEPT ![s] = RankChunks(DeduplicateChunks(Hits(query[s], probed, turn)))]
              PROVE  SoundFor(query[s], found[s])'
            <4>1. PICK q \in Query : q = query[s] BY <2>1, QueriesAssumption
            <4>2. PICK hits : hits = Hits(q, probed, turn) OBVIOUS
            <4>3. hits \in Seq(HitsFor(q)) /\ Len(hits) <= q.topK
                <5>1. probed \subseteq {chunk \in table : Matches(q, chunk)} BY <4>1
                <5> QED BY <4>2, <5>1, HitsAre
            <4>4. PICK f : f = RankChunks(DeduplicateChunks(hits)) OBVIOUS
            <4>5. SoundFor(q, f) BY <4>3, <4>4, SelectedAreSound
            <4>6. SoundFor(q, f)' BY <4>5, SoundStays
            <4>7. query'[s] = q /\ found'[s] = f BY <1>2, <2>1, <3>2, <4>1, <4>2, <4>4
            <4> QED BY <4>6, <4>7 DEF SoundFor, Key
        <3> QED BY <1>5, <3>1, <3>2 DEF SemanticSearch
    <2> QED BY <2>1, <2>2, <2>3 DEF Looked
<1>6. CASE WriteRetrievalAudit(s) \/ PublishRetrieval(s)
    <2>1. query'[s] = query[s] /\ query[s] \in Queries /\ found'[s] = found[s]
        BY <1>1, <1>6 DEF WriteRetrievalAudit, PublishRetrieval, Looked
    <2>2. stage'[s] # "idle"
        <3>1. \E at \in {"announcing", "answered", "failed"} : Goto(s, at)
            BY <1>6, CallsAssumption DEF WriteRetrievalAudit, PublishRetrieval, GivesUp
        <3> QED BY <3>1, MovesOne
    <2>3. found'[s] # << >> => SoundFor(query[s], found[s])'
        <3>1. PICK q, f : q = query[s] /\ f = found[s] OBVIOUS
        <3>2. f # << >> => SoundFor(q, f)' BY <1>1, <3>1, SoundStays DEF Looked
        <3>3. query'[s] = q /\ found'[s] = f BY <2>1, <3>1
        <3> QED BY <3>2, <3>3 DEF SoundFor, Key
    <2>4. answer'[s] # << >> => answer'[s] = Handed(s)
        BY <1>2, <1>3, <1>6 DEF WriteRetrievalAudit, PublishRetrieval
    <2>5. Handed(s)' = Handed(s) BY <2>1 DEF Handed
    <2>6. Handed(s) # << >> => found[s] # << >>
        <3>1. CASE found[s] = << >>
            BY <3>1 DEF Handed, AssembleContext
        <3> QED BY <3>1
    <2> QED BY <2>1, <2>2, <2>3, <2>4, <2>5, <2>6 DEF Looked
<1> QED BY <1>4, <1>5, <1>6 DEF Looks

\* Nothing is looked up at first.
LEMMA InitLookup == ASSUME Init PROVE LookupInv
<1>1. \A i \in Ingestions : Cutout(i) BY DEF Init, Cutout
<1>2. Written = {} /\ IsFiniteSet(table) BY FS_EmptySet DEF Init, Written
<1>3. \A s \in Searches : Looked(s) BY DEF Init, Looked
<1> QED BY <1>1, <1>2, <1>3 DEF LookupInv, Init

\* Every step preserves what is known of the lookups.
LEMMA LookupStep == ASSUME IndexInv, LookupInv, [Next]_vars PROVE LookupInv'
<1>1. \A s \in Searches : Looked(s)' BY RestsOrLooks, RestsStep, LooksStep
<1>2. DOMAIN query' = Searches
    <2>1. UNCHANGED query \/ \E s \in Searches : Search(s)
        <3>1. CASE UNCHANGED vars BY <3>1 DEF vars
        <3>2. CASE DeleteChunks BY <3>2 DEF DeleteChunks, searchVars
        <3>3. ASSUME NEW i \in Ingestions, Index(i) \/ Ingest(i) \/ CallDies(i) PROVE UNCHANGED query
            BY <3>3 DEF Index, Ingest, CreateIngestionJob, Embed, Embedded, EmbeddingFails, InsertChunk,
                   CommitChunks, CompleteIngestionJob, FailIngestionJob, PublishIngested, CallDies, searchVars
        <3>4. ASSUME NEW t \in Searches, Retrieve(t) \/ CallDies(t) PROVE UNCHANGED query
            BY <3>4 DEF Retrieve, Embed, Embedded, EmbeddingFails, SemanticSearch, WriteRetrievalAudit,
                   PublishRetrieval, CallDies, searchVars
        <3> QED BY <3>1, <3>2, <3>3, <3>4 DEF Next
    <2> QED BY <2>1 DEF LookupInv, Search
<1> QED BY <1>1, <1>2, DocumentsStep, TableStep DEF LookupInv

\* The inductive invariant of what is looked up in the index.
THEOREM LookupInvariance == Spec => [](IndexInv /\ LookupInv)
BY InitInv, InvariantStep, InitLookup, LookupStep, PTL DEF Spec

\* Whatever is ingested twice, deleted or probed while a search runs, what it hands out
\* was asked for, fits, names no position of a source twice, and is in the order of the
\* scores within each source: of the chunks deduplicated, ranked by scores and sources,
\* and packed into the budget.
THEOREM AnswersStaySound == Spec => []AnswersAreSound
<1>1. ASSUME IndexInv /\ LookupInv PROVE AnswersAreSound
    <2> SUFFICES ASSUME NEW s \in Searches, answer[s] # << >>
                 PROVE  LET q == query[s]  a == answer[s]
                        IN  /\ Len(a) <= q.topK
                            /\ q.enrich => Total([n \in DOMAIN a |-> a[n].tokens]) <= q.budget
                            /\ \A n \in DOMAIN a : a[n].id \in Written /\ Matches(q, a[n].id)
                            /\ \A n, m \in DOMAIN a : n < m =>
                                  /\ Key(a[n]) # Key(a[m])
                                  /\ a[n].source = a[m].source => a[n].score >= a[m].score
        BY DEF AnswersAreSound
    <2>1. PICK q \in Query : q = query[s] BY <1>1, QueriesAssumption DEF LookupInv, Looked
    <2>2. PICK f : f = found[s] OBVIOUS
    <2>3. PICK H : H = HitsFor(q) OBVIOUS
    <2>4. /\ f \in Seq(H) /\ Len(f) <= q.topK
          /\ \A n, m \in DOMAIN f : n # m => Key(f[n]) # Key(f[m])
          /\ \A n, m \in DOMAIN f : n < m /\ f[n].source = f[m].source => f[n].score >= f[m].score
        BY <1>1, <2>1, <2>2, <2>3 DEF LookupInv, Looked, SoundFor
    <2>5. \A h \in H : h.tokens \in Nat /\ h.id \in Written /\ Matches(q, h.id)
        BY <1>1, <2>3, StoredChunks DEF HitsFor
    <2>6. PICK a : a = answer[s] /\ a = IF q.enrich THEN AssembleContext(f, q.budget) ELSE f
        BY <1>1, <2>1, <2>2 DEF LookupInv, Looked, Handed
    <2>7. PICK L \in Nat : L = Len(f) /\ DOMAIN f = 1 .. L /\ \A n \in 1 .. L : f[n] \in H BY <2>4
    <2>8. PICK m \in 0 .. L : /\ a = [n \in 1 .. m |-> f[n]]
                              /\ q.enrich => Total([n \in 1 .. m |-> f[n].tokens]) <= q.budget
        <3>1. CASE q.enrich
            <4>1. PICK budget \in Nat : budget = q.budget BY DEF Query
            <4>2. a = AssembleContext(f, budget) BY <2>6, <3>1, <4>1
            <4>3. \E m \in 0 .. Len(f) : /\ a = [n \in 1 .. m |-> f[n]]
                                         /\ Total([n \in 1 .. m |-> f[n].tokens]) <= budget
                BY <2>4, <2>5, <4>2, AssembledAre
            <4> QED BY <2>7, <4>1, <4>3
        <3>2. CASE ~q.enrich
            <4>1. a = f
                BY <2>6, <3>2, Zenon
            <4>2. f = [n \in 1 .. L |-> f[n]] BY <2>4, <2>7
            <4>3. a = [n \in 1 .. L |-> f[n]] BY <4>1, <4>2
            <4>4. L \in 0 .. L OBVIOUS
            <4> QED BY <3>2, <4>3, <4>4
        <3> QED BY <3>1, <3>2
    <2>9. /\ m \in Nat /\ m <= L /\ DOMAIN a = 1 .. m /\ Len(a) = m
          /\ \A n \in 1 .. m : a[n] = f[n] /\ n \in 1 .. L
        BY <2>8
    <2>10. Len(a) <= q.topK
        <3>1. q.topK \in Nat BY DEF Query
        <3> QED BY <2>4, <2>7, <2>9, <3>1
    <2>11. q.enrich => Total([n \in DOMAIN a |-> a[n].tokens]) <= q.budget
        <3>1. [n \in DOMAIN a |-> a[n].tokens] = [n \in 1 .. m |-> f[n].tokens] BY <2>9
        <3> QED BY <2>8, <3>1
    <2>12. \A n \in DOMAIN a : a[n].id \in Written /\ Matches(q, a[n].id)
        <3>1. \A n \in DOMAIN a : a[n] \in H BY <2>7, <2>9
        <3> QED BY <2>5, <3>1
    <2>13. ASSUME NEW n \in DOMAIN a, NEW k \in DOMAIN a, n < k
           PROVE  /\ Key(a[n]) # Key(a[k])
                  /\ a[n].source = a[k].source => a[n].score >= a[k].score
        <3>1. /\ n \in DOMAIN f /\ k \in DOMAIN f /\ n # k /\ n < k
              /\ a[n] = f[n] /\ a[k] = f[k]
            BY <2>7, <2>9, <2>13
        <3> QED BY <2>4, <3>1
    <2> QED BY <2>1, <2>6, <2>10, <2>11, <2>12, <2>13
<1> QED BY <1>1, LookupInvariance, PTL

\* Whatever the lengths of the sentences and paragraphs and the overlap, the chunks of a
\* document say all of it in its order but what is no sentence in an oversized paragraph;
\* what they repeat is an end of the segment before; and unless it is a single sentence, a
\* chunk exceeds chunkSize at most by the overlap and a blank line.
THEOREM ChunkingSkipsNothing == Spec => []NothingIsSkipped
<1>1. ASSUME IndexInv /\ LookupInv PROVE NothingIsSkipped
    <2> SUFFICES ASSUME NEW i \in Ingestions, document[i] # None
                 PROVE  LET text == document[i].text
                            cut == passages[i]
                        IN  /\ FlattenSeq([k \in DOMAIN cut |-> cut[k].units])
                                  = FlattenSeq([p \in DOMAIN text |-> Kept(text, p)])
                            /\ \A k \in DOMAIN cut :
                                  /\ Continues(cut, k)
                                  /\ Len(cut[k].units) = 1 \/ cut[k].length <= ChunkSize + ChunkOverlap + 2
        BY DEF NothingIsSkipped
    <2>1. PICK doc \in Documents : doc = document[i] /\ passages[i] = Cut(doc)
        BY <1>1 DEF LookupInv, Cutout
    <2>2. PICK text \in Seq(Paragraph) : text = doc.text BY CutIs
    <2>3. PICK segments \in Seq(Fitting(text, ChunkSize)) : segments = Segments(text, ChunkSize)
        BY SegmentsAre
    <2>4. PICK cut : cut = passages[i] OBVIOUS
    <2>5. PICK n \in Nat : DOMAIN cut = 1 .. n /\ DOMAIN segments = 1 .. n
        BY <2>1, <2>2, <2>3, <2>4, CutIs
    <2>6. \A k \in 1 .. n : cut[k] = Passage(text, segments, k) /\ cut[k].units = segments[k]
        BY <2>1, <2>2, <2>3, <2>4, <2>5, CutIs
    <2>7. FlattenSeq([k \in DOMAIN cut |-> cut[k].units]) = FlattenSeq([p \in DOMAIN text |-> Kept(text, p)])
        <3>1. [k \in DOMAIN cut |-> cut[k].units] = [k \in 1 .. n |-> segments[k]] BY <2>5, <2>6
        <3>2. segments = [k \in 1 .. n |-> segments[k]] BY <2>5
        <3>3. KeptTo(text, Len(text)) = [p \in DOMAIN text |-> Kept(text, p)] BY DEF KeptTo
        <3> QED BY <2>3, <3>1, <3>2, <3>3, SegmentsAre
    <2>8. ASSUME NEW k \in 1 .. n
          PROVE  /\ Continues(cut, k)
                 /\ Len(cut[k].units) = 1 \/ cut[k].length <= ChunkSize + ChunkOverlap + 2
        <3>1. PICK p : p = Passage(text, segments, k) OBVIOUS
        <3>2. /\ p.length \in Nat /\ p.length <= SegmentLength(text, segments[k]) + ChunkOverlap + 2
              /\ IF k = 1 \/ ChunkOverlap = 0 THEN p.carried = << >>
                 ELSE p.carried \in Ends(segments[k - 1])
            <4>1. k \in DOMAIN segments BY <2>5
            <4> QED BY <3>1, <4>1, PassageIs
        <3>3. cut[k] = p /\ cut[k].units = segments[k] BY <2>6, <3>1
        <3>4. Continues(cut, k)
            <4>1. k # 1 => cut[k - 1].units = segments[k - 1] BY <2>6
            <4> QED BY <3>2, <3>3, <4>1 DEF Continues
        <3>5. segments[k] \in Fitting(text, ChunkSize) BY <2>5
        <3>6. Len(segments[k]) = 1 \/ SegmentLength(text, segments[k]) <= ChunkSize BY <3>5 DEF Fitting
        <3>7. SegmentLength(text, segments[k]) \in Nat
            <4>1. segments[k] \in Seq(UnitsOf(text)) BY <3>5 DEF Fitting
            <4> QED BY <4>1, SegmentLengthIsNat
        <3>8. ChunkSize \in Nat /\ ChunkOverlap \in Nat BY BoundsAssumption
        <3>9. Len(segments[k]) = 1 \/ p.length <= ChunkSize + ChunkOverlap + 2 BY <3>2, <3>6, <3>7, <3>8
        <3> QED BY <3>3, <3>4, <3>9
    <2> QED BY <2>1, <2>2, <2>4, <2>5, <2>7, <2>8
<1> QED BY <1>1, LookupInvariance, PTL

=============================================================================
