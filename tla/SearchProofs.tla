---------------------------- MODULE SearchProofs ----------------------------
(***************************************************************************)
(* What a search answers with is the best of what it may find: proved for  *)
(* every table and query of module Search, and as many candidates as its   *)
(* scores can tell apart.                                                  *)
(***************************************************************************)
EXTENDS Search, FiniteSetTheorems, WellFoundedInduction, TLAPS

-----------------------------------------------------------------------------
(* Numbers.  Least stands for induction: it is stated for a set, where the *)
(* induction theorems of the library take an operator.                     *)
LEMMA Least ==
  ASSUME NEW T, T \subseteq Nat, T # {}
  PROVE  \E x \in T : \A y \in T : x <= y
<1> DEFINE R == OpToRel(<, Nat)
<1>1. IsWellFoundedOn(R, Nat)
  BY NatLessThanWellFounded, Zenon
<1>2. \A x, y \in Nat : <<y, x>> \in R <=> y < x
  BY Zenon DEF OpToRel
<1> HIDE DEF R
<1>3. PICK x \in T : \A y \in T : ~(<<y, x>> \in R)
  BY <1>1, WFMin
<1>4. x \in Nat /\ \A y \in T : y \in Nat /\ ~(y < x)
  BY <1>2, <1>3
<1> QED
  BY <1>4

(* What a whole number of half-lives leaves of the boost, and what a rank  *)
(* counts for.                                                             *)
Boost(h) == 30000 \div 2^h
Share(i) == 1000000 \div (10 + i)

LEMMA Halved == \A h, k \in 0..14 : Boost(h) \in Nat /\ (h <= k => Boost(h) >= Boost(k))
<1>1. /\ Boost(0) = 30000 /\ Boost(1) = 15000 /\ Boost(2) = 7500
      /\ Boost(3) = 3750 /\ Boost(4) = 1875 /\ Boost(5) = 937
      /\ Boost(6) = 468 /\ Boost(7) = 234 /\ Boost(8) = 117
      /\ Boost(9) = 58 /\ Boost(10) = 29 /\ Boost(11) = 14
      /\ Boost(12) = 7 /\ Boost(13) = 3 /\ Boost(14) = 1
  BY SMT DEF Boost
<1>2. \A h \in 0..14 : \/ h = 0 \/ h = 1 \/ h = 2 \/ h = 3 \/ h = 4 \/ h = 5 \/ h = 6 \/ h = 7
                       \/ h = 8 \/ h = 9 \/ h = 10 \/ h = 11 \/ h = 12 \/ h = 13 \/ h = 14
  BY SMT
<1> QED
  BY <1>1, <1>2, SMT

LEMMA RankCounts ==
  \A i, j \in Nat : i <= 500 /\ j <= 500 =>
      Share(i) \in Nat /\ Share(i) > 0 /\ (i < j => Share(i) > Share(j))
<1>1. \A i \in Nat : Share(i) \in Nat
  BY SMT DEF Share
<1>2. \A i \in Nat : i <= 500 => Share(i) > 0
  BY SMT DEF Share
<1>3. \A i, j \in Nat : i < j /\ j <= 500 => Share(i) > Share(j)
  BY SMT DEF Share
<1> QED
  BY <1>1, <1>2, <1>3

(* A boost is never smaller for a row that is at least as new.             *)
LEMMA NewerIsBoosted ==
  ASSUME NEW a, NEW b, a.ago = None \/ a.ago \in Int, b.ago = None \/ b.ago \in Int,
         AtLeastAsNew(a, b)
  PROVE  Recency(a) \in Nat /\ Recency(b) \in Nat /\ Recency(a) >= Recency(b)
<1> DEFINE halvings(r) == IF Dated(r) THEN Max({r.ago, 0}) \div 720 ELSE 0
<1>1. \A x \in Int : Max({x, 0}) = IF x > 0 THEN x ELSE 0
  <2> SUFFICES ASSUME NEW x \in Int PROVE Max({x, 0}) = IF x > 0 THEN x ELSE 0
    OBVIOUS
  <2>1. \E y \in {x, 0} : \A z \in {x, 0} : y >= z
    OBVIOUS
  <2>2. Max({x, 0}) \in {x, 0} /\ \A z \in {x, 0} : Max({x, 0}) >= z
    BY <2>1 DEF Max
  <2> QED
    BY <2>2
<1>2. halvings(a) \in Nat /\ halvings(b) \in Nat
  BY <1>1 DEF Dated
<1>3. halvings(a) <= halvings(b)
  <2>1. CASE ~Dated(a)
    BY <1>2, <2>1
  <2>2. CASE Dated(a)
    <3>1. Dated(b) /\ a.ago \in Int /\ b.ago \in Int /\ a.ago <= b.ago
      BY <2>2 DEF AtLeastAsNew, Dated
    <3>2. Max({a.ago, 0}) \in Nat /\ Max({b.ago, 0}) \in Nat
          /\ Max({a.ago, 0}) <= Max({b.ago, 0})
      BY <1>1, <3>1
    <3> QED
      BY <2>2, <3>1, <3>2
  <2> QED
    BY <2>1, <2>2
<1> HIDE DEF halvings
<1>4. /\ Recency(a) = IF halvings(a) < 15 THEN Boost(halvings(a)) ELSE 0
      /\ Recency(b) = IF halvings(b) < 15 THEN Boost(halvings(b)) ELSE 0
  BY SMT DEF Recency, Boost, halvings
<1>5. \A h \in Nat : h < 15 => h \in 0..14
  OBVIOUS
<1> QED
  BY <1>2, <1>3, <1>4, <1>5, Halved


-----------------------------------------------------------------------------
(* A list of all elements of a set has each at one place.                  *)
LEMMA Listing ==
  ASSUME NEW S, IsFiniteSet(S), NEW f \in SetToSeqs(S)
  PROVE  /\ Cardinality(S) \in Nat /\ f \in Seq(S) /\ Len(f) = Cardinality(S)
         /\ DOMAIN f = 1..Cardinality(S) /\ \A i \in DOMAIN f : f[i] \in S
         /\ \A r \in S : \E i \in DOMAIN f : f[i] = r
         /\ \A i, j \in DOMAIN f : f[i] = f[j] => i = j
<1> DEFINE N == Cardinality(S)
<1>1. N \in Nat
  BY FS_CardinalityType
<1>2. f \in [1..N -> S] /\ \A i, j \in 1..N : i # j => f[i] # f[j]
  BY DEF SetToSeqs
<1> HIDE DEF N
<1>3. f \in Seq(S) /\ Len(f) = N /\ DOMAIN f = 1..N
  BY <1>1, <1>2
<1>4. f \in Surjection(1..N, S)
  <2>1. IsFiniteSet(1..N) /\ Cardinality(1..N) = N
    BY <1>1, FS_Interval
  <2>2. f \in Injection(1..N, S)
    BY <1>2 DEF Injection, IsInjective
  <2> QED
    BY <2>1, <2>2, FS_Injection DEF N
<1> QED
  BY <1>1, <1>2, <1>3, <1>4 DEF Surjection, N

(* An order tells the rows of a list apart.                                *)
Sorts(order, rows) ==
    \A r, s \in rows : order[r] \in Nat /\ (order[r] = order[s] => r = s)

(* The ranks of finitely many rows are 1, 2, 3 and so on, each once.       *)
LEMMA Ranks ==
  ASSUME NEW rows \in SUBSET Row, NEW order, Sorts(order, rows), NEW rank,
         rank = [r \in rows |-> Cardinality({s \in rows : Ahead(order, s, r)}) + 1]
  PROVE  /\ rank \in Bijection(rows, 1..Cardinality(rows))
         /\ \A r, s \in rows : Ahead(order, s, r) => rank[s] < rank[r]
<1> DEFINE N == Cardinality(rows)
           Above(r) == {s \in rows : Ahead(order, s, r)}
<1>1. IsFiniteSet(rows) /\ N \in Nat /\ \A r \in rows : r \in Nat
  BY SearchAssumption, FS_Subset, FS_CardinalityType
<1>2. /\ \A r \in rows : ~Ahead(order, r, r)
      /\ \A r, s \in rows : r # s => Ahead(order, r, s) \/ Ahead(order, s, r)
      /\ \A r, s, u \in rows : Ahead(order, r, s) /\ Ahead(order, s, u)
                                => Ahead(order, r, u)
  BY DEF Ahead, Sorts
<1>3. ASSUME NEW r \in rows
      PROVE  /\ IsFiniteSet(Above(r)) /\ Cardinality(Above(r)) \in Nat
             /\ Cardinality(Above(r)) <= N - 1
  <2>1. Above(r) \in SUBSET (rows \ {r})
    BY <1>2
  <2>2. IsFiniteSet(rows \ {r}) /\ Cardinality(rows \ {r}) = N - 1
    BY <1>1, FS_RemoveElement
  <2> QED
    BY <2>1, <2>2, FS_Subset, FS_CardinalityType
<1>4. ASSUME NEW r \in rows, NEW s \in rows, Ahead(order, s, r)
      PROVE  Cardinality(Above(s)) < Cardinality(Above(r))
  <2>1. Above(s) \in SUBSET Above(r) /\ Above(s) # Above(r)
    BY <1>2, <1>4
  <2> HIDE DEF Above
  <2>2. IsFiniteSet(Above(r)) /\ Cardinality(Above(r)) \in Nat /\ Cardinality(Above(s)) \in Nat
    BY <1>3
  <2>3. Cardinality(Above(s)) <= Cardinality(Above(r))
        /\ Cardinality(Above(s)) # Cardinality(Above(r))
    BY <2>1, <2>2, FS_Subset
  <2> QED
    BY <2>2, <2>3
<1>5. DOMAIN rank = rows /\ \A r \in rows : rank[r] = Cardinality(Above(r)) + 1
  OBVIOUS
<1> HIDE DEF Above, N
<1>6. rank = [r \in rows |-> rank[r]] /\ \A r \in rows : rank[r] \in 1..N
  <2>1. \A r \in rows : rank[r] \in 1..N
    BY <1>1, <1>3, <1>5
  <2>2. rank = [r \in rows |-> rank[r]]
    BY DEF Above
  <2> QED
    BY <2>1, <2>2
<1>7. rank \in [rows -> 1..N]
  BY <1>6
<1>8. \A r, s \in rows : Ahead(order, s, r) => rank[s] < rank[r]
  BY <1>3, <1>4, <1>5
<1>9. ASSUME NEW r \in rows, NEW s \in rows, r # s PROVE rank[r] # rank[s]
  <2>1. rank[r] < rank[s] \/ rank[s] < rank[r]
    BY <1>2, <1>8, <1>9
  <2>2. rank[r] \in Int /\ rank[s] \in Int
    BY <1>1, <1>6
  <2> QED
    BY <2>1, <2>2
<1>10. rank \in Injection(rows, 1..N)
  BY <1>7, <1>9 DEF Injection, IsInjective
<1>11. IsFiniteSet(1..N) /\ Cardinality(1..N) = N
  BY <1>1, FS_Interval
<1>12. rank \in Surjection(rows, 1..N)
  BY <1>10, <1>11, FS_Injection DEF N
<1> QED
  BY <1>8, <1>10, <1>12 DEF Bijection, N

(* A list keeps all its rows, or as many as it may, and with a row all     *)
(* that are ahead of it.                                                   *)
LEMMA RankedKeeps ==
  ASSUME NEW rows \in SUBSET Row, NEW order, Sorts(order, rows)
  PROVE  LET ranks == Ranked(rows, order) IN
         /\ DOMAIN ranks \subseteq rows /\ IsFiniteSet(DOMAIN ranks)
         /\ DOMAIN ranks = rows \/ Cardinality(DOMAIN ranks) = Candidates
         /\ \A r \in DOMAIN ranks : ranks[r] \in 1..Candidates
         /\ \A r \in DOMAIN ranks, s \in rows :
                Ahead(order, s, r) => s \in DOMAIN ranks /\ ranks[s] < ranks[r]
<1> DEFINE N == Cardinality(rows)
           rank == [r \in rows |-> Cardinality({s \in rows : Ahead(order, s, r)}) + 1]
           ranks == Ranked(rows, order)
           kept == {r \in rows : rank[r] <= Candidates}
<1>1. IsFiniteSet(rows) /\ N \in Nat /\ Candidates \in 1..500
  BY SearchAssumption, FS_Subset, FS_CardinalityType
<1>2. rank \in Bijection(rows, 1..N) /\ \A r, s \in rows : Ahead(order, s, r) => rank[s] < rank[r]
  <2> HIDE DEF rank
  <2>1. rank = [r \in rows |-> Cardinality({s \in rows : Ahead(order, s, r)}) + 1]
    BY DEF rank
  <2> QED
    BY <2>1, Ranks
<1>3. ranks = [r \in kept |-> rank[r]]
  BY DEF Ranked
<1> HIDE DEF rank, ranks
<1>4. /\ \A r \in rows : rank[r] \in 1..N
      /\ \A r, s \in rows : rank[r] = rank[s] => r = s
      /\ \A k \in 1..N : \E r \in rows : rank[r] = k
  BY <1>2 DEF Bijection, Injection, Surjection, IsInjective
<1>5. DOMAIN ranks = kept /\ \A r \in kept : ranks[r] = rank[r]
  BY <1>3
<1>6. kept = rows \/ Cardinality(kept) = Candidates
  <2>1. CASE N <= Candidates
    BY <1>1, <1>4, <2>1
  <2>2. CASE ~(N <= Candidates)
    <3>1. ranks \in [kept -> 1..Candidates]
      BY <1>1, <1>3, <1>4
    <3>2. ranks \in Injection(kept, 1..Candidates)
      BY <1>4, <1>5, <3>1 DEF Injection, IsInjective
    <3>3. ASSUME NEW k \in 1..Candidates PROVE \E r \in kept : ranks[r] = k
      <4>1. k \in 1..N /\ k <= Candidates
        BY <1>1, <2>2
      <4> QED
        BY <1>4, <1>5, <4>1
    <3>4. ranks \in Surjection(kept, 1..Candidates)
      BY <3>1, <3>3 DEF Surjection
    <3>5. IsFiniteSet(1..Candidates) /\ Cardinality(1..Candidates) = Candidates
      <4>1. 1 \in Int /\ Candidates \in Int /\ ~(1 > Candidates)
        BY <1>1
      <4> QED
        BY <4>1, FS_Interval
    <3> QED
      BY <3>2, <3>4, <3>5, FS_Injection
  <2> QED
    BY <2>1, <2>2
<1>7. kept \subseteq rows /\ IsFiniteSet(kept)
  BY <1>1, FS_Subset
<1>8. \A r \in kept : ranks[r] \in 1..Candidates
  BY <1>1, <1>4, <1>5
<1>9. \A r \in kept, s \in rows : Ahead(order, s, r) => s \in kept /\ ranks[s] < ranks[r]
  BY <1>1, <1>2, <1>4, <1>5
<1> QED
  BY <1>5, <1>6, <1>7, <1>8, <1>9 DEF ranks

LEMMA RankedCounts ==
  ASSUME NEW rows \in SUBSET Row, NEW order, Sorts(order, rows), NEW r
  PROVE  LET ranks == Ranked(rows, order) IN
         /\ Reciprocal(ranks, r) \in Nat
         /\ r \in DOMAIN ranks => Reciprocal(ranks, r) = Share(ranks[r])
         /\ r \notin DOMAIN ranks => Reciprocal(ranks, r) = 0
<1> DEFINE ranks == Ranked(rows, order)
<1>1. /\ r \in DOMAIN ranks => Reciprocal(ranks, r) = Share(ranks[r])
      /\ r \notin DOMAIN ranks => Reciprocal(ranks, r) = 0
  BY SMT DEF Reciprocal, Share
<1>2. \A x \in DOMAIN ranks : ranks[x] \in 1..Candidates
  BY RankedKeeps
<1> HIDE DEF ranks
<1>3. r \in DOMAIN ranks => ranks[r] \in Nat /\ ranks[r] <= 500
  BY <1>2, SearchAssumption
<1>4. r \in DOMAIN ranks => Share(ranks[r]) \in Nat
  BY <1>3, RankCounts
<1> QED
  BY <1>1, <1>4 DEF ranks

(* Of a list, the row that is ahead gets more.                             *)
LEMMA AheadCounts ==
  ASSUME NEW rows \in SUBSET Row, NEW order, Sorts(order, rows), NEW a \in rows, NEW b \in Row,
         b \in rows => Ahead(order, a, b)
  PROVE  LET ranks == Ranked(rows, order) IN
         /\ Reciprocal(ranks, a) >= Reciprocal(ranks, b)
         /\ b \in DOMAIN ranks => /\ a \in DOMAIN ranks
                                 /\ Reciprocal(ranks, a) > Reciprocal(ranks, b)
<1> DEFINE ranks == Ranked(rows, order)
<1>1. /\ DOMAIN ranks \subseteq rows
      /\ \A r \in DOMAIN ranks : ranks[r] \in 1..Candidates
      /\ \A r \in DOMAIN ranks, s \in rows :
             Ahead(order, s, r) => s \in DOMAIN ranks /\ ranks[s] < ranks[r]
  BY RankedKeeps
<1>2. \A r : /\ Reciprocal(ranks, r) \in Nat
             /\ r \in DOMAIN ranks => Reciprocal(ranks, r) = Share(ranks[r])
             /\ r \notin DOMAIN ranks => Reciprocal(ranks, r) = 0
  BY RankedCounts
<1> HIDE DEF ranks
<1>3. CASE b \in DOMAIN ranks
  <2>1. a \in DOMAIN ranks /\ ranks[a] < ranks[b]
    BY <1>1, <1>3
  <2>2. ranks[a] \in Nat /\ ranks[a] <= 500 /\ ranks[b] \in Nat /\ ranks[b] <= 500
    BY <1>1, <1>3, <2>1, SearchAssumption
  <2>3. Share(ranks[a]) > Share(ranks[b])
    BY <2>1, <2>2, RankCounts
  <2>4. Reciprocal(ranks, a) > Reciprocal(ranks, b)
    BY <1>2, <1>3, <2>1, <2>3
  <2> QED
    BY <1>2, <2>1, <2>4 DEF ranks
<1>4. CASE b \notin DOMAIN ranks
  BY <1>2, <1>4 DEF ranks
<1> QED
  BY <1>3, <1>4

-----------------------------------------------------------------------------
(* A row that outdoes one of the rows that are matched is matched as well, *)
(* and has the higher score.                                               *)
Near(q)    == {r \in Row : Eligible(q, r) /\ q.table[r].seen}
Spoken(q)  == {r \in Row : Named(q, r) /\ Eligible(q, r)}
Matched(q) == DOMAIN VectorMatches(q) \cup DOMAIN KeywordMatches(q)
Total(q, r) == Score(q, r, VectorMatches(q), KeywordMatches(q))

WellAsked(q) ==
    /\ \A r \in Row : q.table[r].ago = None \/ q.table[r].ago \in Int
    /\ q.relevance \in Orders \cup {None}

LEMMA Lists ==
  ASSUME NEW q, WellAsked(q)
  PROVE  /\ Near(q) \in SUBSET Row /\ VectorMatches(q) = Ranked(Near(q), Nearness)
         /\ Spoken(q) \in SUBSET Row /\ KeywordMatches(q) = Ranked(Spoken(q), q.relevance)
         /\ Sorts(Nearness, Near(q)) /\ Sorts(q.relevance, Spoken(q))
         /\ \A r \in Row : Findable(q, r) <=> r \in Near(q) \cup Spoken(q)
<1>1. VectorMatches(q) = Ranked(Near(q), Nearness)
  BY DEF VectorMatches, Near
<1>2. KeywordMatches(q) = Ranked(Spoken(q), q.relevance)
  BY DEF KeywordMatches, Spoken
<1>3. \A r \in Row : Findable(q, r) <=> r \in Near(q) \cup Spoken(q)
  BY DEF Near, Spoken, Findable
<1>4. Sorts(Nearness, Near(q))
  BY SearchAssumption DEF Sorts, Nearness, Near
<1>5. Sorts(q.relevance, Spoken(q))
  BY SearchAssumption DEF Sorts, Spoken, Named, WellAsked
<1> QED
  BY <1>1, <1>2, <1>3, <1>4, <1>5 DEF Near, Spoken

LEMMA TotalIsNat ==
  ASSUME NEW q, WellAsked(q), NEW r \in Row
  PROVE  Total(q, r) \in Nat
<1> DEFINE row == q.table[r]
<1>1. Recency(row) \in Nat
  <2>1. row.ago = None \/ row.ago \in Int
    BY DEF WellAsked
  <2> HIDE DEF row
  <2>2. AtLeastAsNew(row, row)
    BY <2>1 DEF AtLeastAsNew, Dated
  <2> QED
    BY <2>1, <2>2, NewerIsBoosted
<1>2. Reciprocal(VectorMatches(q), r) \in Nat /\ Reciprocal(KeywordMatches(q), r) \in Nat
  BY Lists, RankedCounts
<1> QED
  BY <1>1, <1>2 DEF Total, Score

LEMMA OutdoingScores ==
  ASSUME NEW q, WellAsked(q), NEW a \in Row, NEW b \in Row,
         Findable(q, a), Findable(q, b), Outdoes(q, a, b), b \in Matched(q)
  PROVE  a \in Matched(q) /\ Total(q, a) > Total(q, b)
<1> DEFINE near == VectorMatches(q)
           named == KeywordMatches(q)
           n(r) == Reciprocal(near, r)
           k(r) == Reciprocal(named, r)
           t(r) == Recency(q.table[r])
<1>1. t(a) \in Nat /\ t(b) \in Nat /\ t(a) >= t(b)
  <2> DEFINE x == q.table[a]
             y == q.table[b]
  <2>1. (x.ago = None \/ x.ago \in Int) /\ (y.ago = None \/ y.ago \in Int)
    BY DEF WellAsked
  <2>2. AtLeastAsNew(x, y)
    BY DEF Outdoes
  <2> HIDE DEF x, y
  <2>3. Recency(x) \in Nat /\ Recency(y) \in Nat /\ Recency(x) >= Recency(y)
    BY <2>1, <2>2, NewerIsBoosted
  <2> QED
    BY <2>3 DEF x, y
<1>2. n(a) \in Nat /\ n(b) \in Nat /\ k(a) \in Nat /\ k(b) \in Nat
  BY Lists, RankedCounts
<1>3. /\ DOMAIN near \subseteq Near(q) /\ DOMAIN named \subseteq Spoken(q)
      /\ \A r : r \notin DOMAIN near => n(r) = 0
      /\ \A r : r \notin DOMAIN named => k(r) = 0
  <2>1. DOMAIN near \subseteq Near(q)
    BY Lists, RankedKeeps
  <2>2. DOMAIN named \subseteq Spoken(q)
    BY Lists, RankedKeeps
  <2>3. ASSUME NEW r, r \notin DOMAIN near PROVE n(r) = 0
    BY <2>3, SMT DEF Reciprocal
  <2>4. ASSUME NEW r, r \notin DOMAIN named PROVE k(r) = 0
    BY <2>4, SMT DEF Reciprocal
  <2> QED
    BY <2>1, <2>2, <2>3, <2>4
<1>4. ASSUME Nearer(q, a, b)
      PROVE  n(a) >= n(b) /\ (b \in DOMAIN near => a \in DOMAIN near /\ n(a) > n(b))
  <2>1. a \in Near(q) /\ (b \in Near(q) => Ahead(Nearness, a, b))
    BY <1>4 DEF Nearer, Near, Findable, Ahead, Nearness
  <2> QED
    BY <2>1, Lists, AheadCounts
<1>5. ASSUME MoreRelevant(q, a, b)
      PROVE  k(a) >= k(b) /\ (b \in DOMAIN named => a \in DOMAIN named /\ k(a) > k(b))
  <2>1. a \in Spoken(q) /\ (b \in Spoken(q) => Ahead(q.relevance, a, b))
    BY <1>5 DEF MoreRelevant, Spoken, Findable
  <2> QED
    BY <2>1, Lists, AheadCounts
<1>6. ASSUME ~Named(q, a), ~Named(q, b) PROVE k(a) = 0 /\ k(b) = 0 /\ b \notin DOMAIN named
  BY <1>3, <1>6 DEF Spoken
<1>7. ASSUME ~q.table[a].seen, ~q.table[b].seen
      PROVE  n(a) = 0 /\ n(b) = 0 /\ b \notin DOMAIN near
  BY <1>3, <1>7 DEF Near
<1>8. b \in DOMAIN near \/ b \in DOMAIN named
  BY DEF Matched
<1>9. /\ n(a) >= n(b) /\ k(a) >= k(b)
      /\ (a \in DOMAIN near /\ n(a) > n(b)) \/ (a \in DOMAIN named /\ k(a) > k(b))
  <2>1. n(a) = 0 /\ n(b) = 0 => n(a) >= n(b)
    OBVIOUS
  <2>2. k(a) = 0 /\ k(b) = 0 => k(a) >= k(b)
    OBVIOUS
  <2> HIDE DEF near, named, n, k
  <2>3. CASE Nearer(q, a, b) /\ MoreRelevant(q, a, b)
    BY <1>4, <1>5, <1>8, <2>3
  <2>4. CASE Nearer(q, a, b) /\ ~Named(q, a) /\ ~Named(q, b)
    BY <1>4, <1>6, <1>8, <2>2, <2>4
  <2>5. CASE MoreRelevant(q, a, b) /\ ~q.table[a].seen /\ ~q.table[b].seen
    BY <1>5, <1>7, <1>8, <2>1, <2>5
  <2> QED
    BY <2>3, <2>4, <2>5 DEF Outdoes
<1>10. Total(q, a) = n(a) + k(a) + t(a) /\ Total(q, b) = n(b) + k(b) + t(b)
  BY DEF Total, Score
<1>11. a \in Matched(q)
  BY <1>9 DEF Matched
<1> HIDE DEF n, k, t, near, named
<1> QED
  BY <1>1, <1>2, <1>9, <1>10, <1>11

(* What is ordered from each place to the next is ordered.                 *)
LEMMA Sorted ==
  ASSUME NEW N \in Nat, NEW v, \A i \in 1..N : v[i] \in Int,
         \A i \in 1 .. N - 1 : v[i] >= v[i + 1]
  PROVE  \A i, j \in 1..N : i <= j => v[i] >= v[j]
<1> SUFFICES ASSUME NEW i \in 1..N PROVE \A j \in 1..N : i <= j => v[i] >= v[j]
  OBVIOUS
<1> DEFINE T == {j \in 1..N : i <= j /\ v[j] > v[i]}
<1>1. T = {}
  <2> SUFFICES ASSUME T # {} PROVE FALSE
    OBVIOUS
  <2>1. PICK j \in T : \A k \in T : j <= k
    <3>1. T \subseteq Nat
      OBVIOUS
    <3> HIDE DEF T
    <3> QED
      BY <3>1, Least
  <2>2. j \in 1..N /\ i <= j /\ v[j] > v[i] /\ v[i] \in Int
    OBVIOUS
  <2>3. j # i
    BY <2>2
  <2>4. j - 1 \in 1 .. N - 1 /\ j - 1 \in 1..N /\ i <= j - 1 /\ (j - 1) + 1 = j /\ ~(j <= j - 1)
    BY <2>2, <2>3
  <2>5. v[j - 1] >= v[j] /\ v[j - 1] \in Int /\ v[j] \in Int
    BY <2>2, <2>4
  <2>6. v[j - 1] > v[i]
    BY <2>2, <2>5
  <2>7. j - 1 \in T
    BY <2>4, <2>6
  <2> QED
    BY <2>1, <2>4, <2>7
<1> QED
  BY <1>1

(* What is promised of the rows that a query returns.                      *)
Promised(q, rows) ==
    /\ rows \in Seq(Row)
    /\ \A i, j \in DOMAIN rows : rows[i] = rows[j] => i = j
    /\ \A i \in DOMAIN rows : Findable(q, rows[i])
    /\ Len(rows) < q.limit =>
           \A r \in Row : Findable(q, r) => \E i \in DOMAIN rows : rows[i] = r
    /\ \A a, b \in Row : Findable(q, a) /\ Findable(q, b) /\ Outdoes(q, a, b) =>
           \A j \in DOMAIN rows : rows[j] = b => \E i \in 1 .. j - 1 : rows[i] = a

LEMMA HybridKeepsTheBest ==
  ASSUME NEW q, WellAsked(q), q.limit \in Limits, NEW rows \in HybridQuery(q)
  PROVE  Promised(q, rows)
<1> DEFINE M == Matched(q)
<1>1. PICK s \in SetToSeqs(M) :
          /\ \A i \in 1 .. Len(s) - 1 : Total(q, s[i]) >= Total(q, s[i + 1])
          /\ rows = SubSeq(s, 1, IF Len(s) < q.limit THEN Len(s) ELSE q.limit)
  BY DEF HybridQuery, Matched, Total
<1> DEFINE m == IF Len(s) < q.limit THEN Len(s) ELSE q.limit
<1>2. /\ DOMAIN VectorMatches(q) \subseteq Near(q) /\ DOMAIN KeywordMatches(q) \subseteq Spoken(q)
      /\ IsFiniteSet(DOMAIN VectorMatches(q)) /\ IsFiniteSet(DOMAIN KeywordMatches(q))
      /\ \/ DOMAIN VectorMatches(q) = Near(q)
         \/ Cardinality(DOMAIN VectorMatches(q)) = Candidates
      /\ \/ DOMAIN KeywordMatches(q) = Spoken(q)
         \/ Cardinality(DOMAIN KeywordMatches(q)) = Candidates
  <2>1. /\ VectorMatches(q) = Ranked(Near(q), Nearness) /\ Near(q) \in SUBSET Row
        /\ Sorts(Nearness, Near(q))
    BY Lists
  <2>2. /\ KeywordMatches(q) = Ranked(Spoken(q), q.relevance) /\ Spoken(q) \in SUBSET Row
        /\ Sorts(q.relevance, Spoken(q))
    BY Lists
  <2>3. /\ DOMAIN VectorMatches(q) \subseteq Near(q) /\ IsFiniteSet(DOMAIN VectorMatches(q))
        /\ \/ DOMAIN VectorMatches(q) = Near(q)
           \/ Cardinality(DOMAIN VectorMatches(q)) = Candidates
    <3> DEFINE R == Ranked(Near(q), Nearness)
    <3>1. /\ DOMAIN R \subseteq Near(q) /\ IsFiniteSet(DOMAIN R)
          /\ DOMAIN R = Near(q) \/ Cardinality(DOMAIN R) = Candidates
      BY <2>1, RankedKeeps
    <3> HIDE DEF R
    <3>2. VectorMatches(q) = R
      BY <2>1 DEF R
    <3> QED
      BY <3>1, <3>2
  <2>4. /\ DOMAIN KeywordMatches(q) \subseteq Spoken(q) /\ IsFiniteSet(DOMAIN KeywordMatches(q))
        /\ \/ DOMAIN KeywordMatches(q) = Spoken(q)
           \/ Cardinality(DOMAIN KeywordMatches(q)) = Candidates
    BY <2>2, RankedKeeps
  <2> QED
    BY <2>3, <2>4
<1>3. IsFiniteSet(M) /\ M \subseteq Row /\ \A r \in M : Findable(q, r)
  <2>1. IsFiniteSet(M)
    BY <1>2, FS_Union DEF Matched
  <2> QED
    BY <1>2, <2>1, Lists DEF Matched
<1>4. /\ Cardinality(M) \in Nat /\ s \in Seq(M) /\ Len(s) = Cardinality(M)
      /\ DOMAIN s = 1..Len(s) /\ \A i \in 1..Len(s) : s[i] \in M
      /\ \A r \in M : \E i \in 1..Len(s) : s[i] = r
      /\ \A i, j \in 1..Len(s) : s[i] = s[j] => i = j
  BY <1>3, Listing
<1> HIDE DEF M
<1>5. q.limit \in Nat /\ 1 <= q.limit /\ q.limit <= Candidates /\ Candidates \in Nat
  <2>1. q.limit \in 1..Candidates /\ Candidates \in 1..500
    BY SearchAssumption
  <2> QED
    BY <2>1
<1>6. m \in Nat /\ m <= Len(s) /\ Len(s) \in Nat
  BY <1>4, <1>5
<1>7. rows = SubSeq(s, 1, m)
  BY <1>1
<1>8. m < q.limit => m = Len(s) /\ Cardinality(M) < Candidates
  BY <1>4, <1>5
<1> HIDE DEF m
<1>9. rows \in Seq(M) /\ Len(rows) = m /\ DOMAIN rows = 1..m /\ \A i \in 1..m : rows[i] = s[i]
  BY <1>4, <1>6, <1>7
<1>10. rows \in Seq(Row)
  BY <1>3, <1>9
<1>11. \A i \in 1..m : i \in 1..Len(s)
  BY <1>6
<1>12. \A i, j \in DOMAIN rows : rows[i] = rows[j] => i = j
  BY <1>4, <1>9, <1>11
<1>13. \A i \in DOMAIN rows : Findable(q, rows[i])
  BY <1>3, <1>4, <1>9, <1>11
<1>14. ASSUME Len(rows) < q.limit, NEW r \in Row, Findable(q, r)
       PROVE  \E i \in DOMAIN rows : rows[i] = r
  <2>1. m = Len(s) /\ Cardinality(M) < Candidates
    BY <1>8, <1>9, <1>14
  <2>2. \A S \in SUBSET M : Cardinality(S) # Candidates
    <3>1. \A S \in SUBSET M : Cardinality(S) \in Nat /\ Cardinality(S) <= Cardinality(M)
      BY <1>3, FS_Subset, FS_CardinalityType
    <3> QED
      BY <1>4, <1>5, <2>1, <3>1
  <2>3. M = Near(q) \cup Spoken(q)
    BY <1>2, <2>2 DEF M, Matched
  <2>4. r \in M
    BY <1>14, <2>3, Lists
  <2> QED
    BY <1>4, <1>9, <2>1, <2>4
<1>15. ASSUME NEW a \in Row, NEW b \in Row, Findable(q, a), Findable(q, b), Outdoes(q, a, b),
              NEW j \in DOMAIN rows, rows[j] = b
       PROVE  \E i \in 1 .. j - 1 : rows[i] = a
  <2>1. j \in 1..Len(s) /\ j <= m /\ s[j] = b /\ b \in M
    BY <1>4, <1>6, <1>9, <1>11, <1>15
  <2>2. a \in M /\ Total(q, a) > Total(q, b)
    BY <1>15, <2>1, OutdoingScores DEF M
  <2>3. PICK i \in 1..Len(s) : s[i] = a
    BY <1>4, <2>2
  <2>4. i < j
    <3> DEFINE v == [k \in 1..Len(s) |-> Total(q, s[k])]
    <3>1. \A k \in 1..Len(s) : v[k] \in Int /\ v[k] = Total(q, s[k])
      <4>1. \A k \in 1..Len(s) : Total(q, s[k]) \in Nat
        BY <1>3, <1>4, TotalIsNat
      <4> QED
        BY <4>1
    <3>2. \A k \in 1 .. Len(s) - 1 : v[k] >= v[k + 1]
      <4>1. \A k \in 1 .. Len(s) - 1 : k \in 1..Len(s) /\ k + 1 \in 1..Len(s)
        BY <1>6
      <4> QED
        BY <1>1, <3>1, <4>1
    <3> HIDE DEF v
    <3>3. j <= i => v[j] >= v[i]
      BY <1>6, <2>1, <3>1, <3>2, Sorted
    <3>4. v[i] > v[j] /\ v[i] \in Int /\ v[j] \in Int
      BY <2>1, <2>2, <2>3, <3>1
    <3> QED
      BY <1>6, <2>1, <3>3, <3>4
  <2>5. i \in 1 .. j - 1 /\ i \in 1..m
    BY <1>6, <2>1, <2>4
  <2> QED
    BY <1>9, <2>3, <2>5
<1> QED
  BY <1>10, <1>12, <1>13, <1>14, <1>15 DEF Promised

LEMMA SelectionKeeps ==
  ASSUME NEW rows \in Seq(Row), \A i, j \in DOMAIN rows : rows[i] = rows[j] => i = j,
         NEW S, NEW kept \in Selections(rows, S)
  PROVE  /\ \A j \in DOMAIN kept : kept[j] \in S /\ \E n \in DOMAIN rows : rows[n] = kept[j]
         /\ \A j \in DOMAIN kept, m, n \in DOMAIN rows :
                m < n /\ rows[n] = kept[j] /\ rows[m] \in S =>
                    \E i \in 1 .. j - 1 : kept[i] = rows[m]
<1> DEFINE both == ToSet(rows) \cap S
<1>1. kept \in SetToSeqs(both)
  BY DEF Selections
<1>2. ASSUME NEW i \in DOMAIN kept, NEW j \in DOMAIN kept, i < j
      PROVE  \E m, n \in DOMAIN rows : m < n /\ rows[m] = kept[i] /\ rows[n] = kept[j]
  BY <1>2 DEF Selections
<1>3. \A r \in ToSet(rows) : r \in Row /\ \E n \in DOMAIN rows : rows[n] = r
  BY DEF ToSet
<1>4. \A n \in DOMAIN rows : rows[n] \in ToSet(rows) /\ n \in Nat
  BY DEF ToSet
<1>5. IsFiniteSet(both)
  <2>1. both \in SUBSET Row
    BY <1>3
  <2> HIDE DEF both
  <2> QED
    BY <2>1, SearchAssumption, FS_Subset
<1>6. both \subseteq ToSet(rows) /\ both \subseteq S
      /\ \A r \in ToSet(rows) : r \in S => r \in both
  OBVIOUS
<1> HIDE DEF both
<1>7. /\ Cardinality(both) \in Nat /\ DOMAIN kept = 1..Cardinality(both)
      /\ \A i \in DOMAIN kept : kept[i] \in both
      /\ \A r \in both : \E i \in DOMAIN kept : kept[i] = r
  BY <1>1, <1>5, Listing
<1>8. ASSUME NEW j \in DOMAIN kept, NEW m \in DOMAIN rows, NEW n \in DOMAIN rows,
             m < n, rows[n] = kept[j], rows[m] \in S
      PROVE  \E i \in 1 .. j - 1 : kept[i] = rows[m]
  <2>1. PICK i \in DOMAIN kept : kept[i] = rows[m]
    BY <1>4, <1>6, <1>7, <1>8
  <2>2. i # j
    BY <1>4, <1>8, <2>1
  <2>3. ~(j < i)
    <3> SUFFICES ASSUME j < i PROVE FALSE
      OBVIOUS
    <3>1. PICK m2, n2 \in DOMAIN rows : m2 < n2 /\ rows[m2] = kept[j] /\ rows[n2] = kept[i]
      BY <1>2
    <3>2. m2 = n /\ n2 = m
      BY <1>8, <2>1, <3>1
    <3> QED
      BY <1>4, <1>8, <3>1, <3>2
  <2>4. i \in 1 .. j - 1
    BY <1>7, <2>2, <2>3
  <2> QED
    BY <2>1, <2>4
<1> QED
  BY <1>3, <1>6, <1>7, <1>8

-----------------------------------------------------------------------------
(* The promise, with its hour made explicit.                               *)
FindableAt(hour, q, r) ==
    /\ q.table[r].mine
    /\ q.tag = None \/ q.tag \in q.table[r].tags
    /\ q.range # None => q.table[r].ago # None /\ Within(hour - q.table[r].ago, q.range)
    /\ q.table[r].seen \/ Named(q, r)

Best(hour, q, rows) ==
    /\ \A i \in DOMAIN rows : FindableAt(hour, q, rows[i])
    /\ ~Broad(q.tag) /\ Len(rows) < q.limit =>
           \A r \in Row : FindableAt(hour, q, r) => \E i \in DOMAIN rows : rows[i] = r
    /\ \A a, b \in Row : FindableAt(hour, q, a) /\ FindableAt(hour, q, b) /\ Outdoes(q, a, b) =>
           \A j \in DOMAIN rows : rows[j] = b => \E i \in 1 .. j - 1 : rows[i] = a

LEMMA FindableNow == \A q, r : Findable(q, r) <=> FindableAt(now, q, r)
  BY DEF Findable, FindableAt, Eligible, Dated, At

BestHits == request # Idle => Best(now, request, hits)

LEMMA BestNow == SearchKeepsTheBest <=> BestHits
  BY FindableNow DEF SearchKeepsTheBest, Best, BestHits

LEMMA BestThen == SearchKeepsTheBest' <=> (request' # Idle => Best(now', request', hits'))
<1>1. SearchKeepsTheBest' <=> BestHits'
  BY BestNow, PTL
<1> QED
  BY <1>1 DEF BestHits

LEMMA AskIsWellAsked ==
  ASSUME NEW q \in Requests, Ask(q)
  PROVE  /\ WellAsked(request') /\ request'.limit \in Limits
         /\ request'.tag = q.tag /\ request'.table = q.table /\ now' = now
<1>1. /\ request'.limit = q.limit /\ request'.tag = q.tag /\ request'.table = q.table
      /\ request'.relevance = q.relevance /\ now' = now
  BY DEF Ask, Requests
<1>2. /\ q.limit \in Limits /\ q.table \in [Row -> Kinds]
      /\ q.relevance \in Orders \cup {None}
  BY DEF Requests
<1>3. WellAsked(request')
  BY <1>1, <1>2, SearchAssumption DEF WellAsked
<1> QED
  BY <1>1, <1>2, <1>3

(* A search answers with rows of its user that pass its filters, as many   *)
(* as it may and finds, and with none before one that outdoes it: for any  *)
(* number of rows, of any kinds, and for any query and hour.               *)
THEOREM SearchSafety == Spec => []SearchKeepsTheBest
<1>1. Init => SearchKeepsTheBest
  BY DEF Init, SearchKeepsTheBest
<1>2. SearchKeepsTheBest /\ [Next]_vars => SearchKeepsTheBest'
  <2> SUFFICES ASSUME SearchKeepsTheBest, [Next]_vars PROVE SearchKeepsTheBest'
    OBVIOUS
  <2>1. CASE Tick
    BY <2>1, BestThen DEF Tick
  <2>2. CASE Answered
    BY <2>2, BestThen DEF Answered
  <2>3. ASSUME NEW q \in Requests, SearchOne(q) PROVE SearchKeepsTheBest'
    <3>1. Ask(q) /\ hits' \in HybridQuery(request')
      BY <2>3 DEF SearchOne
    <3>2. WellAsked(request') /\ request'.limit \in Limits /\ now' = now
      BY <3>1, AskIsWellAsked
    <3>3. Promised(request', hits')
      BY <3>1, <3>2, HybridKeepsTheBest
    <3>4. Best(now', request', hits')
      BY <3>2, <3>3, FindableNow DEF Promised, Best
    <3> QED
      BY <3>4, BestThen
  <2>4. ASSUME NEW q \in Requests, DriveSearch(q) PROVE SearchKeepsTheBest'
    <3> DEFINE wide == [request' EXCEPT !.tag = None]
               S == {r \in Row : q.tag \in q.table[r].tags}
    <3>1. PICK rows \in HybridQuery(wide) : hits' \in Selections(rows, S)
      BY <2>4 DEF DriveSearch
    <3>2. Ask(q) /\ Broad(q.tag)
      BY <2>4 DEF DriveSearch
    <3>3. /\ WellAsked(request') /\ request'.limit \in Limits /\ now' = now
          /\ request'.tag = q.tag /\ request'.table = q.table
      BY <3>2, AskIsWellAsked
    <3>4. /\ wide.table = request'.table /\ wide.limit = request'.limit /\ wide.tag = None
          /\ wide.range = request'.range
          /\ wide.relevance = request'.relevance
      BY <3>2 DEF Ask, Requests
    <3> HIDE DEF wide, S
    <3>5. WellAsked(wide) /\ wide.limit \in Limits
      BY <3>3, <3>4 DEF WellAsked
    <3>6. Promised(wide, rows)
      BY <3>1, <3>5, HybridKeepsTheBest
    <3>7. \A r \in Row : FindableAt(now, request', r) <=> FindableAt(now, wide, r) /\ r \in S
      BY <3>2, <3>3, <3>4, SearchAssumption DEF FindableAt, Named, Broad, S
    <3>8. \A a, b : Outdoes(request', a, b) => Outdoes(wide, a, b)
      BY <3>4 DEF Outdoes, Nearer, MoreRelevant, Named
    <3>9. /\ rows \in Seq(Row) /\ \A i, j \in DOMAIN rows : rows[i] = rows[j] => i = j
          /\ \A i \in DOMAIN rows : FindableAt(now, wide, rows[i])
          /\ \A a, b \in Row :
                 FindableAt(now, wide, a) /\ FindableAt(now, wide, b) /\ Outdoes(wide, a, b) =>
                     \A j \in DOMAIN rows : rows[j] = b => \E i \in 1 .. j - 1 : rows[i] = a
      BY <3>6, FindableNow DEF Promised
    <3>10. /\ \A j \in DOMAIN hits' : hits'[j] \in S /\ \E n \in DOMAIN rows : rows[n] = hits'[j]
           /\ \A j \in DOMAIN hits', m, n \in DOMAIN rows :
                  m < n /\ rows[n] = hits'[j] /\ rows[m] \in S =>
                      \E i \in 1 .. j - 1 : hits'[i] = rows[m]
      BY <3>1, <3>9, SelectionKeeps
    <3>11. \A n \in DOMAIN rows : rows[n] \in Row /\ n \in Nat
                                /\ \A i \in 1 .. n - 1 : i \in DOMAIN rows /\ i < n
      BY <3>9
    <3>12. \A i \in DOMAIN hits' : FindableAt(now, request', hits'[i])
      BY <3>7, <3>9, <3>10, <3>11
    <3>13. ASSUME NEW a \in Row, NEW b \in Row, Outdoes(request', a, b),
                  FindableAt(now, request', a), FindableAt(now, request', b),
                  NEW j \in DOMAIN hits', hits'[j] = b
           PROVE  \E i \in 1 .. j - 1 : hits'[i] = a
      <4>1. PICK n \in DOMAIN rows : rows[n] = b
        BY <3>10, <3>13
      <4>2. FindableAt(now, wide, a) /\ a \in S /\ FindableAt(now, wide, b) /\ Outdoes(wide, a, b)
        BY <3>7, <3>8, <3>13
      <4>3. PICK m \in 1 .. n - 1 : rows[m] = a
        BY <3>9, <4>1, <4>2
      <4>4. m \in DOMAIN rows /\ m < n
        BY <3>11, <4>3
      <4> QED
        BY <3>10, <3>13, <4>1, <4>2, <4>3, <4>4
    <3>14. Best(now', request', hits')
      BY <3>2, <3>3, <3>12, <3>13 DEF Best
    <3> QED
      BY <3>14, BestThen
  <2>5. CASE UNCHANGED vars
    BY <2>5, BestNow, BestThen DEF vars, BestHits
  <2> QED
    BY <2>1, <2>2, <2>3, <2>4, <2>5 DEF Next
<1> QED
  BY <1>1, <1>2, PTL DEF Spec
=============================================================================
