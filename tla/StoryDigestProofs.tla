-------------------------- MODULE StoryDigestProofs --------------------------
(***************************************************************************)
(* Proofs about StoryDigest for any items, groups, caps and lengths: what  *)
(* the selection takes and leaves, and what the rendering drops, in every  *)
(* state of the tables.  Selection and rendering are functions of a state, *)
(* so their properties follow from its type alone; what has to be found    *)
(* are the sorted order, the invariant of the selection's loop and the     *)
(* greatest number that fits.                                              *)
(***************************************************************************)
EXTENDS StoryDigest, StoryProofs, SequenceTheorems, WellFoundedInduction

-----------------------------------------------------------------------------
(* Least numbers and loops.                                                *)

(* A set of natural numbers has a least element.                           *)
LEMMA LeastNatural ==
  ASSUME NEW T \in SUBSET Nat, T # {}
  PROVE  \E n \in T : \A m \in T : n <= m
  <1> DEFINE Below == {0 .. n : n \in T}
  <1>1. Below \subseteq FiniteSubsetsOf(Nat)
    <2>1. ASSUME NEW n \in T PROVE 0 .. n \in FiniteSubsetsOf(Nat)
      <3>1. IsFiniteSet(0 .. n)
        BY FS_Interval
      <3>2. 0 .. n \in SUBSET Nat
        OBVIOUS
      <3> QED
        BY <3>1, <3>2 DEF FiniteSubsetsOf
    <2> QED
      BY <2>1
  <1>2. Below # {}
    OBVIOUS
  <1>3. IsWellFoundedOn(StrictSubsetOrdering(Nat), FiniteSubsetsOf(Nat))
    BY FS_StrictSubsetOrderingWellFounded
  <1>4. PICK x \in Below : \A y \in Below : <<y, x>> \notin StrictSubsetOrdering(Nat)
    <2> HIDE DEF Below
    <2> QED
      BY <1>1, <1>2, <1>3, WFMin
  <1>5. PICK n \in T : x = 0 .. n
    OBVIOUS
  <1>6. ASSUME NEW m \in T, m < n PROVE FALSE
    <2>1. 0 .. m \subseteq 0 .. n /\ n \in 0 .. n /\ n \notin 0 .. m
      BY <1>6
    <2>2. 0 .. m \in SUBSET Nat /\ 0 .. n \in SUBSET Nat
      OBVIOUS
    <2>3. <<0 .. m, 0 .. n>> \in StrictSubsetOrdering(Nat)
      BY <2>1, <2>2 DEF StrictSubsetOrdering
    <2> QED
      BY <2>3, <1>4, <1>5
  <1> QED
    BY <1>6

(* What holds at the start of a loop of N rounds and is kept by each round *)
(* holds throughout.                                                       *)
LEMMA Rounds ==
  ASSUME NEW N \in Nat, NEW T, 0 \in T, \A n \in 0 .. N - 1 : n \in T => n + 1 \in T
  PROVE  0 .. N \subseteq T
  <1> DEFINE Missed == {n \in 0 .. N : n \notin T}
  <1> SUFFICES ASSUME Missed # {} PROVE FALSE
    OBVIOUS
  <1>1. Missed \in SUBSET Nat
    OBVIOUS
  <1>2. PICK n \in Missed : \A m \in Missed : n <= m
    <2> HIDE DEF Missed
    <2> QED
      BY <1>1, LeastNatural
  <1>3. n # 0 /\ n - 1 \in 0 .. N - 1
    OBVIOUS
  <1>4. n - 1 \in T
    BY <1>2, <1>3
  <1> QED
    BY <1>3, <1>4

(* A recursive definition over the rounds of a loop, given by the value at *)
(* the start and a function of values for each round, defines a function.  *)
Iterates(f, N, a, next) == f[0] = a /\ \A k \in 1 .. N : f[k] = next[k][f[k - 1]]

LEMMA LoopFunction ==
  ASSUME NEW N \in Nat, NEW S, NEW a \in S, NEW next \in [1 .. N -> [S -> S]]
  PROVE  \E f \in [0 .. N -> S] : Iterates(f, N, a, next)
  <1> DEFINE Upto(n) == \E f \in [0 .. n -> S] :
                            f[0] = a /\ \A k \in 1 .. n : f[k] = next[k][f[k - 1]]
             T       == {n \in 0 .. N : Upto(n)}
  <1>1. 0 \in T
    <2>1. PICK f \in [0 .. 0 -> S] : f = [k \in 0 .. 0 |-> a]
      OBVIOUS
    <2>2. f[0] = a /\ \A k \in 1 .. 0 : f[k] = next[k][f[k - 1]]
      BY <2>1
    <2>3. Upto(0)
      BY <2>2
    <2> QED
      BY <2>3
  <1>2. ASSUME NEW n \in 0 .. N - 1, n \in T PROVE n + 1 \in T
    <2>1. PICK f \in [0 .. n -> S] :
              f[0] = a /\ \A k \in 1 .. n : f[k] = next[k][f[k - 1]]
      BY <1>2
    <2>2. PICK b \in S : b = next[n + 1][f[n]]
      OBVIOUS
    <2>3. PICK g : g = [k \in 0 .. n + 1 |-> IF k = n + 1 THEN b ELSE f[k]]
      OBVIOUS
    <2>4. g \in [0 .. n + 1 -> S]
      BY <2>3
    <2>5. g[0] = a /\ \A k \in 1 .. n + 1 : g[k] = next[k][g[k - 1]]
      BY <2>1, <2>2, <2>3
    <2> QED
      BY <2>4, <2>5
  <1>3. 0 .. N \subseteq T
    <2> HIDE DEF T
    <2> QED
      BY <1>1, <1>2, Rounds
  <1> QED
    BY <1>3 DEF Iterates

(* A set of cardinality at least c has a subset of cardinality c.          *)
LEMMA ExactSubset ==
  ASSUME NEW S, IsFiniteSet(S), NEW c \in Nat, c <= Cardinality(S)
  PROVE  \E K \in SUBSET S : Cardinality(K) = c
  <1>1. PICK N \in Nat : N = Cardinality(S) /\ ExistsBijection(1 .. N, S)
    BY FS_CardinalityType
  <1>2. PICK b \in Bijection(1 .. N, S) : TRUE
    BY <1>1 DEF ExistsBijection
  <1>3. /\ b \in [1 .. N -> S]
        /\ \A m, n \in 1 .. N : b[m] = b[n] => m = n
    BY <1>2 DEF Bijection, Injection, Surjection, IsInjective
  <1>4. PICK K : K = {b[n] : n \in 1 .. c}
    OBVIOUS
  <1>5. PICK h : h = [n \in 1 .. c |-> b[n]]
    OBVIOUS
  <1>6. h \in Bijection(1 .. c, K)
    <2>1. h \in [1 .. c -> K] /\ \A m, n \in 1 .. c : h[m] = h[n] => m = n
      BY <1>1, <1>3, <1>4, <1>5
    <2>2. \A x \in K : \E n \in 1 .. c : h[n] = x
      BY <1>4, <1>5
    <2> QED
      BY <2>1, <2>2 DEF Bijection, Injection, Surjection, IsInjective
  <1>7. Cardinality(K) = c
    <2>1. IsFiniteSet(1 .. c) /\ Cardinality(1 .. c) = c
      BY FS_Interval
    <2>2. ExistsBijection(1 .. c, K)
      BY <1>6 DEF ExistsBijection
    <2> QED
      BY <2>1, <2>2, FS_Bijection
  <1>8. K \in SUBSET S
    BY <1>1, <1>3, <1>4
  <1> QED
    BY <1>7, <1>8

-----------------------------------------------------------------------------
(* Tuples of integers are compared from the left.                          *)

(* No tuple is less than itself.                                           *)
LEMMA LessIrreflexive ==
  ASSUME NEW N \in Nat, NEW a \in [1 .. N -> Int]
  PROVE  ~Less(a, a)
  BY DEF Less

(* The comparison is transitive.                                           *)
LEMMA LessTransitive ==
  ASSUME NEW N \in Nat, NEW a \in [1 .. N -> Int], NEW b \in [1 .. N -> Int],
         NEW c \in [1 .. N -> Int], Less(a, b), Less(b, c)
  PROVE  Less(a, c)
  <1>1. PICK m \in 1 .. N : a[m] < b[m] /\ \A k \in 1 .. m - 1 : a[k] = b[k]
    BY DEF Less
  <1>2. PICK n \in 1 .. N : b[n] < c[n] /\ \A k \in 1 .. n - 1 : b[k] = c[k]
    BY DEF Less
  <1>3. CASE m <= n
    <2>1. a[m] < c[m] /\ \A k \in 1 .. m - 1 : a[k] = c[k]
      BY <1>1, <1>2, <1>3
    <2> QED
      BY <2>1 DEF Less
  <1>4. CASE n < m
    <2>1. a[n] < c[n] /\ \A k \in 1 .. n - 1 : a[k] = c[k]
      BY <1>1, <1>2, <1>4
    <2> QED
      BY <2>1 DEF Less
  <1> QED
    BY <1>3, <1>4

(* Of two different tuples of one length, one is less: they differ first  *)
(* somewhere.                                                              *)
LEMMA LessTotal ==
  ASSUME NEW N \in Nat, NEW a \in [1 .. N -> Int], NEW b \in [1 .. N -> Int], a # b
  PROVE  Less(a, b) \/ Less(b, a)
  <1> DEFINE T == {n \in 1 .. N : a[n] # b[n]}
  <1>1. T # {} /\ T \in SUBSET Nat
    OBVIOUS
  <1>2. PICK n \in T : \A m \in T : n <= m
    <2> HIDE DEF T
    <2> QED
      BY <1>1, LeastNatural
  <1>3. \A m \in 1 .. n - 1 : a[m] = b[m]
    BY <1>2
  <1>4. a[n] < b[n] \/ b[n] < a[n]
    OBVIOUS
  <1> QED
    BY <1>3, <1>4 DEF Less

(* A strict order in which any two elements of S compare.                  *)
Orders(R, S) ==
    /\ \A x \in S : <<x, x>> \notin R
    /\ \A x, y, z \in S : <<x, y>> \in R /\ <<y, z>> \in R => <<x, z>> \in R
    /\ \A x, y \in S : x # y => <<x, y>> \in R \/ <<y, x>> \in R

(* A finite set can be put in order.                                       *)
LEMMA Sorting ==
  ASSUME NEW S, IsFiniteSet(S), NEW R, Orders(R, S)
  PROVE  /\ Cardinality(S) \in Nat
         /\ \E s \in [1 .. Cardinality(S) -> S] :
               /\ \A m, n \in 1 .. Cardinality(S) : m < n => <<s[m], s[n]>> \in R
               /\ \A x \in S : \E n \in 1 .. Cardinality(S) : s[n] = x
  <1> DEFINE upto(x) == {y \in S : y = x \/ <<y, x>> \in R}
             rank    == [x \in S |-> Cardinality(upto(x))]
  <1>1. PICK N \in Nat : N = Cardinality(S)
    BY FS_CardinalityType
  <1>2. ASSUME NEW x \in S PROVE IsFiniteSet(upto(x)) /\ Cardinality(upto(x)) \in 1 .. N
    <2>1. upto(x) \in SUBSET S /\ x \in upto(x)
      OBVIOUS
    <2> HIDE DEF upto
    <2>2. IsFiniteSet(upto(x)) /\ Cardinality(upto(x)) <= N
      BY <1>1, <2>1, FS_Subset
    <2>3. Cardinality(upto(x)) \in Nat /\ Cardinality(upto(x)) # 0
      BY <2>1, <2>2, FS_CardinalityType, FS_EmptySet
    <2> QED
      BY <1>1, <2>2, <2>3
  <1>3. ASSUME NEW x \in S, NEW y \in S, <<x, y>> \in R PROVE rank[x] < rank[y]
    <2>1. upto(x) \in SUBSET upto(y) /\ y \in upto(y) /\ y \notin upto(x)
      BY <1>3 DEF Orders
    <2> HIDE DEF upto
    <2>2. Cardinality(upto(x)) <= Cardinality(upto(y)) /\ Cardinality(upto(x)) # Cardinality(upto(y))
      BY <1>2, <2>1, FS_Subset
    <2> QED
      BY <1>2, <2>2
  <1>4. rank \in Injection(S, 1 .. N)
    <2>1. rank \in [S -> 1 .. N]
      BY <1>2
    <2>2. ASSUME NEW x \in S, NEW y \in S, rank[x] = rank[y] PROVE x = y
      <3> HIDE DEF rank
      <3>1. ~(rank[x] < rank[y]) /\ ~(rank[y] < rank[x])
        BY <2>1, <2>2
      <3> QED
        BY <1>3, <3>1 DEF Orders
    <2> HIDE DEF rank
    <2> QED
      BY <2>1, <2>2 DEF Injection, IsInjective
  <1> HIDE DEF rank
  <1>5. rank \in Surjection(S, 1 .. N)
    <2>1. IsFiniteSet(1 .. N) /\ Cardinality(1 .. N) = N
      BY FS_Interval
    <2> QED
      BY <1>1, <1>4, <2>1, FS_Injection
  <1>6. PICK s : s = [n \in 1 .. N |-> CHOOSE x \in S : rank[x] = n]
    OBVIOUS
  <1>7. ASSUME NEW n \in 1 .. N PROVE s[n] \in S /\ rank[s[n]] = n
    <2>1. \E x \in S : rank[x] = n
      BY <1>5 DEF Surjection
    <2> QED
      BY <1>6, <2>1
  <1>8. ASSUME NEW m \in 1 .. N, NEW n \in 1 .. N, m < n PROVE <<s[m], s[n]>> \in R
    <2>1. s[m] # s[n] /\ <<s[n], s[m]>> \notin R
      BY <1>3, <1>7, <1>8
    <2> QED
      BY <1>7, <2>1 DEF Orders
  <1>9. ASSUME NEW x \in S PROVE \E n \in 1 .. N : s[n] = x
    <2>1. rank[x] \in 1 .. N
      BY <1>5 DEF Surjection
    <2>2. rank[s[rank[x]]] = rank[x] /\ s[rank[x]] \in S
      BY <1>7, <2>1
    <2>3. s[rank[x]] = x
      BY <1>4, <2>2 DEF Injection, IsInjective
    <2> QED
      BY <2>1, <2>3
  <1>10. s \in [1 .. N -> S]
    BY <1>6, <1>7
  <1> HIDE DEF upto
  <1> QED
    BY <1>1, <1>8, <1>9, <1>10

(* Whatever sorts the set reaches all of it.                               *)
LEMMA SortedIsAll ==
  ASSUME NEW S, IsFiniteSet(S), NEW R, Orders(R, S),
         NEW s \in [1 .. Cardinality(S) -> S],
         \A m, n \in 1 .. Cardinality(S) : m < n => <<s[m], s[n]>> \in R
  PROVE  \A x \in S : \E n \in 1 .. Cardinality(S) : s[n] = x
  <1>1. PICK N \in Nat : N = Cardinality(S)
    BY FS_CardinalityType
  <1>2. s \in Injection(1 .. N, S)
    <2>1. ASSUME NEW m \in 1 .. N, NEW n \in 1 .. N, s[m] = s[n] PROVE m = n
      <3>1. ~(m < n) /\ ~(n < m)
        BY <1>1, <2>1 DEF Orders
      <3> QED
        BY <3>1
    <2> QED
      BY <1>1, <2>1 DEF Injection, IsInjective
  <1>3. IsFiniteSet(1 .. N) /\ Cardinality(1 .. N) = N
    BY FS_Interval
  <1>4. s \in Surjection(1 .. N, S)
    BY <1>1, <1>2, <1>3, FS_Injection
  <1> QED
    BY <1>1, <1>4 DEF Surjection

-----------------------------------------------------------------------------
(* Groups and their order.                                                 *)

(* The members of a group compare by importance, age and id.               *)
LEMMA MemberOrder ==
  ASSUME NEW G \in SUBSET Items
  PROVE  Orders({p \in G \X G : Less(MemberKey(p[1]), MemberKey(p[2]))}, G)
  <1> DEFINE R == {p \in G \X G : Less(MemberKey(p[1]), MemberKey(p[2]))}
  <1>1. \A i, j \in G : <<i, j>> \in R <=> Less(MemberKey(i), MemberKey(j))
    OBVIOUS
  <1>2. \A i \in G : MemberKey(i) \in [1 .. 3 -> Int]
    BY StoryDigestAssumption DEF MemberKey
  <1>3. \A i, j \in G : MemberKey(i) = MemberKey(j) => i = j
    BY StoryDigestAssumption DEF MemberKey
  <1> HIDE DEF R
  <1>4. \A x \in G : <<x, x>> \notin R
    BY <1>1, <1>2, LessIrreflexive
  <1>5. ASSUME NEW x \in G, NEW y \in G, NEW z \in G, <<x, y>> \in R, <<y, z>> \in R
        PROVE  <<x, z>> \in R
    BY <1>1, <1>2, <1>5, LessTransitive
  <1>6. ASSUME NEW x \in G, NEW y \in G, x # y
        PROVE  <<x, y>> \in R \/ <<y, x>> \in R
    BY <1>1, <1>2, <1>3, <1>6, LessTotal
  <1> QED
    BY <1>4, <1>5, <1>6 DEF Orders, R

(* A group of news has a representative, the most important of its members. *)
LEMMA RepresentativeIs ==
  ASSUME NEW G \in SUBSET Items, G # {}
  PROVE  /\ Representative(G) \in G
         /\ \A j \in G : Importance[j] <= Importance[Representative(G)]
  <1> DEFINE R == {p \in G \X G : Less(MemberKey(p[1]), MemberKey(p[2]))}
  <1>1. IsFiniteSet(G)
    BY StoryAssumption, FS_Subset
  <1>0. PICK N \in Nat : N = Cardinality(G)
    BY <1>1, FS_CardinalityType
  <1>2. PICK s \in [1 .. N -> G] :
            /\ \A m, n \in 1 .. N : m < n => <<s[m], s[n]>> \in R
            /\ \A x \in G : \E n \in 1 .. N : s[n] = x
    <2>1. Orders(R, G)
      BY MemberOrder
    <2> HIDE DEF R
    <2> QED
      BY <1>0, <1>1, <2>1, Sorting
  <1>3. 1 \in 1 .. N
    BY <1>2
  <1>4. ASSUME NEW j \in G \ {s[1]} PROVE Less(MemberKey(s[1]), MemberKey(j))
    <2>1. PICK n \in 1 .. N : s[n] = j
      BY <1>2
    <2>2. 1 < n
      BY <1>4, <2>1
    <2> QED
      BY <1>2, <1>3, <2>1, <2>2
  <1>5. PICK r \in G : /\ r = Representative(G)
                       /\ \A j \in G \ {r} : Less(MemberKey(r), MemberKey(j))
    BY <1>2, <1>3, <1>4 DEF Representative
  <1>6. ASSUME NEW j \in G PROVE Importance[j] <= Importance[r]
    <2>1. Importance[j] \in 0 .. 5 /\ Importance[r] \in 0 .. 5
      BY StoryDigestAssumption
    <2>2. CASE j = r
      BY <2>1, <2>2
    <2>3. CASE j # r
      <3>1. Less(MemberKey(r), MemberKey(j))
        BY <1>5, <2>3
      <3>2. PICK n \in 1 .. 3 : /\ MemberKey(r)[n] < MemberKey(j)[n]
                                /\ \A m \in 1 .. n - 1 : MemberKey(r)[m] = MemberKey(j)[m]
        BY <3>1 DEF Less, MemberKey
      <3>3. MemberKey(r)[1] = -Importance[r] /\ MemberKey(j)[1] = -Importance[j]
        BY DEF MemberKey
      <3>4. MemberKey(r)[1] <= MemberKey(j)[1]
        <4>1. CASE n = 1
          BY <2>1, <3>2, <3>3, <4>1
        <4>2. CASE n # 1
          BY <2>1, <3>2, <3>3, <4>2
        <4> QED
          BY <4>1, <4>2
      <3> QED
        BY <2>1, <3>3, <3>4
    <2> QED
      BY <2>2, <2>3
  <1> QED
    BY <1>5, <1>6

(* Sets of groups of news that have no item in common.                     *)
Grouping(groups) ==
    /\ IsFiniteSet(groups)
    /\ \A G \in groups : G \in SUBSET Items /\ G # {}
    /\ \A G, H \in groups : G \cap H # {} => G = H

RankOrder(groups) == {p \in groups \X groups : Less(RankKey(p[1]), RankKey(p[2]))}

(* A rank key is a tuple of five integers.                                 *)
LEMMA RankKeyType ==
  ASSUME NEW G \in SUBSET Items, G # {}
  PROVE  RankKey(G) \in [1 .. 5 -> Int]
  <1>1. PICK i \in Items : i = Representative(G)
    BY RepresentativeIs
  <1>2. /\ -Importance[i] \in Int /\ Precedence[AiCategory[i]] \in Int
        /\ -CreatedAt[i] \in Int /\ IdOrder[i] \in Int
    BY StoryDigestAssumption
  <1>3. (IF Breaking(G) THEN 0 ELSE 1) \in Int
    OBVIOUS
  <1> QED
    BY <1>1, <1>2, <1>3 DEF RankKey

(* The ranks of groups that share no item order them strictly and totally: *)
(* the last component is the id of the representative.                     *)
LEMMA GroupOrder ==
  ASSUME NEW groups, Grouping(groups)
  PROVE  Orders(RankOrder(groups), groups)
  <1> DEFINE R == RankOrder(groups)
  <1>1. \A G, H \in groups : <<G, H>> \in R <=> Less(RankKey(G), RankKey(H))
    BY DEF RankOrder
  <1>2. \A G \in groups : RankKey(G) \in [1 .. 5 -> Int]
    BY RankKeyType DEF Grouping
  <1>3. ASSUME NEW G \in groups, NEW H \in groups, RankKey(G) = RankKey(H) PROVE G = H
    <2>1. PICK i \in G, j \in H : /\ i = Representative(G) /\ j = Representative(H)
                                  /\ i \in Items /\ j \in Items
      BY RepresentativeIs DEF Grouping
    <2>2. RankKey(G)[5] = IdOrder[i] /\ RankKey(H)[5] = IdOrder[j]
      BY <2>1 DEF RankKey
    <2>3. i = j
      BY <1>3, <2>1, <2>2, StoryDigestAssumption
    <2> QED
      BY <2>1, <2>3 DEF Grouping
  <1> HIDE DEF R
  <1>4. \A x \in groups : <<x, x>> \notin R
    BY <1>1, <1>2, LessIrreflexive
  <1>5. ASSUME NEW x \in groups, NEW y \in groups, NEW z \in groups,
               <<x, y>> \in R, <<y, z>> \in R
        PROVE  <<x, z>> \in R
    BY <1>1, <1>2, <1>5, LessTransitive
  <1>6. ASSUME NEW x \in groups, NEW y \in groups, x # y
        PROVE  <<x, y>> \in R \/ <<y, x>> \in R
    BY <1>1, <1>2, <1>3, <1>6, LessTotal
  <1> QED
    BY <1>4, <1>5, <1>6 DEF Orders, R

(* The ranked groups: each of them, in a strict order.                     *)
LEMMA RankedIs ==
  ASSUME NEW groups, Grouping(groups)
  PROVE  \E N \in Nat :
            /\ Ranked(groups) \in [1 .. N -> groups]
            /\ \A m, n \in 1 .. N :
                  m < n => Less(RankKey(Ranked(groups)[m]), RankKey(Ranked(groups)[n]))
            /\ \A G \in groups : \E n \in 1 .. N : Ranked(groups)[n] = G
  <1>1. Orders(RankOrder(groups), groups) /\ IsFiniteSet(groups)
    BY GroupOrder DEF Grouping
  <1>2. PICK N \in Nat : N = Cardinality(groups)
    BY <1>1, FS_CardinalityType
  <1>3. \A s \in [1 .. N -> groups] : \A m, n \in 1 .. N :
            <<s[m], s[n]>> \in RankOrder(groups) <=> Less(RankKey(s[m]), RankKey(s[n]))
    BY DEF RankOrder
  <1>4. \E s \in [1 .. N -> groups] : \A m, n \in 1 .. N :
            m < n => Less(RankKey(s[m]), RankKey(s[n]))
    BY <1>1, <1>2, <1>3, Sorting
  <1>5. PICK s \in [1 .. N -> groups] :
            /\ s = Ranked(groups)
            /\ \A m, n \in 1 .. N : m < n => Less(RankKey(s[m]), RankKey(s[n]))
    BY <1>2, <1>4 DEF Ranked
  <1>6. \A G \in groups : \E n \in 1 .. N : s[n] = G
    BY <1>1, <1>2, <1>3, <1>5, SortedIsAll
  <1> QED
    BY <1>5, <1>6

(* What ranks before matters no less, or is breaking news.                 *)
LEMMA RankedBefore ==
  ASSUME NEW G \in SUBSET Items, G # {}, NEW H \in SUBSET Items, H # {},
         Less(RankKey(G), RankKey(H))
  PROVE  \/ AiCategory[Representative(G)] = "breaking"
         \/ Importance[Representative(G)] >= Importance[Representative(H)]
  <1>1. PICK i \in Items, j \in Items : i = Representative(G) /\ j = Representative(H)
    BY RepresentativeIs
  <1>2. Importance[i] \in 0 .. 5 /\ Importance[j] \in 0 .. 5
    BY StoryDigestAssumption
  <1>3. /\ RankKey(G)[1] = IF Breaking(G) THEN 0 ELSE 1
        /\ RankKey(H)[1] = IF Breaking(H) THEN 0 ELSE 1
        /\ RankKey(G)[2] = -Importance[i] /\ RankKey(H)[2] = -Importance[j]
    BY <1>1 DEF RankKey
  <1>4. PICK n \in 1 .. 5 : /\ RankKey(G)[n] < RankKey(H)[n]
                            /\ \A m \in 1 .. n - 1 : RankKey(G)[m] = RankKey(H)[m]
    BY DEF Less, RankKey
  <1>5. CASE n = 1
    <2>1. Breaking(G)
      BY <1>3, <1>4, <1>5
    <2> QED
      BY <1>1, <1>2, <2>1 DEF Breaking
  <1>6. CASE n = 2
    BY <1>1, <1>2, <1>3, <1>4, <1>6
  <1>7. CASE n > 2
    <2>1. RankKey(G)[2] = RankKey(H)[2]
      BY <1>4, <1>7
    <2> QED
      BY <1>1, <1>2, <1>3, <2>1
  <1> QED
    BY <1>5, <1>6, <1>7

(* The groups of a set of items.                                           *)
LEMMA GroupsAre ==
  ASSUME NEW E \in SUBSET Items, NEW group
  PROVE  /\ Grouping(Groups(E, group))
         /\ \A G \in Groups(E, group) : /\ G \in SUBSET E
                                        /\ \A i, j \in G : group[i] = group[j]
         /\ \A i \in E : \E G \in Groups(E, group) :
               \A j \in E : j \in G <=> group[j] = group[i]
  <1>1. PICK f : f = [i \in E |-> {j \in E : group[j] = group[i]}]
    OBVIOUS
  <1>2. f \in Surjection(E, Groups(E, group))
    <2>1. f \in [E -> Groups(E, group)]
      BY <1>1 DEF Groups
    <2>2. \A G \in Groups(E, group) : \E i \in E : f[i] = G
      BY <1>1 DEF Groups
    <2> QED
      BY <2>1, <2>2 DEF Surjection
  <1>3. IsFiniteSet(Groups(E, group))
    <2>1. IsFiniteSet(E)
      BY StoryAssumption, FS_Subset
    <2> QED
      BY <1>2, <2>1, FS_Surjection
  <1>4. \A G \in Groups(E, group) : /\ G \in SUBSET E /\ G # {}
                                    /\ \A i, j \in G : group[i] = group[j]
    <2> TAKE G \in Groups(E, group)
    <2>1. PICK g \in E : G = {j \in E : group[j] = group[g]}
      BY DEF Groups
    <2> QED
      BY <2>1
  <1>5. ASSUME NEW G \in Groups(E, group), NEW H \in Groups(E, group), G \cap H # {}
        PROVE  G = H
    <2>1. PICK g \in E, h \in E : /\ G = {j \in E : group[j] = group[g]}
                                  /\ H = {j \in E : group[j] = group[h]}
      BY DEF Groups
    <2>2. group[g] = group[h]
      BY <1>5, <2>1
    <2> QED
      BY <2>1, <2>2
  <1>6. ASSUME NEW i \in E
        PROVE  \E G \in Groups(E, group) : \A j \in E : j \in G <=> group[j] = group[i]
    <2>1. PICK G : G = {j \in E : group[j] = group[i]}
      OBVIOUS
    <2>2. G \in Groups(E, group)
      BY <2>1 DEF Groups
    <2> QED
      BY <2>1, <2>2
  <1> QED
    BY <1>3, <1>4, <1>5, <1>6 DEF Grouping

-----------------------------------------------------------------------------
(* The loop of the selection.                                              *)

EntryRecord == [item : Items, breaking : BOOLEAN, summary : BOOLEAN]

(* Groups in ranked order.                                                 *)
InRankOrder(s, N) ==
    /\ N \in Nat /\ DOMAIN s = 1 .. N
    /\ \A n \in 1 .. N : s[n] \in SUBSET Items /\ s[n] # {}
    /\ \A m, n \in 1 .. N : m < n => s[m] \cap s[n] = {}
    /\ \A m, n \in 1 .. N : m < n => Less(RankKey(s[m]), RankKey(s[n]))

(* An entry is one for the representative of its group.                    *)
LEMMA EntryType ==
  ASSUME NEW G \in SUBSET Items, G # {}
  PROVE  Entry(G) \in EntryRecord /\ Entry(G).item = Representative(G)
  <1>1. PICK i \in Items : i = Representative(G)
    BY RepresentativeIs
  <1>2. Breaking(G) \in BOOLEAN
    BY DEF Breaking
  <1>3. (Importance[i] >= SummaryMinImportance /\ i \in Summarised) \in BOOLEAN
    OBVIOUS
  <1>4. Entry(G) = [item |-> i, breaking |-> Breaking(G),
                    summary |-> Importance[i] >= SummaryMinImportance /\ i \in Summarised]
    BY <1>1 DEF Entry
  <1> QED
    BY <1>1, <1>2, <1>3, <1>4 DEF EntryRecord

(* A round of the selection leaves a sequence of entries.                  *)
LEMMA TakeType ==
  ASSUME NEW e \in Seq(EntryRecord), NEW G \in SUBSET Items, G # {}
  PROVE  Take(e, G) \in Seq(EntryRecord)
  BY EntryType, AppendProperties DEF Take

(* The entries after n groups follow from those after the groups before.   *)
LEMMA SelectionsAre ==
  ASSUME NEW s, NEW N, InRankOrder(s, N), s \in Seq(SUBSET Items)
  PROVE  /\ Len(s) = N
         /\ Selections(s)[0] = <<>>
         /\ \A n \in 1 .. N : Selections(s)[n] = Take(Selections(s)[n - 1], s[n])
  <1>1. N \in Nat /\ Len(s) = N
    BY LenProperties DEF InRankOrder
  <1>2. PICK next : next = [n \in 1 .. N |-> [e \in Seq(EntryRecord) |-> Take(e, s[n])]]
    OBVIOUS
  <1>3. next \in [1 .. N -> [Seq(EntryRecord) -> Seq(EntryRecord)]]
    BY <1>2, TakeType DEF InRankOrder
  <1>4. PICK S : S = Seq(EntryRecord) /\ <<>> \in S
    <2>1. <<>> \in Seq(EntryRecord)
      BY EmptySeq
    <2> QED
      BY <2>1
  <1>5. PICK f \in [0 .. N -> S] :
            f[0] = <<>> /\ \A n \in 1 .. N : f[n] = next[n][f[n - 1]]
    <2>1. next \in [1 .. N -> [S -> S]] /\ N \in Nat
      BY <1>1, <1>3, <1>4
    <2>2. PICK none \in S : none = <<>>
      BY <1>4
    <2>3. \E f \in [0 .. N -> S] : Iterates(f, N, none, next)
      BY <2>1, LoopFunction
    <2> QED
      BY <2>2, <2>3 DEF Iterates
  <1>6. f = [n \in 0 .. N |-> IF n = 0 THEN <<>> ELSE Take(f[n - 1], s[n])]
    <2>1. ASSUME NEW n \in 1 .. N PROVE f[n] = Take(f[n - 1], s[n])
      <3>1. n - 1 \in 0 .. N /\ f[n - 1] \in Seq(EntryRecord)
        BY <1>1, <1>4
      <3> QED
        BY <1>2, <1>5, <3>1
    <2>2. \A n \in 0 .. N : f[n] = IF n = 0 THEN <<>> ELSE Take(f[n - 1], s[n])
      BY <1>1, <1>5, <2>1
    <2> QED
      BY <2>2
  <1>7. PICK g : /\ g = Selections(s)
                 /\ g = [n \in 0 .. N |-> IF n = 0 THEN <<>> ELSE Take(g[n - 1], s[n])]
    BY <1>1, <1>6 DEF Selections
  <1> QED
    BY <1>1, <1>7

(* Entry k comes from a group that ranks before the m-th.                  *)
Before(e, k, s, m) == \E p \in 1 .. m - 1 : e[k] = Entry(s[p])

(* Group m has an entry, or met a full digest or, unless it is breaking, a *)
(* full category, of entries that rank before it.                          *)
Handled(e, s, m) ==
    \/ \E k \in 1 .. Len(e) : e[k] = Entry(s[m])
    \/ Len(e) = MaxEntries /\ \A k \in 1 .. Len(e) : Before(e, k, s, m)
    \/ ~Breaking(s[m]) /\ \E K \in SUBSET (1 .. Len(e)) :
          /\ Cardinality(K) = CategoryCap
          /\ \A k \in K : /\ AiCategory[e[k].item] = AiCategory[Representative(s[m])]
                          /\ Before(e, k, s, m)

(* What the entries e are after the first n groups.                        *)
LoopInv(e, s, n) ==
    /\ e \in Seq(EntryRecord) /\ Len(e) <= MaxEntries
    /\ \A k \in 1 .. Len(e) : \E p \in 1 .. n : e[k] = Entry(s[p])
    /\ \A k, l \in 1 .. Len(e) : k < l =>
          \E p, q \in 1 .. n : p < q /\ e[k] = Entry(s[p]) /\ e[l] = Entry(s[q])
    /\ \A m \in 1 .. n : Handled(e, s, m)

(* A round keeps the invariant of the loop, whether it adds an entry, or   *)
(* meets a full digest, or meets a full category.                          *)
LEMMA RoundKeeps ==
  ASSUME NEW s, NEW N, InRankOrder(s, N), NEW n \in 0 .. N - 1, NEW e, LoopInv(e, s, n)
  PROVE  LoopInv(Take(e, s[n + 1]), s, n + 1)
  <1>1. N \in Nat /\ n \in Nat /\ n + 1 \in 1 .. N
    BY DEF InRankOrder
  <1>2. PICK G \in SUBSET Items : G = s[n + 1] /\ G # {}
    BY <1>1 DEF InRankOrder
  <1>3. PICK L \in Nat : L = Len(e)
    BY LenProperties DEF LoopInv
  <1>4. e \in Seq(EntryRecord) /\ DOMAIN e = 1 .. L /\ L <= MaxEntries
    BY <1>3, LenProperties DEF LoopInv
  <1>5. CASE L >= MaxEntries
    <2>1. Take(e, G) = e /\ L = MaxEntries
      BY <1>3, <1>4, <1>5, StoryDigestAssumption DEF Take
    <2>2. Handled(e, s, n + 1)
      <3>1. \A k \in 1 .. L : Before(e, k, s, n + 1)
        BY <1>1, <1>3 DEF LoopInv, Before
      <3> QED
        BY <1>3, <2>1, <3>1 DEF Handled
    <2>3. \A m \in 1 .. n + 1 : Handled(e, s, m)
      BY <1>1, <2>2 DEF LoopInv
    <2>4. LoopInv(e, s, n + 1)
      BY <1>1, <2>3 DEF LoopInv
    <2> QED
      BY <1>2, <2>1, <2>4
  <1>6. CASE ~(L >= MaxEntries) /\ ~Breaking(G)
             /\ Cardinality(SameCategory(e, G)) >= CategoryCap
    <2>1. Take(e, G) = e
      BY <1>6 DEF Take
    <2>2. Handled(e, s, n + 1)
      <3>1. SameCategory(e, G) \in SUBSET (1 .. L)
        BY <1>4 DEF SameCategory
      <3>2. IsFiniteSet(SameCategory(e, G))
        <4>1. IsFiniteSet(1 .. L)
          BY FS_Interval
        <4> QED
          BY <3>1, <4>1, FS_Subset
      <3>3. CategoryCap \in Nat /\ CategoryCap <= Cardinality(SameCategory(e, G))
        BY <1>6, <3>2, FS_CardinalityType, StoryDigestAssumption
      <3>4. PICK K \in SUBSET SameCategory(e, G) : Cardinality(K) = CategoryCap
        BY <3>2, <3>3, ExactSubset
      <3>5. \A k \in K : /\ k \in 1 .. L
                         /\ AiCategory[e[k].item] = AiCategory[Representative(G)]
        BY <1>4 DEF SameCategory
      <3>6. \A k \in 1 .. L : Before(e, k, s, n + 1)
        BY <1>1, <1>3 DEF LoopInv, Before
      <3> QED
        BY <1>2, <1>3, <1>6, <3>4, <3>5, <3>6 DEF Handled
    <2>3. \A m \in 1 .. n + 1 : Handled(e, s, m)
      BY <1>1, <2>2 DEF LoopInv
    <2>4. LoopInv(e, s, n + 1)
      BY <1>1, <2>3 DEF LoopInv
    <2> QED
      BY <1>2, <2>1, <2>4
  <1>7. CASE ~(L >= MaxEntries)
             /\ ~(~Breaking(G) /\ Cardinality(SameCategory(e, G)) >= CategoryCap)
    <2>1. PICK f : f = Append(e, Entry(G)) /\ f = Take(e, G)
      BY <1>3, <1>7 DEF Take
    <2>2. /\ f \in Seq(EntryRecord) /\ Len(f) = L + 1
          /\ (\A k \in 1 .. L : f[k] = e[k]) /\ f[L + 1] = Entry(G)
      <3>1. PICK x \in EntryRecord : x = Entry(G)
        BY <1>2, EntryType
      <3>2. f = Append(e, x)
        BY <2>1, <3>1
      <3>3. /\ Append(e, x) \in Seq(EntryRecord)
            /\ Len(Append(e, x)) = Len(e) + 1
            /\ \A k \in 1 .. Len(e) : Append(e, x)[k] = e[k]
            /\ Append(e, x)[Len(e) + 1] = x
        BY <1>4, AppendProperties
      <3> QED
        BY <1>3, <3>1, <3>2, <3>3
    <2>3. Len(f) <= MaxEntries
      BY <1>7, <2>2, StoryDigestAssumption
    <2>4. \A k \in 1 .. L + 1 : \E p \in 1 .. n + 1 : f[k] = Entry(s[p])
      <3> TAKE k \in 1 .. L + 1
      <3>1. CASE k \in 1 .. L
        BY <1>1, <1>3, <2>2, <3>1 DEF LoopInv
      <3>2. CASE k = L + 1
        BY <1>1, <1>2, <2>2, <3>2
      <3> QED
        BY <3>1, <3>2
    <2>5. ASSUME NEW k \in 1 .. L + 1, NEW l \in 1 .. L + 1, k < l
          PROVE  \E p, q \in 1 .. n + 1 : p < q /\ f[k] = Entry(s[p]) /\ f[l] = Entry(s[q])
      <3>1. CASE l \in 1 .. L
        <4>1. k \in 1 .. L
          BY <2>5, <3>1
        <4>2. PICK p \in 1 .. n, q \in 1 .. n :
                  p < q /\ e[k] = Entry(s[p]) /\ e[l] = Entry(s[q])
          BY <1>3, <2>5, <3>1, <4>1 DEF LoopInv
        <4> QED
          BY <1>1, <2>2, <3>1, <4>1, <4>2
      <3>2. CASE l = L + 1
        <4>1. k \in 1 .. L
          BY <2>5, <3>2
        <4>2. PICK p \in 1 .. n : e[k] = Entry(s[p])
          BY <1>3, <4>1 DEF LoopInv
        <4> QED
          BY <1>1, <1>2, <2>2, <3>2, <4>1, <4>2
      <3> QED
        BY <3>1, <3>2
    <2>6. ASSUME NEW m \in 1 .. n PROVE Handled(f, s, m)
      <3>1. CASE \E k \in 1 .. L : e[k] = Entry(s[m])
        BY <2>2, <3>1 DEF Handled
      <3>2. CASE Len(e) = MaxEntries
        BY <1>3, <1>7, <3>2, StoryDigestAssumption
      <3>3. CASE ~Breaking(s[m]) /\ \E K \in SUBSET (1 .. L) :
                    /\ Cardinality(K) = CategoryCap
                    /\ \A k \in K : /\ AiCategory[e[k].item] = AiCategory[Representative(s[m])]
                                    /\ Before(e, k, s, m)
        <4>1. PICK K \in SUBSET (1 .. L) :
                    /\ Cardinality(K) = CategoryCap
                    /\ \A k \in K : /\ AiCategory[e[k].item] = AiCategory[Representative(s[m])]
                                    /\ Before(e, k, s, m)
          BY <3>3
        <4>2. K \in SUBSET (1 .. L + 1)
          OBVIOUS
        <4>3. \A k \in K : /\ AiCategory[f[k].item] = AiCategory[Representative(s[m])]
                           /\ Before(f, k, s, m)
          BY <2>2, <4>1 DEF Before
        <4> QED
          BY <2>2, <3>3, <4>1, <4>2, <4>3 DEF Handled
      <3> QED
        BY <1>3, <3>1, <3>2, <3>3 DEF LoopInv, Handled
    <2>7. Handled(f, s, n + 1)
      BY <1>2, <2>2 DEF Handled
    <2>8. \A m \in 1 .. n + 1 : Handled(f, s, m)
      BY <1>1, <2>6, <2>7
    <2>9. LoopInv(f, s, n + 1)
      BY <2>2, <2>3, <2>4, <2>5, <2>8 DEF LoopInv
    <2> QED
      BY <1>2, <2>1, <2>9
  <1> QED
    BY <1>5, <1>6, <1>7

(* So it holds when the loop is over.                                      *)
LEMMA LoopHolds ==
  ASSUME NEW s, NEW N, InRankOrder(s, N), s \in Seq(SUBSET Items)
  PROVE  Len(s) = N /\ LoopInv(Selections(s)[N], s, N)
  <1> PICK f : f = Selections(s)
    OBVIOUS
  <1>1. /\ N \in Nat /\ Len(s) = N /\ f[0] = <<>>
        /\ \A n \in 1 .. N : f[n] = Take(f[n - 1], s[n])
    BY SelectionsAre DEF InRankOrder
  <1> DEFINE T == {n \in 0 .. N : LoopInv(f[n], s, n)}
  <1>2. 0 \in T
    <2>1. <<>> \in Seq(EntryRecord) /\ Len(<<>>) = 0
      BY EmptySeq
    <2>2. Len(<<>>) <= MaxEntries
      BY <2>1, StoryDigestAssumption
    <2>3. LoopInv(<<>>, s, 0)
      BY <2>1, <2>2 DEF LoopInv
    <2> QED
      BY <1>1, <2>3
  <1>3. ASSUME NEW n \in 0 .. N - 1, n \in T PROVE n + 1 \in T
    <2>1. f[n + 1] = Take(f[n], s[n + 1])
      BY <1>1
    <2>2. LoopInv(f[n + 1], s, n + 1)
      BY <1>3, <2>1, RoundKeeps
    <2> QED
      BY <1>1, <2>2
  <1>4. 0 .. N \subseteq T
    <2> HIDE DEF T
    <2> QED
      BY <1>1, <1>2, <1>3, Rounds
  <1> QED
    BY <1>1, <1>4

-----------------------------------------------------------------------------
(* The entries of a digest, in any state of the tables.                    *)

(* s are the groups of the eligible news in ranked order, N of them.       *)
RankedGroups(s, N) ==
    /\ InRankOrder(s, N)
    /\ \A n \in 1 .. N : /\ s[n] \in SUBSET Eligibles
                         /\ \A i, j \in s[n] : GroupKey[i] = GroupKey[j]
    /\ \A i \in Eligibles : \E n \in 1 .. N :
          \A j \in Eligibles : j \in s[n] <=> GroupKey[j] = GroupKey[i]

(* What is eligible is news: only published items are read.                *)
LEMMA EligiblesAreItems ==
  ASSUME TypeOK
  PROVE  Eligibles \in SUBSET Items
  BY DEF TypeOK, Eligibles, Eligible, WindowRows

(* The entries are what the loop leaves of the ranked groups.              *)
LEMMA EntriesAre ==
  ASSUME TypeOK
  PROVE  \E s, N : RankedGroups(s, N) /\ LoopInv(Entries, s, N)
  <1>1. PICK E \in SUBSET Items : E = Eligibles
    BY EligiblesAreItems
  <1>0. PICK group : group = GroupKey
    OBVIOUS
  <1>2. PICK groups : groups = Groups(E, group)
    OBVIOUS
  <1>3. /\ Grouping(groups)
        /\ \A G \in groups : /\ G \in SUBSET E
                             /\ \A i, j \in G : group[i] = group[j]
        /\ \A i \in E : \E G \in groups : \A j \in E : j \in G <=> group[j] = group[i]
    <2>1. /\ Grouping(Groups(E, group))
          /\ \A G \in Groups(E, group) : /\ G \in SUBSET E
                                         /\ \A i, j \in G : group[i] = group[j]
          /\ \A i \in E : \E G \in Groups(E, group) :
                \A j \in E : j \in G <=> group[j] = group[i]
      BY GroupsAre
    <2> QED
      BY <1>2, <2>1
  <1> PICK s : s = Ranked(groups)
    OBVIOUS
  <1>4. PICK N \in Nat :
            /\ s \in [1 .. N -> groups]
            /\ \A m, n \in 1 .. N : m < n => Less(RankKey(s[m]), RankKey(s[n]))
            /\ \A G \in groups : \E n \in 1 .. N : s[n] = G
    BY <1>3, RankedIs
  <1>5. \A n \in 1 .. N : s[n] \in groups /\ s[n] \in SUBSET Items /\ s[n] # {}
    <2>1. \A G \in groups : G \in SUBSET Items /\ G # {}
      BY <1>3 DEF Grouping
    <2> QED
      BY <1>4, <2>1
  <1>6. ASSUME NEW m \in 1 .. N, NEW n \in 1 .. N, m < n PROVE s[m] \cap s[n] = {}
    <2>1. ASSUME s[m] = s[n] PROVE FALSE
      <3>1. RankKey(s[m]) \in [1 .. 5 -> Int]
        BY <1>5, RankKeyType
      <3>2. Less(RankKey(s[m]), RankKey(s[m]))
        BY <1>4, <1>6, <2>1
      <3> QED
        BY <3>1, <3>2, LessIrreflexive
    <2> QED
      BY <1>3, <1>5, <2>1 DEF Grouping
  <1>7. InRankOrder(s, N)
    BY <1>4, <1>5, <1>6 DEF InRankOrder
  <1>8. s \in Seq(SUBSET Items)
    BY <1>4, <1>5, SeqDef
  <1>9. Entries = Selections(s)[Len(s)]
    BY <1>0, <1>1, <1>2, <1>4 DEF Entries, SelectDigestEntries, Eligibles
  <1>10. LoopInv(Entries, s, N)
    BY <1>7, <1>8, <1>9, LoopHolds
  <1>11. \A i \in E : \E n \in 1 .. N : \A j \in E : j \in s[n] <=> group[j] = group[i]
    <2> TAKE i \in E
    <2>1. PICK G \in groups : \A j \in E : j \in G <=> group[j] = group[i]
      BY <1>3
    <2>2. PICK n \in 1 .. N : s[n] = G
      BY <1>4
    <2> QED
      BY <2>1, <2>2
  <1>12. RankedGroups(s, N)
    BY <1>0, <1>1, <1>3, <1>5, <1>7, <1>11 DEF RankedGroups
  <1> QED
    BY <1>10, <1>12

(* News has a key of its own or that of its story.                         *)
LEMMA SameKey ==
  ASSUME TypeOK, NEW i \in Items, NEW j \in Items
  PROVE  GroupKey[j] = GroupKey[i] <=>
            i = j \/ (links[i] # NoLink /\ links[j].story = links[i].story)
  <1>1. /\ links[i] # NoLink <=> links[i].story \in Items
        /\ links[j] # NoLink <=> links[j].story \in Items
    <2>1. NoLink.story \notin Items
      BY StoryAssumption DEF NoLink
    <2> QED
      BY <2>1 DEF TypeOK
  <1>2. /\ GroupKey[i] = IF links[i] = NoLink THEN <<"news", i>>
                                              ELSE <<"story", links[i].story>>
        /\ GroupKey[j] = IF links[j] = NoLink THEN <<"news", j>>
                                              ELSE <<"story", links[j].story>>
    BY DEF GroupKey
  <1>3. CASE links[i] = NoLink
    BY <1>2, <1>3
  <1>4. CASE links[i] # NoLink
    BY <1>1, <1>2, <1>4
  <1> QED
    BY <1>3, <1>4

(* An entry stands for a group and shows its representative.               *)
LEMMA EntryItem ==
  ASSUME TypeOK, NEW s, NEW N, RankedGroups(s, N), NEW p \in 1 .. N
  PROVE  /\ s[p] \in SUBSET Items /\ s[p] # {} /\ s[p] \in SUBSET Eligibles
         /\ Entry(s[p]).item = Representative(s[p])
         /\ Representative(s[p]) \in s[p]
         /\ \A j \in s[p] : Importance[j] <= Importance[Representative(s[p])]
  <1>1. s[p] \in SUBSET Items /\ s[p] # {} /\ s[p] \in SUBSET Eligibles
    BY DEF RankedGroups, InRankOrder
  <1> QED
    BY <1>1, EntryType, RepresentativeIs

(* No two groups share their representative.                               *)
LEMMA OneGroup ==
  ASSUME NEW s, NEW N, RankedGroups(s, N), NEW p \in 1 .. N, NEW q \in 1 .. N,
         s[p] \cap s[q] # {}
  PROVE  p = q
  <1>1. ~(p < q) /\ ~(q < p)
    BY DEF RankedGroups, InRankOrder
  <1>2. p \in Int /\ q \in Int
    OBVIOUS
  <1> QED
    BY <1>1, <1>2

(* Of two entries, the first is other news, breaking or of no less         *)
(* importance.                                                             *)
LEMMA EntryOrder ==
  ASSUME TypeOK, NEW k \in 1 .. Len(Entries), NEW l \in 1 .. Len(Entries), k < l
  PROVE  LET i == Entries[k].item
             j == Entries[l].item
         IN  i # j /\ (AiCategory[i] = "breaking" \/ Importance[i] >= Importance[j])
  <1>1. PICK s, N : RankedGroups(s, N) /\ LoopInv(Entries, s, N)
    BY EntriesAre
  <1>2. PICK p \in 1 .. N, q \in 1 .. N :
            p < q /\ Entries[k] = Entry(s[p]) /\ Entries[l] = Entry(s[q])
    BY <1>1 DEF LoopInv
  <1>3. /\ s[p] \in SUBSET Items /\ s[p] # {} /\ Entries[k].item = Representative(s[p])
        /\ s[q] \in SUBSET Items /\ s[q] # {} /\ Entries[l].item = Representative(s[q])
        /\ Representative(s[p]) \in s[p] /\ Representative(s[q]) \in s[q]
    BY <1>1, <1>2, EntryItem
  <1>4. s[p] \cap s[q] = {} /\ Less(RankKey(s[p]), RankKey(s[q]))
    BY <1>1, <1>2 DEF RankedGroups, InRankOrder
  <1>5. \/ AiCategory[Representative(s[p])] = "breaking"
        \/ Importance[Representative(s[p])] >= Importance[Representative(s[q])]
    BY <1>3, <1>4, RankedBefore
  <1> QED
    BY <1>3, <1>4, <1>5

(* The representative of a group is its most important item, and a story   *)
(* is one group.                                                           *)
LEMMA StoryOnce == TypeOK => OneEntryPerStory
  <1> SUFFICES ASSUME TypeOK
               PROVE  /\ \A m, n \in DOMAIN Entries : Entries[m].item = Entries[n].item => m = n
                      /\ \A i \in Shown :
                            /\ i \notin Repeated
                            /\ \A j \in Eligibles \ {i} :
                                  links[i] # NoLink /\ links[j].story = links[i].story =>
                                        j \notin Shown /\ Importance[j] <= Importance[i]
    BY DEF OneEntryPerStory
  <1>1. PICK s, N : RankedGroups(s, N) /\ LoopInv(Entries, s, N)
    BY EntriesAre
  <1>2. DOMAIN Entries = 1 .. Len(Entries)
    BY <1>1, LenProperties DEF LoopInv
  <1>3. \A k \in DOMAIN Entries : \E p \in 1 .. N : Entries[k] = Entry(s[p])
    BY <1>1, <1>2 DEF LoopInv
  <1>4. ASSUME NEW m \in DOMAIN Entries, NEW n \in DOMAIN Entries,
               Entries[m].item = Entries[n].item
        PROVE  m = n
    <2>1. m \in 1 .. Len(Entries) /\ n \in 1 .. Len(Entries) /\ m \in Int /\ n \in Int
      BY <1>2
    <2>2. ~(m < n) /\ ~(n < m)
      BY <1>4, <2>1, EntryOrder
    <2> QED
      BY <2>1, <2>2
  <1> SUFFICES ASSUME NEW i \in Shown
               PROVE  /\ i \notin Repeated
                      /\ \A j \in Eligibles \ {i} :
                            links[i] # NoLink /\ links[j].story = links[i].story =>
                                j \notin Shown /\ Importance[j] <= Importance[i]
    BY <1>4
  <1>5. PICK n \in DOMAIN Entries : i = Entries[n].item
    BY DEF Shown
  <1>6. PICK p \in 1 .. N : Entries[n] = Entry(s[p])
    BY <1>3
  <1>7. /\ i = Representative(s[p]) /\ i \in s[p] /\ i \in Eligibles /\ i \in Items
        /\ \A j \in s[p] : Importance[j] <= Importance[i]
    BY <1>1, <1>5, <1>6, EntryItem
  <1>8. i \notin Repeated
    BY <1>7 DEF Eligibles, Eligible
  <1>9. ASSUME NEW j \in Eligibles \ {i}, links[i] # NoLink, links[j].story = links[i].story
        PROVE  j \notin Shown /\ Importance[j] <= Importance[i]
    <2>1. j \in Items /\ GroupKey[j] = GroupKey[i]
      BY <1>7, <1>9, EligiblesAreItems, SameKey
    <2>2. j \in s[p]
      <3>1. PICK q \in 1 .. N : \A k \in Eligibles : k \in s[q] <=> GroupKey[k] = GroupKey[i]
        BY <1>1, <1>7 DEF RankedGroups
      <3>2. i \in s[q] /\ j \in s[q]
        BY <1>7, <2>1, <3>1
      <3>3. p = q
        BY <1>1, <1>7, <3>2, OneGroup
      <3> QED
        BY <3>2, <3>3
    <2>3. ASSUME j \in Shown PROVE FALSE
      <3>1. PICK k \in DOMAIN Entries : Entries[k].item = j
        BY <2>3 DEF Shown
      <3>2. PICK r \in 1 .. N : Entries[k] = Entry(s[r])
        BY <1>3
      <3>3. j = Representative(s[r]) /\ j \in s[r]
        BY <1>1, <3>1, <3>2, EntryItem
      <3>4. r = p
        BY <1>1, <2>2, <3>3, OneGroup
      <3> QED
        BY <1>7, <3>3, <3>4
    <2> QED
      BY <1>7, <2>2, <2>3
  <1> QED
    BY <1>8, <1>9

(* A story is in the digest at most once, never as a repetition, and by    *)
(* its most important eligible item (selection.py:216-224).                *)
THEOREM StoriesOnce == Spec => []OneEntryPerStory
  BY StoryOnce, TypeCorrect, PTL

(* The group of an eligible item has an entry, or met what the invariant   *)
(* of the loop says; entries that rank before it matter no less.           *)
LEMMA BestNotLeftOut == TypeOK => NothingBetterLeftOut
  <1> SUFFICES ASSUME TypeOK, NEW i \in Eligibles
               PROVE  \E j \in Together(i) :
                  /\ Importance[j] >= Importance[i]
                  /\ \/ j \in Shown
                     \/ /\ Len(Entries) = MaxEntries
                        /\ \A k \in Shown : \/ Importance[k] >= Importance[j]
                                            \/ AiCategory[k] = "breaking"
                     \/ \E same \in SUBSET Shown :
                           /\ Importance[j] < 5 /\ AiCategory[j] # "breaking"
                           /\ Cardinality(same) = CategoryCap
                           /\ \A k \in same : /\ AiCategory[k] = AiCategory[j]
                                              /\ Importance[k] >= Importance[j]
    BY DEF NothingBetterLeftOut
  <1>1. PICK s, N : RankedGroups(s, N) /\ LoopInv(Entries, s, N)
    BY EntriesAre
  <1>2. DOMAIN Entries = 1 .. Len(Entries) /\ Len(Entries) \in Nat
    BY <1>1, LenProperties DEF LoopInv
  <1>3. PICK m \in 1 .. N : \A j \in Eligibles : j \in s[m] <=> GroupKey[j] = GroupKey[i]
    BY <1>1 DEF RankedGroups
  <1>4. i \in Items /\ i \in s[m]
    BY <1>3, EligiblesAreItems
  <1>5. PICK j \in Eligibles :
            /\ j = Representative(s[m]) /\ j \in s[m] /\ Entry(s[m]).item = j
            /\ Importance[i] <= Importance[j]
    BY <1>1, <1>3, <1>4, EntryItem
  <1>6. j \in Items /\ j \in Together(i)
    BY <1>3, <1>4, <1>5, EligiblesAreItems, SameKey DEF Together
  <1>7. Importance[i] \in 0 .. 5 /\ Importance[j] \in 0 .. 5
    BY <1>4, <1>6, StoryDigestAssumption
  (* An entry of a group that ranks before the m-th.                       *)
  <1>8. ASSUME NEW k \in 1 .. Len(Entries), Before(Entries, k, s, m)
        PROVE  /\ AiCategory[Entries[k].item] = "breaking"
                  \/ Importance[Entries[k].item] >= Importance[j]
               /\ Entries[k].item \in Shown
    <2>1. PICK p \in 1 .. m - 1 : Entries[k] = Entry(s[p])
      BY <1>8 DEF Before
    <2>2. p \in 1 .. N /\ p < m
      BY <1>1 DEF RankedGroups, InRankOrder
    <2>3. /\ s[p] \in SUBSET Items /\ s[p] # {} /\ Entries[k].item = Representative(s[p])
          /\ s[m] \in SUBSET Items /\ s[m] # {}
      BY <1>1, <2>1, <2>2, EntryItem
    <2>4. Less(RankKey(s[p]), RankKey(s[m]))
      BY <1>1, <2>2 DEF RankedGroups, InRankOrder
    <2>5. \/ AiCategory[Representative(s[p])] = "breaking"
          \/ Importance[Representative(s[p])] >= Importance[Representative(s[m])]
      BY <2>3, <2>4, RankedBefore
    <2> QED
      BY <1>2, <1>5, <2>3, <2>5 DEF Shown
  <1>9. CASE \E k \in 1 .. Len(Entries) : Entries[k] = Entry(s[m])
    <2>1. j \in Shown
      BY <1>2, <1>5, <1>9 DEF Shown
    <2> QED
      BY <1>5, <1>6, <1>7, <2>1
  <1>10. CASE /\ Len(Entries) = MaxEntries
              /\ \A k \in 1 .. Len(Entries) : Before(Entries, k, s, m)
    <2>1. ASSUME NEW x \in Shown PROVE Importance[x] >= Importance[j] \/ AiCategory[x] = "breaking"
      <3>1. PICK k \in 1 .. Len(Entries) : x = Entries[k].item
        BY <1>2 DEF Shown
      <3> QED
        BY <1>8, <1>10, <3>1
    <2> QED
      BY <1>5, <1>6, <1>7, <1>10, <2>1
  <1>11. CASE ~Breaking(s[m]) /\ \E K \in SUBSET (1 .. Len(Entries)) :
              /\ Cardinality(K) = CategoryCap
              /\ \A k \in K : /\ AiCategory[Entries[k].item] = AiCategory[Representative(s[m])]
                              /\ Before(Entries, k, s, m)
    <2>1. PICK K \in SUBSET (1 .. Len(Entries)) :
              /\ Cardinality(K) = CategoryCap
              /\ \A k \in K : /\ AiCategory[Entries[k].item] = AiCategory[j]
                              /\ Before(Entries, k, s, m)
      BY <1>5, <1>11
    <2>2. Importance[j] < 5 /\ AiCategory[j] # "breaking"
      BY <1>5, <1>7, <1>11 DEF Breaking
    <2>3. PICK same : same = {Entries[k].item : k \in K}
      OBVIOUS
    <2>4. Cardinality(same) = CategoryCap
      <3>1. IsFiniteSet(K)
        <4>1. IsFiniteSet(1 .. Len(Entries))
          BY <1>2, FS_Interval
        <4> QED
          BY <4>1, FS_Subset
      <3>2. PICK h : h = [k \in K |-> Entries[k].item]
        OBVIOUS
      <3>3. \A k, l \in K : h[k] = h[l] => k = l
        <4> TAKE k \in K, l \in K
        <4>1. k \in 1 .. Len(Entries) /\ l \in 1 .. Len(Entries)
          OBVIOUS
        <4>2. Entries[k].item = Entries[l].item => ~(k < l) /\ ~(l < k)
          BY <4>1, EntryOrder
        <4> QED
          BY <1>2, <3>2, <4>1, <4>2
      <3>4. h \in Bijection(K, same)
        <4>1. h \in [K -> same] /\ \A x \in same : \E k \in K : h[k] = x
          BY <2>3, <3>2
        <4> QED
          BY <3>3, <4>1 DEF Bijection, Injection, Surjection, IsInjective
      <3>5. ExistsBijection(K, same)
        BY <3>4 DEF ExistsBijection
      <3> QED
        BY <2>1, <3>1, <3>5, FS_Bijection
    <2>5. same \in SUBSET Shown
      BY <1>2, <2>3 DEF Shown
    <2>6. \A x \in same : AiCategory[x] = AiCategory[j] /\ Importance[x] >= Importance[j]
      <3> TAKE x \in same
      <3>1. PICK k \in K : x = Entries[k].item
        BY <2>3
      <3>2. k \in 1 .. Len(Entries) /\ Before(Entries, k, s, m)
        BY <2>1
      <3>3. AiCategory[x] = "breaking" \/ Importance[x] >= Importance[j]
        BY <1>8, <3>1, <3>2
      <3> QED
        BY <2>1, <2>2, <3>1, <3>3
    <2> QED
      BY <1>5, <1>6, <1>7, <2>2, <2>4, <2>5, <2>6
  <1>12. Handled(Entries, s, m)
    BY <1>1 DEF LoopInv
  <1> QED
    BY <1>9, <1>10, <1>11, <1>12 DEF Handled

(* News that matters is left out only for its story, a full digest or a    *)
(* full category, of news that matters no less (selection.py:226-249).     *)
THEOREM NoNewsMissed == Spec => []NothingBetterLeftOut
  BY BestNotLeftOut, TypeCorrect, PTL

-----------------------------------------------------------------------------
(* What the rendering drops.                                               *)

(* The greatest number that fits exists, or there is none but the lowest.  *)
LEMMA MostIs ==
  ASSUME NEW low \in Nat, NEW high \in Nat, low <= high, NEW F
  PROVE  /\ Most(low, high, F) \in low .. high
         /\ Most(low, high, F) = low \/ Most(low, high, F) \in F
         /\ \A m \in low .. high : m > Most(low, high, F) => m \notin F
  <1> DEFINE Good == {n \in low .. high : n = low \/ n \in F}
             Away == {high - n : n \in Good}
  <1>1. Away \in SUBSET Nat /\ Away # {}
    <2>1. low \in Good
      OBVIOUS
    <2> QED
      BY <2>1
  <1>2. PICK a \in Away : \A b \in Away : a <= b
    <2> HIDE DEF Away
    <2> QED
      BY <1>1, LeastNatural
  <1>3. PICK n \in Good : a = high - n
    OBVIOUS
  <1>4. ASSUME NEW m \in n + 1 .. high PROVE m \notin F
    <2>1. SUFFICES ASSUME m \in F PROVE FALSE
      OBVIOUS
    <2>2. m \in Good
      BY <2>1
    <2>3. high - n <= high - m
      BY <1>2, <1>3, <2>2
    <2> QED
      BY <2>3
  <1>5. PICK most \in low .. high :
            /\ most = Most(low, high, F)
            /\ most = low \/ most \in F
            /\ \A m \in most + 1 .. high : m \notin F
    BY <1>4 DEF Most
  <1>6. ASSUME NEW m \in low .. high, m > most PROVE m \notin F
    <2>1. m \in most + 1 .. high
      BY <1>6
    <2> QED
      BY <1>5, <2>1
  <1> QED
    BY <1>5, <1>6

(* The length of a text is a natural number.                               *)
LEMMA TextLengthType ==
  ASSUME NEW e \in Seq(EntryRecord), NEW n \in 0 .. Len(e), NEW s \in Nat
  PROVE  TextLength(e, n, s) \in Nat
  <1>1. PICK N \in Nat : N = Len(e)
    BY LenProperties
  <1>2. PICK part : part = [k \in 1 .. N |-> HeadlineLength[e[k].item]
                                + (IF e[k].summary /\ k <= s
                                   THEN SummaryLength[e[k].item] ELSE 0)]
    OBVIOUS
  <1>3. part \in [1 .. N -> Nat]
    <2>1. ASSUME NEW k \in 1 .. N PROVE part[k] \in Nat
      <3>1. e[k] \in EntryRecord
        BY <1>1, ElementOfSeq
      <3>2. /\ HeadlineLength[e[k].item] \in Nat
            /\ SummaryLength[e[k].item] \in Nat
        BY <3>1, StoryDigestAssumption DEF EntryRecord
      <3> QED
        BY <1>2, <3>2
    <2> QED
      BY <1>2, <2>1
  <1>4. PICK next : next = [k \in 1 .. N |-> [x \in Nat |-> x + part[k]]]
    OBVIOUS
  <1>5. next \in [1 .. N -> [Nat -> Nat]] /\ FrameLength \in Nat
    BY <1>3, <1>4, StoryDigestAssumption
  <1>6. PICK f \in [0 .. N -> Nat] : Iterates(f, N, FrameLength, next)
    BY <1>5, LoopFunction
  <1>7. \A k \in 1 .. N : f[k] = f[k - 1] + HeadlineLength[e[k].item]
                                   + (IF e[k].summary /\ k <= s
                                      THEN SummaryLength[e[k].item] ELSE 0)
    <2> TAKE k \in 1 .. N
    <2>1. k - 1 \in 0 .. N /\ f[k - 1] \in Nat
      OBVIOUS
    <2>2. f[k] = f[k - 1] + part[k]
      BY <1>4, <1>6, <2>1 DEF Iterates
    <2>3. /\ HeadlineLength[e[k].item] \in Nat
          /\ SummaryLength[e[k].item] \in Nat
      <3>1. e[k] \in EntryRecord
        BY <1>1, ElementOfSeq
      <3> QED
        BY <3>1, StoryDigestAssumption DEF EntryRecord
    <2> QED
      BY <1>2, <2>1, <2>2, <2>3
  <1>8. f = [k \in 0 .. N |->
               IF k = 0 THEN FrameLength
               ELSE f[k - 1] + HeadlineLength[e[k].item]
                        + (IF e[k].summary /\ k <= s
                           THEN SummaryLength[e[k].item] ELSE 0)]
    <2>1. f[0] = FrameLength
      BY <1>6 DEF Iterates
    <2> QED
      BY <1>7, <2>1
  <1>9. PICK g : /\ TextLength(e, n, s) = g[n]
                 /\ g = [k \in 0 .. N |->
                           IF k = 0 THEN FrameLength
                           ELSE g[k - 1] + HeadlineLength[e[k].item]
                                    + (IF e[k].summary /\ k <= s
                                       THEN SummaryLength[e[k].item] ELSE 0)]
    BY <1>1, <1>8 DEF TextLength
  <1>10. ASSUME NEW k \in 1 .. N, g[k - 1] \in Nat PROVE g[k] \in Nat
    <2>1. e[k] \in EntryRecord
      BY <1>1, ElementOfSeq
    <2>2. PICK h \in Nat, q \in Nat :
              /\ h = HeadlineLength[e[k].item]
              /\ q = IF e[k].summary /\ k <= s THEN SummaryLength[e[k].item] ELSE 0
      BY <2>1, StoryDigestAssumption DEF EntryRecord
    <2>3. k \in 0 .. N /\ k # 0
      OBVIOUS
    <2>4. g[k] = g[k - 1] + h + q
      BY <1>9, <2>2, <2>3
    <2> QED
      BY <1>10, <2>4
  <1>11. g[0] = FrameLength
    <2>1. 0 \in 0 .. N
      OBVIOUS
    <2> QED
      BY <1>9, <2>1
  <1> DEFINE T == {k \in 0 .. N : g[k] \in Nat}
  <1>12. 0 \in T
    BY <1>5, <1>11
  <1>13. ASSUME NEW k \in 0 .. N - 1, k \in T PROVE k + 1 \in T
    <2>1. k + 1 \in 1 .. N /\ (k + 1) - 1 = k
      OBVIOUS
    <2>2. g[(k + 1) - 1] \in Nat
      BY <1>13, <2>1
    <2>3. g[k + 1] \in Nat
      BY <1>10, <2>1, <2>2
    <2> QED
      BY <2>1, <2>3
  <1>14. 0 .. N \subseteq T
    <2> HIDE DEF T
    <2> QED
      BY <1>12, <1>13, Rounds
  <1> QED
    BY <1>1, <1>9, <1>14

(* How many entries and summaries are left, and why no more.               *)
LEMMA RenderedIs ==
  ASSUME NEW e \in Seq(EntryRecord)
  PROVE  \E n, s \in 0 .. Len(e) :
            /\ n = Kept(e) /\ s = Summaries(e)
            /\ s > 0 => TextLength(e, Len(e), s) <= SoftLimit /\ n = Len(e)
            /\ s = 0 /\ Len(e) > 0 => TextLength(e, Len(e), 1) > SoftLimit
            /\ n <= MinEntriesWhenTrimming \/ TextLength(e, n, s) <= HardLimit
            /\ Len(e) > 0 => n > 0
  <1>1. PICK L \in Nat : L = Len(e)
    BY LenProperties
  <1> DEFINE Soft == {s \in 0 .. L : TextLength(e, L, s) <= SoftLimit}
  <1>2. PICK s \in 0 .. L :
            /\ s = Summaries(e)
            /\ s = 0 \/ s \in Soft
            /\ \A m \in 0 .. L : m > s => m \notin Soft
    <2>1. Summaries(e) = Most(0, L, Soft)
      BY <1>1 DEF Summaries
    <2> HIDE DEF Soft
    <2> QED
      BY <2>1, MostIs
  <1>3. s > 0 => TextLength(e, L, s) <= SoftLimit
    BY <1>2
  <1>4. ASSUME NEW n \in 0 .. L, NEW m \in Nat PROVE TextLength(e, n, m) \in Nat
    BY <1>1, TextLengthType
  <1>5. s = 0 /\ L > 0 => TextLength(e, L, 1) > SoftLimit
    <2>1. SUFFICES ASSUME s = 0, L > 0 PROVE TextLength(e, L, 1) > SoftLimit
      OBVIOUS
    <2>2. TextLength(e, L, 1) \in Nat
      BY <1>4
    <2>3. 1 \notin Soft
      BY <1>2, <2>1
    <2> QED
      BY <2>1, <2>2, <2>3, DigestTextAssumption
  <1> DEFINE Hard == {n \in 0 .. L : TextLength(e, n, s) <= HardLimit}
  <1>6. PICK n \in 0 .. L :
            /\ n = Kept(e)
            /\ n <= MinEntriesWhenTrimming \/ n \in Hard
            /\ n = L \/ L \notin Hard
            /\ L > 0 => n > 0
    <2>1. CASE L <= MinEntriesWhenTrimming
      <3>1. Kept(e) = L
        BY <1>1, <2>1 DEF Kept
      <3> QED
        BY <2>1, <3>1
    <2>2. CASE ~(L <= MinEntriesWhenTrimming)
      <3>1. Kept(e) = Most(MinEntriesWhenTrimming, L, Hard)
        BY <1>1, <1>2, <2>2 DEF Kept
      <3> HIDE DEF Hard
      <3>2. /\ MinEntriesWhenTrimming \in Nat \ {0}
            /\ MinEntriesWhenTrimming <= L
        BY <2>2, DigestTextAssumption
      <3>3. PICK n : n = Most(MinEntriesWhenTrimming, L, Hard)
        OBVIOUS
      <3>4. /\ n \in MinEntriesWhenTrimming .. L
            /\ n = MinEntriesWhenTrimming \/ n \in Hard
            /\ \A m \in MinEntriesWhenTrimming .. L : m > n => m \notin Hard
        BY <3>2, <3>3, MostIs
      <3>5. n \in 0 .. L /\ n > 0 /\ (n = L \/ L \notin Hard)
        BY <3>2, <3>4
      <3> QED
        BY <3>1, <3>2, <3>3, <3>4, <3>5
    <2> QED
      BY <2>1, <2>2
  <1>7. s > 0 => n = L
    <2>1. SUFFICES ASSUME s > 0 PROVE L \in Hard
      BY <1>6
    <2>2. TextLength(e, L, s) \in Nat
      BY <1>4
    <2> QED
      BY <1>3, <2>1, <2>2, DigestTextAssumption
  <1>8. n <= MinEntriesWhenTrimming \/ TextLength(e, n, s) <= HardLimit
    BY <1>6
  <1> HIDE DEF Soft, Hard
  <1> QED
    BY <1>1, <1>2, <1>3, <1>5, <1>6, <1>7, <1>8

(* What the rendering leaves fits, by cases of the two limits.             *)
LEMMA TrimmedLast == TypeOK => TrimmedFromBelow
  <1> SUFFICES ASSUME TypeOK PROVE TrimmedFromBelow
    OBVIOUS
  <1>1. Entries \in Seq(EntryRecord)
    BY EntriesAre DEF LoopInv
  <1>2. PICK L \in Nat : L = Len(Entries) /\ DOMAIN Entries = 1 .. L
    BY <1>1, LenProperties
  <1>3. PICK n \in 0 .. L, s \in 0 .. L :
            /\ n = Kept(Entries) /\ s = Summaries(Entries)
            /\ s > 0 => TextLength(Entries, L, s) <= SoftLimit /\ n = L
            /\ s = 0 /\ L > 0 => TextLength(Entries, L, 1) > SoftLimit
            /\ n <= MinEntriesWhenTrimming \/ TextLength(Entries, n, s) <= HardLimit
            /\ L > 0 => n > 0
    BY <1>1, <1>2, RenderedIs
  <1>4. TextLength(Entries, n, s) \in Nat /\ TextLength(Entries, n, 0) \in Nat
    BY <1>1, <1>2, TextLengthType
  <1>5. s > 0 => TextLength(Entries, n, s) <= HardLimit
    BY <1>3, <1>4, DigestTextAssumption
  <1>6. PICK d \in 0 .. L :
            /\ d = IF TextLength(Entries, n, s) > HardLimit THEN 0 ELSE s
            /\ d = Rendered(Entries).summaries /\ n = Rendered(Entries).entries
    BY <1>3 DEF Rendered
  <1>7. d = s /\ (n <= MinEntriesWhenTrimming \/ TextLength(Entries, n, d) <= HardLimit)
    BY <1>3, <1>4, <1>5, <1>6, DigestTextAssumption
  <1>8. ASSUME NEW k \in 1 .. n, NEW g \in n + 1 .. L
        PROVE  \/ AiCategory[Entries[k].item] = "breaking"
               \/ Importance[Entries[k].item] >= Importance[Entries[g].item]
    <2>1. k \in 1 .. L /\ g \in 1 .. L /\ k < g
      OBVIOUS
    <2> QED
      BY <1>2, <2>1, EntryOrder
  <1>9. PICK told : told = {k \in 1 .. n : k <= d /\ Entries[k].summary}
    OBVIOUS
  <1>10. told # {} => TextLength(Entries, n, d) <= SoftLimit /\ n = L
    BY <1>3, <1>7, <1>9
  <1>11. ASSUME Entries # <<>>, Entries[1].summary, 1 \notin told
         PROVE  TextLength(Entries, L, 1) > SoftLimit
    <2>1. L > 0
      BY <1>1, <1>2, <1>11, EmptySeq
    <2>2. 1 \in 1 .. n
      BY <1>3, <2>1
    <2>3. d = 0
      BY <1>9, <1>11, <2>2
    <2> QED
      BY <1>3, <1>7, <2>1, <2>3
  <1> QED
    BY <1>2, <1>6, <1>7, <1>8, <1>9, <1>10, <1>11 DEF TrimmedFromBelow

(* A digest that is too long loses what matters least (formatter.py:122-161 *)
(* on what selection.py:216-229 ranks).                                    *)
THEOREM LeastDropped == Spec => []TrimmedFromBelow
  BY TrimmedLast, TypeCorrect, PTL
=============================================================================
