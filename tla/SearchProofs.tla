----------------------------- MODULE SearchProofs -----------------------------
(***************************************************************************)
(* Proofs about Search, for any index, any requests, any configuration and *)
(* any number of searches and cleaned files.                               *)
(***************************************************************************)
EXTENDS Search, FiniteSetTheorems, SequenceTheorems, TLAPS

-----------------------------------------------------------------------------
(* Naturals. *)

LEMMA LeastElement ==
  ASSUME NEW S \in SUBSET Nat, S # {}
  PROVE  \E m \in S : \A x \in S : m <= x
<1> DEFINE R == OpToRel(<, Nat)
<1>1. \A x, y \in Nat : x < y => <<x, y>> \in R
  BY DEF OpToRel
<1>2. IsWellFoundedOn(R, Nat)
  BY NatLessThanWellFounded
<1> HIDE DEF R
<1>3. \E x \in S : \A y \in S : ~ (<<y, x>> \in R)
  BY <1>2, WFMin
<1>4. PICK m \in S : \A y \in S : ~ (<<y, m>> \in R)
  BY <1>3
<1>5. \A y \in S : ~(y < m)
  BY <1>1, <1>4
<1> QED
  BY <1>5

(* What holds of 0 and of the successor of what it holds of. *)
LEMMA Reached ==
  ASSUME NEW n \in Nat, NEW G, 0 \in G, \A i \in 1..n : i - 1 \in G => i \in G
  PROVE  0..n \subseteq G
<1> DEFINE Bad == (0..n) \ G
<1>1. Bad \in SUBSET Nat
  OBVIOUS
<1>2. ASSUME Bad # {}
      PROVE  FALSE
  <2>1. PICK m \in Bad : \A x \in Bad : m <= x
    <3> HIDE DEF Bad
    <3> QED
      BY <1>1, <1>2, LeastElement
  <2>2. m # 0
    OBVIOUS
  <2>3. m \in 1..n /\ m - 1 \in 0..n
    BY <2>2
  <2>4. m - 1 \in G
    BY <2>1, <2>3
  <2> QED
    BY <2>3, <2>4
<1> QED
  BY <1>2

LEMMA ReachedEnd ==
  ASSUME NEW n, n \in Nat, NEW G, 0 \in G, \A i \in 1..n : i - 1 \in G => i \in G
  PROVE  n \in G
<1>1. 0..n \subseteq G
  BY Reached
<1> QED
  BY <1>1

LEMMA GreatestOf ==
  ASSUME NEW n \in Nat, NEW S \in SUBSET (1..n), S # {}
  PROVE  Max(S) \in S /\ \A x \in S : x <= Max(S)
<1> DEFINE D == {n - x : x \in S}
<1>a. \A x \in S : x \in 1..n
  OBVIOUS
<1>1. D \in SUBSET Nat /\ D # {}
  BY <1>a
<1>2. PICK d \in D : \A x \in D : d <= x
  <2> HIDE DEF D
  <2> QED
    BY <1>1, LeastElement
<1>3. PICK m \in S : d = n - m
  OBVIOUS
<1>4. ASSUME NEW x \in S
      PROVE  m >= x
  <2>1. n - m <= n - x
    BY <1>2, <1>3
  <2>2. x \in Int /\ m \in Int
    BY <1>a
  <2> QED
    BY <2>1, <2>2
<1>5. \E y \in S : \A x \in S : y >= x
  BY <1>4
<1>6. Max(S) \in S /\ \A x \in S : Max(S) >= x
  BY <1>5 DEF Max
<1> QED
  BY <1>6, <1>a

LEMMA UpTo ==
  ASSUME NEW n \in Nat, NEW i \in 1..n
  PROVE  1..i \in SUBSET (1..n) /\ 1..i # {} /\ Max(1..i) = i /\ (1..i) \ {i} = 1..(i - 1)
<1>1. 1..i \in SUBSET (1..n) /\ i \in 1..i
  OBVIOUS
<1>2. Max(1..i) \in 1..i /\ \A x \in 1..i : x <= Max(1..i)
  BY <1>1, GreatestOf
<1>3. Max(1..i) = i
  BY <1>1, <1>2
<1> QED
  BY <1>1, <1>3

LEMMA SameInterval ==
  ASSUME NEW m \in Nat, NEW n \in Nat, 1..m = 1..n
  PROVE  m = n
<1>1. m > n => m \in 1..m /\ m \notin 1..n
  OBVIOUS
<1>2. n > m => n \in 1..n /\ n \notin 1..m
  OBVIOUS
<1> QED
  BY <1>1, <1>2

FunctionOn(f, D) == f = [x \in D |-> f[x]]

LEMMA FunctionIsSeq ==
  ASSUME NEW S, NEW n \in Nat, NEW f \in [1..n -> S]
  PROVE  f \in Seq(S) /\ Len(f) = n /\ DOMAIN f = 1..n
<1>1. f \in Seq(S)
  BY SeqDef
<1>2. Len(f) \in Nat /\ DOMAIN f = 1..Len(f)
  BY <1>1, LenProperties
<1>3. DOMAIN f = 1..n
  OBVIOUS
<1> QED
  BY <1>1, <1>2, <1>3, SameInterval

-----------------------------------------------------------------------------
(* Orders: a finite set in order. *)

StrictOrder(R, S) ==
    /\ \A d \in S : <<d, d>> \notin R
    /\ \A c, d, e \in S : <<c, d>> \in R /\ <<d, e>> \in R => <<c, e>> \in R
    /\ \A d, e \in S : d = e \/ <<d, e>> \in R \/ <<e, d>> \in R

BelowIn(R, S, e) == {d \in S : <<d, e>> \in R}

(* A member has fewer below it than there are members, and more than those *)
(* below it have.                                                          *)
LEMMA Places ==
  ASSUME NEW S, IsFiniteSet(S), NEW R, StrictOrder(R, S)
  PROVE  /\ \A e \in S : Cardinality(BelowIn(R, S, e)) \in 0..(Cardinality(S) - 1)
         /\ \A d, e \in S : <<d, e>> \in R <=>
                Cardinality(BelowIn(R, S, d)) < Cardinality(BelowIn(R, S, e))
<1>0. Cardinality(S) \in Nat
  BY FS_CardinalityType
<1>1. ASSUME NEW e \in S
      PROVE  /\ IsFiniteSet(BelowIn(R, S, e)) /\ Cardinality(BelowIn(R, S, e)) \in Nat
             /\ Cardinality(BelowIn(R, S, e)) \in 0..(Cardinality(S) - 1)
  <2>1. IsFiniteSet(S \ {e}) /\ Cardinality(S \ {e}) = Cardinality(S) - 1
    BY FS_RemoveElement
  <2>2. BelowIn(R, S, e) \in SUBSET (S \ {e})
    BY DEF BelowIn, StrictOrder
  <2>3. IsFiniteSet(BelowIn(R, S, e)) /\ Cardinality(BelowIn(R, S, e)) <= Cardinality(S) - 1
    BY <2>1, <2>2, FS_Subset
  <2>4. Cardinality(BelowIn(R, S, e)) \in Nat
    BY <2>3, FS_CardinalityType
  <2> QED
    BY <1>0, <2>3, <2>4
<1>2. ASSUME NEW d \in S, NEW e \in S, <<d, e>> \in R
      PROVE  Cardinality(BelowIn(R, S, d)) < Cardinality(BelowIn(R, S, e))
  <2>1. IsFiniteSet(BelowIn(R, S, e) \ {d})
        /\ Cardinality(BelowIn(R, S, e) \ {d}) = Cardinality(BelowIn(R, S, e)) - 1
    <3>1. d \in BelowIn(R, S, e)
      BY <1>2 DEF BelowIn
    <3> QED
      BY <1>1, <3>1, FS_RemoveElement
  <2>2. BelowIn(R, S, d) \in SUBSET (BelowIn(R, S, e) \ {d})
    <3>1. ASSUME NEW c \in BelowIn(R, S, d)
          PROVE  c \in BelowIn(R, S, e) /\ c # d
      BY <1>2, <3>1 DEF BelowIn, StrictOrder
    <3> QED
      BY <3>1
  <2>3. Cardinality(BelowIn(R, S, d)) <= Cardinality(BelowIn(R, S, e)) - 1
    BY <2>1, <2>2, FS_Subset
  <2> QED
    BY <1>1, <2>3
<1>3. ASSUME NEW d \in S, NEW e \in S,
             Cardinality(BelowIn(R, S, d)) < Cardinality(BelowIn(R, S, e))
      PROVE  <<d, e>> \in R
  <2>1. d # e
    BY <1>1, <1>3
  <2>2. CASE <<e, d>> \in R
    <3>1. Cardinality(BelowIn(R, S, e)) < Cardinality(BelowIn(R, S, d))
      BY <1>2, <2>2
    <3> QED
      BY <1>1, <1>3, <3>1
  <2> QED
    BY <2>1, <2>2 DEF StrictOrder
<1> QED
  BY <1>1, <1>2, <1>3

(* And every place is some member's. *)
LEMMA PlacesAreTaken ==
  ASSUME NEW S, IsFiniteSet(S), NEW R, StrictOrder(R, S), NEW i \in 1..Cardinality(S)
  PROVE  \E e \in S : Cardinality(BelowIn(R, S, e)) = i - 1
<1> DEFINE n == Cardinality(S)
           T == 0..(n - 1)
           place == [e \in S |-> Cardinality(BelowIn(R, S, e))]
<1>1. n \in Nat
  BY FS_CardinalityType
<1>2. IsFiniteSet(T) /\ Cardinality(T) = n
  <2>1. 0 \in Int /\ n - 1 \in Int
    BY <1>1
  <2> QED
    BY <1>1, <2>1, FS_Interval
<1>3. place \in [S -> T]
  BY Places
<1>4. ASSUME NEW d \in S, NEW e \in S, place[d] = place[e]
      PROVE  d = e
  <2>1. place[d] \in Int /\ place[e] \in Int
    BY <1>3
  <2>2. <<d, e>> \notin R /\ <<e, d>> \notin R
    BY <1>4, <2>1, Places
  <2> QED
    BY <2>2 DEF StrictOrder
<1>5. place \in Injection(S, T)
  BY <1>3, <1>4 DEF Injection, IsInjective
<1>6. place \in Surjection(S, T)
  BY <1>2, <1>5, FS_Injection
<1>7. i - 1 \in T
  BY <1>1
<1>8. \E e \in S : place[e] = i - 1
  BY <1>6, <1>7 DEF Surjection
<1> QED
  BY <1>8

(* q lists the members of S in the order R. *)
InOrder(q, R, S) ==
    /\ q \in Seq(S) /\ Len(q) = Cardinality(S)
    /\ \A e \in S : \E i \in DOMAIN q : q[i] = e
    /\ \A i, j \in DOMAIN q : i < j <=> <<q[i], q[j]>> \in R

LEMMA ListedInOrder ==
  ASSUME NEW S, IsFiniteSet(S), NEW R, StrictOrder(R, S), NEW q,
         q = [i \in 1..Cardinality(S) |-> q[i]],
         \A i \in 1..Cardinality(S) : q[i] \in S /\ Cardinality(BelowIn(R, S, q[i])) = i - 1
  PROVE  InOrder(q, R, S)
<1> DEFINE n == Cardinality(S)
<1>1. n \in Nat
  BY FS_CardinalityType
<1>2. q \in Seq(S) /\ Len(q) = n /\ DOMAIN q = 1..n
  <2>1. q \in [1..n -> S]
    OBVIOUS
  <2> HIDE DEF n
  <2> QED
    BY <1>1, <2>1, FunctionIsSeq
<1>3. ASSUME NEW e \in S
      PROVE  \E i \in DOMAIN q : q[i] = e
  <2> DEFINE k == Cardinality(BelowIn(R, S, e))
  <2>1. k \in 0..(n - 1)
    BY Places
  <2>2. k + 1 \in 1..n /\ (k + 1) - 1 = k
    BY <1>1, <2>1
  <2>3. q[k + 1] \in S /\ Cardinality(BelowIn(R, S, q[k + 1])) = k
    BY <2>2
  <2>4. ~(Cardinality(BelowIn(R, S, q[k + 1])) < k) /\ ~(k < Cardinality(BelowIn(R, S, q[k + 1])))
    BY <2>1, <2>3
  <2>5. <<e, q[k + 1]>> \notin R /\ <<q[k + 1], e>> \notin R
    BY <2>3, <2>4, Places
  <2>6. q[k + 1] = e
    BY <2>3, <2>5 DEF StrictOrder
  <2> QED
    BY <1>2, <2>2, <2>6
<1>4. ASSUME NEW i \in DOMAIN q, NEW j \in DOMAIN q
      PROVE  i < j <=> <<q[i], q[j]>> \in R
  <2>1. i \in 1..n /\ j \in 1..n
    BY <1>2
  <2>2. q[i] \in S /\ q[j] \in S
    BY <2>1
  <2>3. Cardinality(BelowIn(R, S, q[i])) = i - 1 /\ Cardinality(BelowIn(R, S, q[j])) = j - 1
    BY <2>1
  <2>4. <<q[i], q[j]>> \in R <=> i - 1 < j - 1
    BY <2>2, <2>3, Places
  <2> QED
    BY <1>1, <2>1, <2>4
<1> QED
  BY <1>2, <1>3, <1>4 DEF InOrder

LEMMA ChosenInOrder ==
  ASSUME NEW S, IsFiniteSet(S), NEW R, StrictOrder(R, S), NEW before,
         \A e \in S : before[e] = Cardinality(BelowIn(R, S, e)), NEW q,
         FunctionOn(q, 1..Cardinality(S)),
         \A i \in 1..Cardinality(S) :
             (\E e \in S : before[e] = i - 1) => q[i] \in S /\ before[q[i]] = i - 1
  PROVE  InOrder(q, R, S)
<1>1. ASSUME NEW i \in 1..Cardinality(S)
      PROVE  q[i] \in S /\ Cardinality(BelowIn(R, S, q[i])) = i - 1
  <2>1. \E e \in S : before[e] = i - 1
    BY PlacesAreTaken
  <2>2. q[i] \in S /\ before[q[i]] = i - 1
    BY <2>1
  <2> QED
    BY <2>2
<1>2. q = [i \in 1..Cardinality(S) |-> q[i]]
  BY DEF FunctionOn
<1> QED
  BY <1>1, <1>2, ListedInOrder

(* Integers in ascending order. *)
Less(K) == {p \in K \X K : p[1] < p[2]}

LEMMA SortedInts ==
  ASSUME NEW K \in SUBSET Int, IsFiniteSet(K)
  PROVE  /\ InOrder(Sorted(K, LAMBDA i, j : i < j), Less(K), K)
         /\ DOMAIN Sorted(K, LAMBDA i, j : i < j) = 1..Cardinality(K)
<1> DEFINE before == [e \in K |-> Cardinality({d \in K : d < e})]
           q == [i \in 1..Cardinality(K) |-> CHOOSE e \in K : before[e] = i - 1]
<1>1. Sorted(K, LAMBDA i, j : i < j) = q
  BY DEF Sorted
<1>2. StrictOrder(Less(K), K)
  <2>1. \A d, e \in K : <<d, e>> \in Less(K) <=> d < e
    BY DEF Less
  <2> QED
    BY <2>1 DEF StrictOrder
<1>3. ASSUME NEW e \in K
      PROVE  before[e] = Cardinality(BelowIn(Less(K), K, e))
  <2>1. {d \in K : d < e} = BelowIn(Less(K), K, e)
    BY DEF Less, BelowIn
  <2> QED
    BY <2>1
<1>4. /\ FunctionOn(q, 1..Cardinality(K))
      /\ \A i \in 1..Cardinality(K) :
             (\E e \in K : before[e] = i - 1) => q[i] \in K /\ before[q[i]] = i - 1
  <2> HIDE DEF before
  <2> QED
    BY DEF FunctionOn
<1>5. DOMAIN q = 1..Cardinality(K)
  OBVIOUS
<1> HIDE DEF before, q
<1>6. InOrder(q, Less(K), K)
  BY <1>2, <1>3, <1>4, ChosenInOrder
<1> QED
  BY <1>1, <1>5, <1>6

(* What passes a test, in its order: each element of the result is one of  *)
(* those, each of those is in it, and no place of the sequence twice.      *)
Picks(res, s, K) ==
    \E at \in [DOMAIN res -> K] :
        /\ \A k \in DOMAIN res : res[k] = s[at[k]]
        /\ \A i \in K : \E k \in DOMAIN res : at[k] = i
        /\ \A j, k \in DOMAIN res : j < k <=> at[j] < at[k]

LEMMA PositionsFinite ==
  ASSUME NEW n \in Nat, NEW K \in SUBSET (1..n)
  PROVE  IsFiniteSet(K) /\ K \in SUBSET Int /\ Cardinality(K) \in Nat /\ Cardinality(K) <= n
<1>1. IsFiniteSet(1..n) /\ Cardinality(1..n) = n
  <2>1. 1 \in Int /\ n \in Int
    OBVIOUS
  <2>2. (IF 1 > n THEN 0 ELSE n - 1 + 1) = n
    OBVIOUS
  <2> QED
    BY <2>1, <2>2, FS_Interval
<1>2. IsFiniteSet(K) /\ Cardinality(K) <= n
  BY <1>1, FS_Subset
<1>3. \A i \in 1..n : i \in Int
  OBVIOUS
<1> QED
  BY <1>2, <1>3, FS_CardinalityType

(* The sequence of the places K of s. *)
Taken(s, K) ==
    LET at == Sorted(K, LAMBDA i, j : i < j)
    IN  [k \in DOMAIN at |-> s[at[k]]]

LEMMA TakenPicks ==
  ASSUME NEW S, NEW s \in Seq(S), NEW K \in SUBSET DOMAIN s
  PROVE  /\ Taken(s, K) \in Seq(S) /\ Len(Taken(s, K)) = Cardinality(K)
         /\ Picks(Taken(s, K), s, K)
<1> DEFINE at == Sorted(K, LAMBDA i, j : i < j)
           res == [k \in DOMAIN at |-> s[at[k]]]
<1>1. Len(s) \in Nat /\ DOMAIN s = 1..Len(s) /\ s \in [1..Len(s) -> S]
  BY LenProperties
<1>2. IsFiniteSet(K) /\ K \in SUBSET Int /\ Cardinality(K) \in Nat
  BY <1>1, PositionsFinite
<1>3. Taken(s, K) = res
  BY DEF Taken
<1>4. InOrder(at, Less(K), K) /\ DOMAIN at = 1..Cardinality(K)
  BY <1>2, SortedInts
<1> HIDE DEF at
<1>5. at \in [1..Cardinality(K) -> K]
  <2>1. at \in Seq(K) /\ Len(at) = Cardinality(K)
    BY <1>4 DEF InOrder
  <2> QED
    BY <2>1, LenProperties
<1>6. \A k \in 1..Cardinality(K) : at[k] \in K /\ s[at[k]] \in S
  BY <1>1, <1>5
<1>7. res \in [1..Cardinality(K) -> S] /\ DOMAIN res = 1..Cardinality(K)
  BY <1>4, <1>6
<1>8. \A k \in 1..Cardinality(K) : res[k] = s[at[k]]
  BY <1>4
<1> HIDE DEF res
<1>9. res \in Seq(S) /\ Len(res) = Cardinality(K)
  BY <1>2, <1>7, FunctionIsSeq
<1>10. \A j, k \in 1..Cardinality(K) : j < k <=> at[j] < at[k]
  <2>1. \A j, k \in 1..Cardinality(K) : j < k <=> <<at[j], at[k]>> \in Less(K)
    BY <1>4 DEF InOrder
  <2>2. \A d, e \in K : <<d, e>> \in Less(K) <=> d < e
    BY DEF Less
  <2> QED
    BY <1>6, <2>1, <2>2
<1>11. \A i \in K : \E k \in 1..Cardinality(K) : at[k] = i
  BY <1>4 DEF InOrder
<1>12. Picks(res, s, K)
  BY <1>5, <1>7, <1>8, <1>10, <1>11 DEF Picks
<1> QED
  BY <1>3, <1>9, <1>12

(* A stable sort: the places of a sequence rearranged, none before one that *)
(* must precede it.                                                        *)
WeakOrder(B, S) ==
    /\ \A d \in S : <<d, d>> \notin B
    /\ \A c, d, e \in S : <<c, d>> \in B /\ <<d, e>> \in B => <<c, e>> \in B
    /\ \A c, d, e \in S : <<c, e>> \in B => <<c, d>> \in B \/ <<d, e>> \in B

Rearranges(res, s, B) ==
    /\ DOMAIN res = DOMAIN s
    /\ \E at \in [DOMAIN s -> DOMAIN s] :
        /\ \A p \in DOMAIN s : res[p] = s[at[p]]
        /\ \A i \in DOMAIN s : \E p \in DOMAIN s : at[p] = i
        /\ \A p, r \in DOMAIN s : at[p] = at[r] => p = r
        /\ \A p, r \in DOMAIN s : p < r => <<at[r], at[p]>> \notin B

Stable(B, S) == {p \in S \X S : p \in B \/ (p[1] < p[2] /\ <<p[2], p[1]>> \notin B)}

LEMMA StableIsStrict ==
  ASSUME NEW S \in SUBSET Int, NEW B, WeakOrder(B, S)
  PROVE  StrictOrder(Stable(B, S), S)
<1>1. ASSUME NEW d \in S, NEW e \in S
      PROVE  <<d, e>> \in Stable(B, S) <=> <<d, e>> \in B \/ (d < e /\ <<e, d>> \notin B)
  <2>1. <<d, e>> \in S \X S /\ <<d, e>>[1] = d /\ <<d, e>>[2] = e
    OBVIOUS
  <2> QED
    BY <2>1 DEF Stable
<1>0. \A d \in S : d \in Int
  OBVIOUS
<1>2. ASSUME NEW d \in S
      PROVE  <<d, d>> \notin Stable(B, S)
  <2>1. <<d, d>> \notin B /\ ~(d < d)
    BY <1>0 DEF WeakOrder
  <2> QED
    BY <1>1, <2>1
<1>3. ASSUME NEW d \in S, NEW e \in S, <<d, e>> \in B, <<e, d>> \in B
      PROVE  FALSE
  BY <1>3 DEF WeakOrder
<1>4. ASSUME NEW d \in S, NEW e \in S, d # e
      PROVE  <<d, e>> \in Stable(B, S) \/ <<e, d>> \in Stable(B, S)
  <2>1. d < e \/ e < d
    BY <1>0, <1>4
  <2>2. /\ <<d, e>> \in Stable(B, S) <=> <<d, e>> \in B \/ (d < e /\ <<e, d>> \notin B)
        /\ <<e, d>> \in Stable(B, S) <=> <<e, d>> \in B \/ (e < d /\ <<d, e>> \notin B)
    BY <1>1
  <2> QED
    BY <2>1, <2>2
<1>5. ASSUME NEW c \in S, NEW d \in S, NEW e \in S,
             <<c, d>> \in Stable(B, S), <<d, e>> \in Stable(B, S)
      PROVE  <<c, e>> \in Stable(B, S)
  <2>1. CASE <<c, d>> \in B
    <3>1. <<e, d>> \notin B
      BY <1>1, <1>3, <1>5
    <3>2. <<c, e>> \in B
      BY <2>1, <3>1 DEF WeakOrder
    <3> QED
      BY <1>1, <3>2
  <2>2. CASE <<d, e>> \in B
    <3>1. <<d, c>> \notin B
      BY <1>1, <1>3, <1>5
    <3>2. <<c, e>> \in B
      BY <2>2, <3>1 DEF WeakOrder
    <3> QED
      BY <1>1, <3>2
  <2>3. CASE <<c, d>> \notin B /\ <<d, e>> \notin B
    <3>1. c < d /\ d < e /\ <<d, c>> \notin B /\ <<e, d>> \notin B
      BY <1>1, <1>5, <2>3
    <3>2. c < e
      BY <3>1
    <3>3. <<e, c>> \notin B
      BY <3>1 DEF WeakOrder
    <3> QED
      BY <1>1, <3>2, <3>3
  <2> QED
    BY <2>1, <2>2, <2>3
<1> QED
  BY <1>2, <1>4, <1>5 DEF StrictOrder

LEMMA StableSort ==
  ASSUME NEW n \in Nat, NEW s, DOMAIN s = 1..n, NEW B, WeakOrder(B, 1..n), NEW at, NEW before,
         \A e \in 1..n : before[e] = Cardinality(BelowIn(Stable(B, 1..n), 1..n, e)),
         FunctionOn(at, 1..Cardinality(1..n)),
         \A i \in 1..Cardinality(1..n) :
             (\E e \in 1..n : before[e] = i - 1) => at[i] \in 1..n /\ before[at[i]] = i - 1,
         NEW res, DOMAIN res = DOMAIN s, \A p \in DOMAIN s : res[p] = s[at[p]]
  PROVE  Rearranges(res, s, B)
<1> DEFINE R == Stable(B, 1..n)
<1>1. IsFiniteSet(1..n) /\ Cardinality(1..n) = n
  <2>1. 1 \in Int /\ n \in Int
    OBVIOUS
  <2>2. (IF 1 > n THEN 0 ELSE n - 1 + 1) = n
    OBVIOUS
  <2> QED
    BY <2>1, <2>2, FS_Interval
<1>2. StrictOrder(R, 1..n)
  <2>1. 1..n \in SUBSET Int
    OBVIOUS
  <2> QED
    BY <2>1, StableIsStrict
<1>3. \A e \in 1..n : before[e] = Cardinality(BelowIn(R, 1..n, e))
  OBVIOUS
<1> HIDE DEF R
<1>4. InOrder(at, R, 1..n)
  BY <1>1, <1>2, <1>3, ChosenInOrder
<1>5. at \in [1..n -> 1..n]
  <2>1. at \in Seq(1..n) /\ Len(at) = n
    BY <1>1, <1>4 DEF InOrder
  <2> QED
    BY <2>1, LenProperties
<1>6. /\ \A i \in 1..n : \E p \in 1..n : at[p] = i
      /\ \A p, r \in 1..n : p < r <=> <<at[p], at[r]>> \in R
  BY <1>4, <1>5 DEF InOrder
<1>7. ASSUME NEW p \in 1..n, NEW r \in 1..n, at[p] = at[r]
      PROVE  p = r
  <2>1. at[p] \in 1..n
    BY <1>5
  <2>2. <<at[p], at[r]>> \notin R /\ <<at[r], at[p]>> \notin R
    BY <1>2, <1>7, <2>1 DEF StrictOrder
  <2>3. ~(p < r) /\ ~(r < p)
    BY <1>6, <2>2
  <2> QED
    BY <2>3
<1>8. ASSUME NEW p \in 1..n, NEW r \in 1..n, p < r
      PROVE  <<at[r], at[p]>> \notin B
  <2>1. at[p] \in 1..n /\ at[r] \in 1..n
    BY <1>5
  <2>2. <<at[p], at[r]>> \in R
    BY <1>6, <1>8
  <2>3. <<at[p], at[r]>> \in B \/ <<at[r], at[p]>> \notin B
    BY <2>1, <2>2 DEF R, Stable
  <2>4. <<at[p], at[p]>> \notin B
    BY <2>1 DEF WeakOrder
  <2> QED
    BY <2>1, <2>3, <2>4 DEF WeakOrder
<1> QED
  BY <1>5, <1>6, <1>7, <1>8 DEF Rearranges

(* What a rearrangement keeps. *)
LEMMA RearrangedSeq ==
  ASSUME NEW S, NEW s \in Seq(S), NEW B, NEW res, res = [p \in DOMAIN s |-> res[p]],
         Rearranges(res, s, B)
  PROVE  /\ res \in Seq(S) /\ Len(res) = Len(s)
         /\ \A p \in DOMAIN res : \E i \in DOMAIN s : res[p] = s[i]
         /\ \A i \in DOMAIN s : \E p \in DOMAIN res : res[p] = s[i]
<1>1. Len(s) \in Nat /\ DOMAIN s = 1..Len(s) /\ s \in [1..Len(s) -> S]
  BY LenProperties
<1>2. \A p \in DOMAIN s : \E i \in DOMAIN s : res[p] = s[i]
  BY DEF Rearranges
<1>3. \A p \in DOMAIN s : res[p] \in S
  BY <1>1, <1>2
<1>4. res \in [1..Len(s) -> S]
  BY <1>1, <1>3
<1>5. res \in Seq(S) /\ Len(res) = Len(s) /\ DOMAIN res = DOMAIN s
  BY <1>1, <1>4, FunctionIsSeq
<1>6. \A i \in DOMAIN s : \E p \in DOMAIN s : res[p] = s[i]
  BY DEF Rearranges
<1> QED
  BY <1>2, <1>5, <1>6

-----------------------------------------------------------------------------
(* FoldLeft: there is a function that folds, and it goes along the sequence. *)

Folds(g, n, base, op) ==
    \A s \in SUBSET (1..n) : g[s] = IF s = {} THEN base ELSE op[<<Max(s), g[s \ {Max(s)}]>>]

LEMMA FoldExists ==
  ASSUME NEW n \in Nat, NEW Acc, NEW base \in Acc, NEW op \in [(1..n) \X Acc -> Acc]
  PROVE  \E g \in [SUBSET (1..n) -> Acc] : Folds(g, n, base, op)
<1> DEFINE G == {m \in 0..n : \E g \in [SUBSET (1..m) -> Acc] : Folds(g, m, base, op)}
<1>1. 0 \in G
  <2> DEFINE g == [s \in SUBSET (1..0) |-> base]
  <2>1. \A s \in SUBSET (1..0) : s = {}
    <3>1. 1..0 = {}
      OBVIOUS
    <3> QED
      BY <3>1
  <2>2. g \in [SUBSET (1..0) -> Acc] /\ Folds(g, 0, base, op)
    BY <2>1 DEF Folds
  <2> QED
    BY <2>2
<1>2. ASSUME NEW i \in 1..n, i - 1 \in G
      PROVE  i \in G
  <2>1. PICK g \in [SUBSET (1..(i - 1)) -> Acc] : Folds(g, i - 1, base, op)
    BY <1>2
  <2> DEFINE Low == SUBSET (1..(i - 1))
             h == [s \in SUBSET (1..i) |-> IF s \in Low THEN g[s] ELSE op[<<i, g[s \ {i}]>>]]
  <2>2. ASSUME NEW s \in SUBSET (1..i), s \notin Low
        PROVE  s # {} /\ Max(s) = i /\ s \ {i} \in Low
    <3>1. i \in s
      <4>1. \A x \in s : x \in 1..i
        OBVIOUS
      <4>2. i \notin s => \A x \in s : x \in 1..(i - 1)
        BY <4>1
      <4> QED
        BY <2>2, <4>2
    <3>2. Max(s) \in s /\ \A x \in s : x <= Max(s)
      <4>1. i \in Nat
        OBVIOUS
      <4> QED
        BY <3>1, <4>1, GreatestOf
    <3>3. Max(s) = i
      <4>1. Max(s) \in 1..i /\ i <= Max(s)
        BY <3>1, <3>2
      <4> QED
        BY <4>1
    <3>4. \A x \in s \ {i} : x \in 1..(i - 1)
      OBVIOUS
    <3> QED
      BY <3>1, <3>3, <3>4
  <2>3. ASSUME NEW s \in Low, s # {}
        PROVE  Max(s) \in s /\ s \ {Max(s)} \in Low
    <3>1. i - 1 \in Nat
      OBVIOUS
    <3> QED
      BY <2>3, <3>1, GreatestOf
  <2>4. \A s \in SUBSET (1..i) : h[s] \in Acc
    <3>1. \A s \in Low : g[s] \in Acc
      OBVIOUS
    <3>2. i \in 1..n /\ \A a \in Acc : op[<<i, a>>] \in Acc
      OBVIOUS
    <3> HIDE DEF Low
    <3> QED
      BY <2>2, <3>1, <3>2
  <2>5. h \in [SUBSET (1..i) -> Acc]
    BY <2>4
  <2>6. \A s \in Low : s \in SUBSET (1..i)
    OBVIOUS
  <2>7. ASSUME NEW s \in SUBSET (1..i)
        PROVE  h[s] = IF s = {} THEN base ELSE op[<<Max(s), h[s \ {Max(s)}]>>]
    <3>1. CASE s \in Low
      <4>1. h[s] = g[s]
        BY <3>1
      <4>2. g[s] = IF s = {} THEN base ELSE op[<<Max(s), g[s \ {Max(s)}]>>]
        BY <2>1, <3>1 DEF Folds
      <4>3. s # {} => h[s \ {Max(s)}] = g[s \ {Max(s)}]
        BY <2>3, <2>6, <3>1
      <4> HIDE DEF h
      <4> QED
        BY <4>1, <4>2, <4>3
    <3>2. CASE s \notin Low
      <4>1. s # {} /\ Max(s) = i /\ s \ {i} \in Low
        BY <2>2, <3>2
      <4>2. h[s] = op[<<i, g[s \ {i}]>>]
        BY <3>2
      <4>3. h[s \ {i}] = g[s \ {i}]
        BY <2>6, <4>1
      <4> HIDE DEF h
      <4> QED
        BY <4>1, <4>2, <4>3
    <3> QED
      BY <3>1, <3>2
  <2> HIDE DEF h
  <2>8. Folds(h, i, base, op)
    BY <2>7 DEF Folds
  <2> QED
    BY <2>5, <2>8
<1> HIDE DEF G
<1>3. n \in G
  <2>1. 0..n \subseteq G
    BY <1>1, <1>2, Reached
  <2> QED
    BY <2>1
<1> QED
  BY <1>3 DEF G

LEMMA SumRuns ==
  ASSUME NEW n \in Nat, NEW s \in [1..n -> Int]
  PROVE  \E a \in [0..n -> Int] :
            a[0] = 0 /\ Sum(s) = a[n] /\ \A i \in 1..n : a[i] = a[i - 1] + s[i]
<1> DEFINE op == [p \in (1..n) \X Int |-> p[2] + s[p[1]]]
           F(g) == [S \in SUBSET (1..n) |-> IF S = {} THEN 0 ELSE g[S \ {Max(S)}] + s[Max(S)]]
           iter == CHOOSE g : g = F(g)
           a == [i \in 0..n |-> iter[1..i]]
<1>1. Sum(s) = iter[1..n]
  BY DEF Sum, FoldLeft, MapThenFoldSet
<1>2. op \in [(1..n) \X Int -> Int]
  OBVIOUS
<1>3. PICK g \in [SUBSET (1..n) -> Int] : Folds(g, n, 0, op)
  <2>1. 0 \in Int
    OBVIOUS
  <2> HIDE DEF op
  <2> QED
    BY <1>2, <2>1, FoldExists, Zenon
<1>4. ASSUME NEW S \in SUBSET (1..n), S # {}
      PROVE  op[<<Max(S), g[S \ {Max(S)}]>>] = g[S \ {Max(S)}] + s[Max(S)]
  <2>1. Max(S) \in 1..n /\ S \ {Max(S)} \in SUBSET (1..n)
    BY <1>4, GreatestOf
  <2> QED
    BY <2>1
<1> HIDE DEF op
<1>5. g = F(g)
  BY <1>3, <1>4 DEF Folds
<1>6. iter = F(iter)
  <2> HIDE DEF F
  <2> QED
    BY <1>5
<1> HIDE DEF iter
<1>7. a[0] = 0
  <2>1. 1..0 = {} /\ 0 \in 0..n
    OBVIOUS
  <2> QED
    BY <1>6, <2>1
<1>8. ASSUME NEW i \in 1..n
      PROVE  a[i] = a[i - 1] + s[i]
  <2>1. 1..i \in SUBSET (1..n) /\ 1..i # {} /\ Max(1..i) = i /\ (1..i) \ {i} = 1..(i - 1)
    BY UpTo
  <2>3. \A S \in SUBSET (1..n) : S # {} => iter[S] = iter[S \ {Max(S)}] + s[Max(S)]
    BY <1>6
  <2>4. iter[1..i] = iter[1..(i - 1)] + s[i]
    BY <2>1, <2>3
  <2>2. i \in 0..n /\ i - 1 \in 0..n
    OBVIOUS
  <2> QED
    BY <2>2, <2>4
<1>9. n \in 0..n /\ a[n] = iter[1..n]
  OBVIOUS
<1>10. a = [i \in 0..n |-> a[i]]
  OBVIOUS
<1> HIDE DEF a
<1>11. \A i \in 0..n : a[i] \in Int
  <2> DEFINE G == {i \in 0..n : a[i] \in Int}
  <2>1. 0 \in G
    BY <1>7
  <2>2. ASSUME NEW i \in 1..n, i - 1 \in G
        PROVE  i \in G
    <3>1. i \in 0..n /\ s[i] \in Int /\ a[i - 1] \in Int
      BY <2>2
    <3> QED
      BY <1>8, <3>1
  <2> HIDE DEF G
  <2>3. 0..n \subseteq G
    BY <2>1, <2>2, Reached
  <2> QED
    BY <2>3 DEF G
<1>12. a \in [0..n -> Int]
  BY <1>10, <1>11
<1> QED
  BY <1>1, <1>7, <1>8, <1>9, <1>12

LEMMA SumIsInt ==
  ASSUME NEW n \in Nat, NEW s \in [1..n -> Int]
  PROVE  Sum(s) \in Int
<1>1. PICK a \in [0..n -> Int] :
            a[0] = 0 /\ Sum(s) = a[n] /\ \A i \in 1..n : a[i] = a[i - 1] + s[i]
  BY SumRuns
<1>2. n \in 0..n
  OBVIOUS
<1> QED
  BY <1>1, <1>2

LEMMA SumOfOneMore ==
  ASSUME NEW n \in Nat, NEW s \in [1..n -> Int], NEW t \in [1..(n + 1) -> Int],
         \A i \in 1..n : t[i] = s[i]
  PROVE  Sum(t) = Sum(s) + t[n + 1]
<1>1. PICK a \in [0..n -> Int] :
            a[0] = 0 /\ Sum(s) = a[n] /\ \A i \in 1..n : a[i] = a[i - 1] + s[i]
  BY SumRuns
<1>2. n + 1 \in Nat
  OBVIOUS
<1>3. PICK b \in [0..(n + 1) -> Int] :
            b[0] = 0 /\ Sum(t) = b[n + 1] /\ \A i \in 1..(n + 1) : b[i] = b[i - 1] + t[i]
  BY <1>2, SumRuns
<1> DEFINE G == {i \in 0..n : a[i] = b[i]}
<1>4. 0 \in G
  BY <1>1, <1>3
<1>5. ASSUME NEW i \in 1..n, i - 1 \in G
      PROVE  i \in G
  <2>1. i \in 1..(n + 1) /\ i \in 0..n
    OBVIOUS
  <2>2. a[i] = a[i - 1] + s[i] /\ b[i] = b[i - 1] + t[i] /\ a[i - 1] = b[i - 1] /\ t[i] = s[i]
    BY <1>1, <1>3, <1>5, <2>1
  <2> QED
    BY <2>1, <2>2
<1> HIDE DEF G
<1>6. 0..n \subseteq G
  BY <1>4, <1>5, Reached
<1>7. a[n] = b[n]
  BY <1>6 DEF G
<1>8. b[n + 1] = b[(n + 1) - 1] + t[n + 1]
  <2>1. n + 1 \in 1..(n + 1)
    OBVIOUS
  <2> QED
    BY <1>3, <2>1
<1>9. (n + 1) - 1 = n
  OBVIOUS
<1> QED
  BY <1>1, <1>3, <1>7, <1>8, <1>9

(* A function that goes along a sequence. *)
Run(a, n, Acc, base, op) ==
    a \in [0..n -> Acc] /\ a[0] = base /\ \A i \in 1..n : a[i] = op[<<i, a[i - 1]>>]

LEMMA RunExists ==
  ASSUME NEW n \in Nat, NEW Acc, NEW base \in Acc, NEW op \in [(1..n) \X Acc -> Acc]
  PROVE  \E a : Run(a, n, Acc, base, op)
<1>1. PICK g \in [SUBSET (1..n) -> Acc] : Folds(g, n, base, op)
  BY FoldExists
<1> DEFINE a == [i \in 0..n |-> g[1..i]]
<1>2. \A i \in 0..n : 1..i \in SUBSET (1..n)
  OBVIOUS
<1>3. a \in [0..n -> Acc]
  BY <1>2
<1>4. a[0] = base
  <2>1. 1..0 = {} /\ 0 \in 0..n
    OBVIOUS
  <2> QED
    BY <1>1, <2>1 DEF Folds
<1>5. ASSUME NEW i \in 1..n
      PROVE  a[i] = op[<<i, a[i - 1]>>]
  <2>1. 1..i \in SUBSET (1..n) /\ 1..i # {} /\ Max(1..i) = i /\ (1..i) \ {i} = 1..(i - 1)
    BY UpTo
  <2>2. g[1..i] = op[<<Max(1..i), g[(1..i) \ {Max(1..i)}]>>]
    BY <1>1, <2>1 DEF Folds
  <2>3. i \in 0..n /\ i - 1 \in 0..n
    OBVIOUS
  <2> QED
    BY <2>1, <2>2, <2>3
<1> HIDE DEF a
<1> QED
  BY <1>3, <1>4, <1>5 DEF Run

LEMMA FlattenIsSeq ==
  ASSUME NEW S, NEW seqs \in Seq(Seq(S))
  PROVE  FlattenSeq(seqs) \in Seq(S)
<1> DEFINE n == Len(seqs)
           F(g) == [i \in 1..n |-> IF i = 1 THEN seqs[i] ELSE g[i - 1] \o seqs[i]]
           flat == CHOOSE g : g = F(g)
           op == [p \in (1..n) \X Seq(S) |-> p[2] \o seqs[p[1]]]
<1>1. n \in Nat /\ seqs \in [1..n -> Seq(S)] /\ DOMAIN seqs = 1..n
  BY LenProperties
<1>2. FlattenSeq(seqs) = IF n = 0 THEN seqs ELSE flat[n]
  BY DEF FlattenSeq
<1> HIDE DEF n
<1>3. CASE n = 0
  <2>1. FlattenSeq(seqs) = seqs
    BY <1>2, <1>3
  <2>2. seqs \in [1..0 -> S]
    <3>1. 1..0 = {}
      OBVIOUS
    <3> QED
      BY <1>1, <1>3, <3>1
  <2> QED
    BY <2>1, <2>2, FunctionIsSeq
<1>4. CASE n # 0
  <2>1. op \in [(1..n) \X Seq(S) -> Seq(S)]
    BY <1>1
  <2>2. PICK a \in [0..n -> Seq(S)] : a[0] = <<>> /\ \A i \in 1..n : a[i] = op[<<i, a[i - 1]>>]
    <3>1. <<>> \in Seq(S)
      BY EmptySeq
    <3> HIDE DEF op
    <3>2. \E a : Run(a, n, Seq(S), <<>>, op)
      BY <1>1, <2>1, <3>1, RunExists
    <3> QED
      BY <3>2 DEF Run
  <2>3. ASSUME NEW i \in 1..n
        PROVE  a[i - 1] \in Seq(S) /\ a[i] = a[i - 1] \o seqs[i]
    <3>1. i - 1 \in 0..n
      BY <1>1
    <3> QED
      BY <2>2, <3>1
  <2> DEFINE g == [i \in 1..n |-> a[i]]
  <2> HIDE DEF op
  <2>4. ASSUME NEW i \in 1..n
        PROVE  g[i] = IF i = 1 THEN seqs[i] ELSE g[i - 1] \o seqs[i]
    <3>1. CASE i = 1
      <4>0. i - 1 = 0
        BY <3>1
      <4>1. a[i] = <<>> \o seqs[i] /\ seqs[i] \in Seq(S)
        BY <1>1, <2>2, <2>3, <4>0
      <4>2. <<>> \o seqs[i] = seqs[i]
        BY <4>1, ConcatEmptySeq
      <4> QED
        BY <3>1, <4>1, <4>2
    <3>2. CASE i # 1
      <4>1. i - 1 \in 1..n
        BY <1>1, <3>2
      <4> QED
        BY <2>3, <3>2, <4>1
    <3> QED
      BY <3>1, <3>2
  <2>5. g = F(g)
    BY <2>4
  <2>6. flat = F(flat)
    <3> HIDE DEF F, g
    <3> QED
      BY <2>5
  <2> HIDE DEF flat, g
  <2> DEFINE G == {i \in 0..n : i = 0 \/ flat[i] \in Seq(S)}
  <2>7. 0 \in G
    BY <1>1
  <2>8. ASSUME NEW i \in 1..n, i - 1 \in G
        PROVE  i \in G
    <3>1. seqs[i] \in Seq(S) /\ i \in 0..n
      BY <1>1
    <3>2. CASE i = 1
      BY <2>6, <3>1, <3>2
    <3>3. CASE i # 1
      <4>1. flat[i - 1] \in Seq(S)
        BY <2>8, <3>3
      <4>2. flat[i] = flat[i - 1] \o seqs[i]
        BY <2>6, <3>3
      <4>3. flat[i - 1] \o seqs[i] \in Seq(S)
        BY <3>1, <4>1, ConcatProperties
      <4> QED
        BY <3>1, <4>2, <4>3
    <3> QED
      BY <3>2, <3>3
  <2> HIDE DEF G
  <2>9. 0..n \subseteq G
    BY <1>1, <2>7, <2>8, Reached
  <2>10. n \in G
    BY <1>1, <2>9
  <2> QED
    BY <1>2, <1>4, <2>10 DEF G
<1> QED
  BY <1>3, <1>4

-----------------------------------------------------------------------------
(* The inductive invariant. *)

\* A hit has the language of its symbol, or that of the keyword index: none.
Hits == {h \in [id : Ids, score : Int, lang : {""} \cup {Sym[id].lang : id \in Ids}] :
            h.lang \in {"", Sym[h.id].lang}}

OncePerId(hits) == \A i, j \in DOMAIN hits : hits[i].id = hits[j].id => i = j
Descending(hits) == \A i \in 1..(Len(hits) - 1) : hits[i].score >= hits[i + 1].score

\* Lists of hits, each of a symbol of P and no symbol twice.
ListsOf(P) == {s \in Seq(Hits) : OncePerId(s) /\ \A i \in DOMAIN s : s[i].id \in P}

Passes(r, id) ==
    LET controls == ParseQueryControls(r.query).controls
    IN  /\ r.exported => Sym[id].exported
        /\ controls["lang"] \in {None, Sym[id].lang}
        /\ KindMatches(id, controls["kind"])
        /\ PathMatches(id, controls["path"]) /\ PathMatches(id, controls["file"])

Passing(r) == {id \in Ids : Passes(r, id)}
Linked(r) == {id \in Ids : \E e \in Edges : id \in {e.from, e.to}
                                /\ \E other \in {e.from, e.to} \ {id} : other \in Passing(r)}

\* Of the symbols of an answer the expanded ones are linked to one that passes,
\* the others pass.
AnswerIds(r, expanded) == (Linked(r) \cap expanded) \cup (Passing(r) \ expanded)

InBudget(items) ==
    LET Role(r) == {i \in DOMAIN items : items[i].role = r}
    IN  /\ Distinct([i \in DOMAIN items |-> items[i].key])
        /\ items # <<>> => Tokens(Front(items)) <= MaxTokens
        /\ \A r \in {"root", "extra", "expanded"} :
              Cardinality(Role(r)) > 1 => RoleTokens(items, r) <= Cap(r)
        /\ \A i \in DOMAIN items :
              Cardinality({j \in 1..(i - 1) : items[j].group = items[i].group})
                < (IF items[i].role = "root" THEN 2 ELSE 1)

AnswerOK(r, a) ==
    /\ a.hits \in Seq(Hits)
    /\ Len(a.hits) <= r.limit /\ OncePerId(a.hits) /\ Descending(a.hits)
    /\ IF a.path = "ranked" THEN a.hits \in ListsOf(AnswerIds(r, a.expanded))
       ELSE \A i \in DOMAIN a.hits : r.exported => Sym[a.hits[i].id].exported
    /\ InBudget(a.items)

\* Of max better ones of its group that are chosen, as Crowded.
FullIn(all, chosen, group, max, i) ==
    /\ group[all[i].id] # None
    /\ Cardinality({k \in 1..(i - 1) : /\ all[k].id \in chosen
                                      /\ group[all[k].id] = group[all[i].id]}) >= max

\* The ones not full go first, each kind in the order of the list.
Preferred(all, chosen, group, max) ==
    \A i, j \in DOMAIN all :
        all[i].id \notin chosen /\ all[j].id \in chosen =>
            \/ FullIn(all, chosen, group, max, i) /\ ~FullIn(all, chosen, group, max, j)
            \/ /\ FullIn(all, chosen, group, max, i) <=> FullIn(all, chosen, group, max, j)
               /\ j < i

ChosenFrom(limit, all, hits, group) ==
    Len(hits) = Least(limit, Len(all)) /\ Preferred(all, IdsOf(hits), group, 2)

StoresOK ==
    /\ rows \in SUBSET Ids /\ docs \in SUBSET Ids /\ vecs \in SUBSET Ids
    /\ searches \in 0..MaxSearches
    /\ \A r \in DOMAIN responses : r \in Requests /\ AnswerOK(r, responses[r])
    /\ \A k \in DOMAIN contexts : InBudget(contexts[k])

Fields == {"pc", "request", "sub", "keyword", "vector", "hits", "expanded", "answer"}

SearchOK ==
    /\ DOMAIN search = Fields
    /\ search.pc \in Labels
    /\ search.request \in Requests \cup {None}
    /\ search.pc # "idle" => search.request \in Requests
    /\ search.keyword \in Seq(Hits) /\ search.vector \in Seq(Hits)
    /\ search.hits \in Seq(Hits)
    /\ search.pc # "answered" => search.answer = NoAnswer

\* From Understand on there is something to search for.
Understood == {"callers", "retrieve", "vectors", "fuse", "boost", "rerank", "diversify", "expand", "assemble"}

StageOK ==
    /\ search.pc \in Understood => SubQueries # <<>>
    /\ At("callers") \/ At("retrieve") \/ At("vectors") => search.sub \in DOMAIN SubQueries
    /\ At("boost") \/ At("rerank") \/ At("diversify") \/ At("expand") => search.hits \in ListsOf(Passing(Request))
    /\ At("assemble") => /\ search.hits \in ListsOf(AnswerIds(Request, search.expanded))
                         /\ Len(search.hits) <= Request.limit /\ Descending(search.hits)
    /\ At("answered") => AnswerOK(Request, search.answer)

Inv == StoresOK /\ SearchOK /\ StageOK

-----------------------------------------------------------------------------
(* Lists of hits. *)

LEMMA SeqFacts ==
  ASSUME NEW S, NEW s \in Seq(S)
  PROVE  /\ Len(s) \in Nat /\ DOMAIN s = 1..Len(s) /\ s \in [1..Len(s) -> S]
         /\ \A i \in DOMAIN s : s[i] \in S
         /\ s # <<>> <=> Len(s) > 0
<1>1. Len(s) \in Nat /\ DOMAIN s = 1..Len(s) /\ s \in [1..Len(s) -> S]
  BY LenProperties
<1>2. s = <<>> <=> Len(s) = 0
  <2>1. s # <<>> => Len(s) \in Nat \ {0}
    BY EmptySeq
  <2>2. Len(<<>>) = 0
    BY EmptySeq
  <2> QED
    BY <2>1, <2>2
<1> QED
  BY <1>1, <1>2

LEMMA TruncateSeq ==
  ASSUME NEW S, NEW s \in Seq(S), NEW n \in Nat
  PROVE  /\ Truncate(s, n) \in Seq(S) /\ Len(Truncate(s, n)) = Least(n, Len(s))
         /\ DOMAIN Truncate(s, n) = 1..Least(n, Len(s))
         /\ \A i \in DOMAIN Truncate(s, n) : i \in DOMAIN s /\ Truncate(s, n)[i] = s[i]
<1> DEFINE m == IF n < Len(s) THEN n ELSE Len(s)
<1>1. Len(s) \in Nat /\ DOMAIN s = 1..Len(s) /\ \A i \in DOMAIN s : s[i] \in S
  BY SeqFacts
<1>2. m \in Nat /\ m = Least(n, Len(s)) /\ \A i \in 1..m : i \in DOMAIN s /\ s[i] \in S
  BY <1>1 DEF Least
<1>3. Truncate(s, n) = SubSeq(s, 1, m)
  BY DEF Truncate
<1> HIDE DEF m
<1>4. /\ SubSeq(s, 1, m) \in Seq(S)
      /\ Len(SubSeq(s, 1, m)) = (IF 1 <= m THEN m - 1 + 1 ELSE 0)
      /\ \A i \in 1..(m - 1 + 1) : SubSeq(s, 1, m)[i] = s[1 + i - 1]
  <2>1. 1 \in Int /\ m \in Int
    BY <1>2
  <2> QED
    BY <1>2, <2>1, SubSeqProperties
<1>5. Len(SubSeq(s, 1, m)) = m /\ m - 1 + 1 = m
  BY <1>2, <1>4
<1>6. DOMAIN SubSeq(s, 1, m) = 1..m
  BY <1>4, <1>5, LenProperties
<1>7. \A i \in 1..m : SubSeq(s, 1, m)[i] = s[i]
  BY <1>2, <1>4, <1>5
<1> QED
  BY <1>2, <1>3, <1>4, <1>5, <1>6, <1>7

LEMMA ListFacts ==
  ASSUME NEW P, NEW s \in ListsOf(P)
  PROVE  /\ s \in Seq(Hits) /\ OncePerId(s) /\ Len(s) \in Nat /\ DOMAIN s = 1..Len(s)
         /\ \A i \in DOMAIN s : s[i] \in Hits /\ s[i].id \in P
<1>1. s \in Seq(Hits)
  BY DEF ListsOf
<1> QED
  BY <1>1, SeqFacts DEF ListsOf

(* Each element of t is one of s and none of s comes twice. *)
LEMMA PartOfList ==
  ASSUME NEW P, NEW s \in ListsOf(P), NEW t \in Seq(Hits), NEW at \in [DOMAIN t -> DOMAIN s],
         \A k \in DOMAIN t : t[k] = s[at[k]],
         \A j, k \in DOMAIN t : at[j] = at[k] => j = k
  PROVE  t \in ListsOf(P)
<1>1. \A k \in DOMAIN t : at[k] \in DOMAIN s /\ t[k].id \in P
  BY ListFacts
<1>2. ASSUME NEW j \in DOMAIN t, NEW k \in DOMAIN t, t[j].id = t[k].id
      PROVE  j = k
  <2>1. s[at[j]].id = s[at[k]].id
    BY <1>2
  <2>2. at[j] = at[k]
    BY <1>1, <2>1, ListFacts DEF OncePerId
  <2> QED
    BY <2>2
<1> QED
  BY <1>1, <1>2 DEF ListsOf, OncePerId

LEMMA TruncateList ==
  ASSUME NEW P, NEW s \in ListsOf(P), NEW n \in Nat
  PROVE  Truncate(s, n) \in ListsOf(P)
<1> DEFINE t == Truncate(s, n)
<1>1. s \in Seq(Hits)
  BY ListFacts
<1>2. t \in Seq(Hits) /\ \A i \in DOMAIN t : i \in DOMAIN s /\ t[i] = s[i]
  BY <1>1, TruncateSeq
<1> HIDE DEF t
<1>3. \A i, j \in DOMAIN t : t[i].id = t[j].id => i = j
  BY <1>2, ListFacts DEF OncePerId
<1>4. \A i \in DOMAIN t : t[i].id \in P
  BY <1>2, ListFacts
<1> QED
  BY <1>2, <1>3, <1>4 DEF t, ListsOf, OncePerId

(* The hits of a list that pass a test. *)
LEMMA TakenList ==
  ASSUME NEW P, NEW s \in ListsOf(P), NEW K \in SUBSET DOMAIN s, NEW Q,
         \A i \in K : s[i].id \in Q
  PROVE  Taken(s, K) \in ListsOf(Q)
<1> DEFINE t == Taken(s, K)
<1>1. s \in Seq(Hits)
  BY ListFacts
<1>2. t \in Seq(Hits) /\ Picks(t, s, K)
  BY <1>1, TakenPicks
<1> HIDE DEF t
<1>3. PICK at \in [DOMAIN t -> K] :
        /\ \A k \in DOMAIN t : t[k] = s[at[k]]
        /\ \A j, k \in DOMAIN t : j < k <=> at[j] < at[k]
  BY <1>2 DEF Picks
<1>4. DOMAIN t = 1..Len(t) /\ Len(t) \in Nat /\ DOMAIN s = 1..Len(s) /\ Len(s) \in Nat
  BY <1>1, <1>2, SeqFacts
<1>5. ASSUME NEW j \in DOMAIN t, NEW k \in DOMAIN t, t[j].id = t[k].id
      PROVE  j = k
  <2>1. at[j] \in DOMAIN s /\ at[k] \in DOMAIN s
    OBVIOUS
  <2>2. at[j] = at[k]
    BY <1>3, <1>5, <2>1, ListFacts DEF OncePerId
  <2>3. ~(j < k) /\ ~(k < j)
    BY <1>3, <1>4, <2>1, <2>2
  <2> QED
    BY <1>4, <2>3
<1>6. \A k \in DOMAIN t : t[k].id \in Q
  BY <1>3
<1> QED
  BY <1>2, <1>5, <1>6 DEF t, ListsOf, OncePerId

LEMMA RearrangedList ==
  ASSUME NEW P, NEW s \in ListsOf(P), NEW B, NEW res, res = [p \in DOMAIN s |-> res[p]],
         Rearranges(res, s, B)
  PROVE  res \in ListsOf(P)
<1>1. s \in Seq(Hits)
  BY ListFacts
<1>2. res \in Seq(Hits) /\ DOMAIN res = DOMAIN s
  BY <1>1, RearrangedSeq
<1>3. PICK at \in [DOMAIN s -> DOMAIN s] :
        /\ \A p \in DOMAIN s : res[p] = s[at[p]]
        /\ \A p, r \in DOMAIN s : at[p] = at[r] => p = r
  BY DEF Rearranges
<1> QED
  BY <1>2, <1>3, PartOfList

LEMMA IdsAreNumbers == Ids \subseteq Int /\ IsFiniteSet(Ids) /\ Ids = SymbolIds
BY RankingAssumption, Zenon DEF Ids, SymbolIds

LEMMA HitFacts ==
  ASSUME NEW h \in Hits
  PROVE  h.id \in Ids /\ h.id \in Int /\ h.score \in Int /\ h.lang \in {"", Sym[h.id].lang}
<1>1. h.id \in Ids /\ h.score \in Int /\ h.lang \in {"", Sym[h.id].lang}
  BY DEF Hits
<1> QED
  BY <1>1, IdsAreNumbers

LEMMA HitIsHit ==
  ASSUME NEW id \in Ids, NEW score \in Int, NEW lang \in {"", Sym[id].lang}
  PROVE  /\ Hit(id, score, lang) \in Hits
         /\ Hit(id, score, lang).id = id /\ Hit(id, score, lang).score = score
BY DEF Hit, Hits

LEMMA MadeHit ==
  ASSUME NEW h, NEW id, NEW score, NEW lang, h = Hit(id, score, lang),
         id \in Ids, score \in Int, lang \in {"", Sym[id].lang}
  PROVE  h \in Hits /\ h.id = id
BY HitIsHit

(* A list in the order of the numbers before. *)
Arranged(s, before) ==
    LET at == [i \in 1..Cardinality(DOMAIN s) |-> CHOOSE e \in DOMAIN s : before[e] = i - 1]
    IN  [p \in DOMAIN s |-> s[at[p]]]

LEMMA Arranging ==
  ASSUME NEW n \in Nat, NEW s, DOMAIN s = 1..n, NEW B, WeakOrder(B, 1..n), NEW before,
         \A e \in 1..n : before[e] = Cardinality(BelowIn(Stable(B, 1..n), 1..n, e))
  PROVE  /\ Rearranges(Arranged(s, before), s, B)
         /\ Arranged(s, before) = [p \in DOMAIN s |-> Arranged(s, before)[p]]
<1> DEFINE at == [i \in 1..Cardinality(1..n) |-> CHOOSE e \in 1..n : before[e] = i - 1]
           res == Arranged(s, before)
<1>1. res = [p \in DOMAIN s |-> s[at[p]]]
  BY DEF Arranged
<1>2. /\ FunctionOn(at, 1..Cardinality(1..n))
      /\ \A i \in 1..Cardinality(1..n) :
             (\E e \in 1..n : before[e] = i - 1) => at[i] \in 1..n /\ before[at[i]] = i - 1
  BY DEF FunctionOn
<1>3. DOMAIN res = DOMAIN s /\ \A p \in DOMAIN s : res[p] = s[at[p]]
  BY <1>1
<1> HIDE DEF at, res
<1>4. Rearranges(res, s, B)
  BY <1>2, <1>3, StableSort, Z3T(30)
<1>5. res = [p \in DOMAIN s |-> res[p]]
  BY <1>1
<1> QED
  BY <1>4, <1>5 DEF res

(* The sorts of the program, each of them stable. *)
LEMMA SortedByMatch ==
  ASSUME NEW s \in Seq(Hits)
  PROVE  \E B : /\ \A i, j \in DOMAIN s : <<i, j>> \in B <=> s[i].score > s[j].score
               /\ Rearranges(SortHits(s, Higher), s, B)
               /\ SortHits(s, Higher) = [p \in DOMAIN s |-> SortHits(s, Higher)[p]]
<1> DEFINE n == Len(s)
           Better(d, e) == s[d].score > s[e].score
           B == {p \in (1..n) \X (1..n) : Better(p[1], p[2])}
           before == [e \in 1..n |-> Cardinality({d \in 1..n : Better(d, e) \/ (d < e /\ ~Better(e, d))})]
<1>1. n \in Nat /\ DOMAIN s = 1..n /\ \A i \in 1..n : s[i] \in Hits
  BY SeqFacts
<1>2. SortHits(s, Higher) = Arranged(s, before)
  BY <1>1 DEF Higher, SortHits, Sorted, Arranged
<1> HIDE DEF n
<1>3. \A d, e \in 1..n : <<d, e>> \in B <=> Better(d, e)
  OBVIOUS
<1>4. WeakOrder(B, 1..n)
  <2>1. \A d \in 1..n : s[d].score \in Int
    BY <1>1, HitFacts
  <2>2. \A d \in 1..n : ~Better(d, d)
    BY <2>1
  <2>3. ASSUME NEW c \in 1..n, NEW d \in 1..n, NEW e \in 1..n
        PROVE  /\ Better(c, d) /\ Better(d, e) => Better(c, e)
               /\ Better(c, e) => Better(c, d) \/ Better(d, e)
    BY <2>1
  <2> HIDE DEF B, Better
  <2> QED
    BY <1>3, <2>2, <2>3 DEF WeakOrder
<1>5. ASSUME NEW e \in 1..n
      PROVE  before[e] = Cardinality(BelowIn(Stable(B, 1..n), 1..n, e))
  <2> HIDE DEF Better
  <2>1. BelowIn(Stable(B, 1..n), 1..n, e) = {d \in 1..n : Better(d, e) \/ (d < e /\ ~Better(e, d))}
    BY <1>3 DEF BelowIn, Stable
  <2> HIDE DEF B
  <2> QED
    BY <2>1
<1> HIDE DEF B, before, Better
<1>6. Rearranges(Arranged(s, before), s, B) /\ Arranged(s, before) = [p \in DOMAIN s |-> Arranged(s, before)[p]]
  BY <1>1, <1>4, <1>5, Arranging
<1>7. \A i, j \in DOMAIN s : <<i, j>> \in B <=> s[i].score > s[j].score
  BY <1>1, <1>3 DEF Better
<1> QED
  BY <1>2, <1>6, <1>7

LEMMA SortedByRank ==
  ASSUME NEW s \in Seq(Hits), NEW rank \in [Ids -> Int]
  PROVE  \E B : /\ \A i, j \in DOMAIN s : <<i, j>> \in B <=> rank[s[i].id] > rank[s[j].id]
               /\ Rearranges(GraphRankedHits(s, rank), s, B)
               /\ GraphRankedHits(s, rank) = [p \in DOMAIN s |-> GraphRankedHits(s, rank)[p]]
<1> DEFINE n == Len(s)
           Better(d, e) == rank[s[d].id] > rank[s[e].id]
           B == {p \in (1..n) \X (1..n) : Better(p[1], p[2])}
           before == [e \in 1..n |-> Cardinality({d \in 1..n : Better(d, e) \/ (d < e /\ ~Better(e, d))})]
<1>1. n \in Nat /\ DOMAIN s = 1..n /\ \A i \in 1..n : s[i] \in Hits
  BY SeqFacts
<1>2. GraphRankedHits(s, rank) = Arranged(s, before)
  BY <1>1 DEF GraphRankedHits, SortHits, Sorted, Arranged
<1> HIDE DEF n
<1>3. \A d, e \in 1..n : <<d, e>> \in B <=> Better(d, e)
  OBVIOUS
<1>4. WeakOrder(B, 1..n)
  <2>1. \A d \in 1..n : rank[s[d].id] \in Int
    BY <1>1, HitFacts
  <2>2. \A d \in 1..n : ~Better(d, d)
    BY <2>1
  <2>3. ASSUME NEW c \in 1..n, NEW d \in 1..n, NEW e \in 1..n
        PROVE  /\ Better(c, d) /\ Better(d, e) => Better(c, e)
               /\ Better(c, e) => Better(c, d) \/ Better(d, e)
    BY <2>1
  <2> HIDE DEF B, Better
  <2> QED
    BY <1>3, <2>2, <2>3 DEF WeakOrder
<1>5. ASSUME NEW e \in 1..n
      PROVE  before[e] = Cardinality(BelowIn(Stable(B, 1..n), 1..n, e))
  <2> HIDE DEF Better
  <2>1. BelowIn(Stable(B, 1..n), 1..n, e) = {d \in 1..n : Better(d, e) \/ (d < e /\ ~Better(e, d))}
    BY <1>3 DEF BelowIn, Stable
  <2> HIDE DEF B
  <2> QED
    BY <2>1
<1> HIDE DEF B, before, Better
<1>6. Rearranges(Arranged(s, before), s, B) /\ Arranged(s, before) = [p \in DOMAIN s |-> Arranged(s, before)[p]]
  BY <1>1, <1>4, <1>5, Arranging
<1>7. \A i, j \in DOMAIN s : <<i, j>> \in B <=> rank[s[i].id] > rank[s[j].id]
  BY <1>1, <1>3 DEF Better
<1> QED
  BY <1>2, <1>6, <1>7


LEMMA SortedByScore ==
  ASSUME NEW s \in Seq(Hits)
  PROVE  \E B : /\ \A i, j \in DOMAIN s : <<i, j>> \in B <=> ByScore(s[i], s[j])
               /\ Rearranges(SortHits(s, ByScore), s, B)
               /\ SortHits(s, ByScore) = [p \in DOMAIN s |-> SortHits(s, ByScore)[p]]
<1> DEFINE n == Len(s)
           Better(d, e) == ByScore(s[d], s[e])
           B == {p \in (1..n) \X (1..n) : Better(p[1], p[2])}
           before == [e \in 1..n |-> Cardinality({d \in 1..n : Better(d, e) \/ (d < e /\ ~Better(e, d))})]
<1>1. n \in Nat /\ DOMAIN s = 1..n /\ \A i \in 1..n : s[i] \in Hits
  BY SeqFacts
<1>2. SortHits(s, ByScore) = Arranged(s, before)
  BY <1>1 DEF SortHits, Sorted, Arranged
<1> HIDE DEF n
<1>3. \A d, e \in 1..n : <<d, e>> \in B <=> Better(d, e)
  OBVIOUS
<1>4. WeakOrder(B, 1..n)
  <2>1. \A d \in 1..n : s[d].score \in Int
    BY <1>1, HitFacts
  <2> DEFINE X == {d \in 1..n : Sym[s[d].id].exported}
             ByKey(d, e) == (s[d].score > s[e].score \/ (s[d].score = s[e].score /\ d \in X /\ e \notin X))
  <2>4. ASSUME NEW d \in 1..n, NEW e \in 1..n
        PROVE  Better(d, e) <=> ByKey(d, e)
    <3>1. (d \in X <=> Sym[s[d].id].exported) /\ (e \in X <=> Sym[s[e].id].exported)
      OBVIOUS
    <3> QED
      BY <3>1, Zenon DEF Better, Higher, ByScore
  <2> HIDE DEF X, Better
  <2>5. \A d \in 1..n : ~ByKey(d, d)
    BY <2>1
  <2>6. ASSUME NEW c \in 1..n, NEW d \in 1..n, NEW e \in 1..n
        PROVE  /\ ByKey(c, d) /\ ByKey(d, e) => ByKey(c, e)
               /\ ByKey(c, e) => ByKey(c, d) \/ ByKey(d, e)
    BY <2>1
  <2> HIDE DEF ByKey
  <2>2. \A d \in 1..n : ~Better(d, d)
    BY <2>4, <2>5
  <2>3. ASSUME NEW c \in 1..n, NEW d \in 1..n, NEW e \in 1..n
        PROVE  /\ Better(c, d) /\ Better(d, e) => Better(c, e)
               /\ Better(c, e) => Better(c, d) \/ Better(d, e)
    BY <2>4, <2>6
  <2> HIDE DEF B, Better
  <2> QED
    BY <1>3, <2>2, <2>3 DEF WeakOrder
<1>5. ASSUME NEW e \in 1..n
      PROVE  before[e] = Cardinality(BelowIn(Stable(B, 1..n), 1..n, e))
  <2> HIDE DEF Better
  <2>1. BelowIn(Stable(B, 1..n), 1..n, e) = {d \in 1..n : Better(d, e) \/ (d < e /\ ~Better(e, d))}
    BY <1>3 DEF BelowIn, Stable
  <2> HIDE DEF B
  <2> QED
    BY <2>1
<1> HIDE DEF B, before, Better
<1>6. Rearranges(Arranged(s, before), s, B) /\ Arranged(s, before) = [p \in DOMAIN s |-> Arranged(s, before)[p]]
  BY <1>1, <1>4, <1>5, Arranging
<1>7. \A i, j \in DOMAIN s : <<i, j>> \in B <=> ByScore(s[i], s[j])
  BY <1>1, <1>3 DEF Better
<1> QED
  BY <1>2, <1>6, <1>7


LEMMA SortedByName ==
  ASSUME NEW s \in Seq(Hits)
  PROVE  \E B : /\ \A i, j \in DOMAIN s : <<i, j>> \in B <=> ByScoreThenName(s[i], s[j])
               /\ Rearranges(Ranked(s), s, B)
               /\ Ranked(s) = [p \in DOMAIN s |-> Ranked(s)[p]]
<1> DEFINE n == Len(s)
           Better(d, e) == ByScoreThenName(s[d], s[e])
           B == {p \in (1..n) \X (1..n) : Better(p[1], p[2])}
           before == [e \in 1..n |-> Cardinality({d \in 1..n : Better(d, e) \/ (d < e /\ ~Better(e, d))})]
<1>1. n \in Nat /\ DOMAIN s = 1..n /\ \A i \in 1..n : s[i] \in Hits
  BY SeqFacts
<1>2. Ranked(s) = Arranged(s, before)
  BY <1>1 DEF Ranked, SortHits, Sorted, Arranged
<1> HIDE DEF n
<1>3. \A d, e \in 1..n : <<d, e>> \in B <=> Better(d, e)
  OBVIOUS
<1>4. WeakOrder(B, 1..n)
  <2>1. \A d \in 1..n : s[d].score \in Int /\ s[d].id \in Int
    BY <1>1, HitFacts
  <2> DEFINE X == {d \in 1..n : Sym[s[d].id].exported}
             ByKey(d, e) == (s[d].score > s[e].score \/ (s[d].score = s[e].score /\ d \in X /\ e \notin X))
                          \/ (~(s[e].score > s[d].score \/ (s[e].score = s[d].score /\ e \in X /\ d \notin X)) /\ s[d].id < s[e].id)
  <2>4. ASSUME NEW d \in 1..n, NEW e \in 1..n
        PROVE  Better(d, e) <=> ByKey(d, e)
    <3>1. (d \in X <=> Sym[s[d].id].exported) /\ (e \in X <=> Sym[s[e].id].exported)
      OBVIOUS
    <3> QED
      BY <3>1, Zenon DEF Better, Higher, ByScore, ByScoreThenName
  <2> HIDE DEF X, Better
  <2>5. \A d \in 1..n : ~ByKey(d, d)
    BY <2>1
  <2>6. ASSUME NEW c \in 1..n, NEW d \in 1..n, NEW e \in 1..n
        PROVE  /\ ByKey(c, d) /\ ByKey(d, e) => ByKey(c, e)
               /\ ByKey(c, e) => ByKey(c, d) \/ ByKey(d, e)
    BY <2>1
  <2> HIDE DEF ByKey
  <2>2. \A d \in 1..n : ~Better(d, d)
    BY <2>4, <2>5
  <2>3. ASSUME NEW c \in 1..n, NEW d \in 1..n, NEW e \in 1..n
        PROVE  /\ Better(c, d) /\ Better(d, e) => Better(c, e)
               /\ Better(c, e) => Better(c, d) \/ Better(d, e)
    BY <2>4, <2>6
  <2> HIDE DEF B, Better
  <2> QED
    BY <1>3, <2>2, <2>3 DEF WeakOrder
<1>5. ASSUME NEW e \in 1..n
      PROVE  before[e] = Cardinality(BelowIn(Stable(B, 1..n), 1..n, e))
  <2> HIDE DEF Better
  <2>1. BelowIn(Stable(B, 1..n), 1..n, e) = {d \in 1..n : Better(d, e) \/ (d < e /\ ~Better(e, d))}
    BY <1>3 DEF BelowIn, Stable
  <2> HIDE DEF B
  <2> QED
    BY <2>1
<1> HIDE DEF B, before, Better
<1>6. Rearranges(Arranged(s, before), s, B) /\ Arranged(s, before) = [p \in DOMAIN s |-> Arranged(s, before)[p]]
  BY <1>1, <1>4, <1>5, Arranging
<1>7. \A i, j \in DOMAIN s : <<i, j>> \in B <=> ByScoreThenName(s[i], s[j])
  BY <1>1, <1>3 DEF Better
<1> QED
  BY <1>2, <1>6, <1>7

LEMMA RankedList ==
  ASSUME NEW P, NEW s \in ListsOf(P)
  PROVE  Ranked(s) \in ListsOf(P)
<1> DEFINE res == Ranked(s)
<1>1. s \in Seq(Hits)
  BY ListFacts
<1>2. PICK B : Rearranges(res, s, B) /\ res = [p \in DOMAIN s |-> res[p]]
  BY <1>1, SortedByName, Zenon
<1> HIDE DEF res
<1>3. res \in ListsOf(P)
  BY <1>2, RearrangedList
<1> QED
  BY <1>3 DEF res

LEMMA MatchedList ==
  ASSUME NEW P, NEW s \in ListsOf(P)
  PROVE  SortHits(s, Higher) \in ListsOf(P)
<1> DEFINE res == SortHits(s, Higher)
<1>1. s \in Seq(Hits)
  BY ListFacts
<1>2. PICK B : Rearranges(res, s, B) /\ res = [p \in DOMAIN s |-> res[p]]
  BY <1>1, SortedByMatch, Zenon
<1> HIDE DEF res
<1>3. res \in ListsOf(P)
  BY <1>2, RearrangedList
<1> QED
  BY <1>3 DEF res

LEMMA GraphRankedSeq ==
  ASSUME NEW s \in Seq(Hits), NEW rank \in [Ids -> Int]
  PROVE  GraphRankedHits(s, rank) \in Seq(Hits)
<1> DEFINE res == GraphRankedHits(s, rank)
<1>1. PICK B : Rearranges(res, s, B) /\ res = [p \in DOMAIN s |-> res[p]]
  BY SortedByRank, Zenon
<1> HIDE DEF res
<1>2. res \in Seq(Hits)
  BY <1>1, RearrangedSeq
<1> QED
  BY <1>2 DEF res

LEMMA ScoredList ==
  ASSUME NEW P, NEW s \in ListsOf(P)
  PROVE  SortHits(s, ByScore) \in ListsOf(P) /\ Descending(SortHits(s, ByScore))
<1> DEFINE res == SortHits(s, ByScore)
<1>1. s \in Seq(Hits)
  BY ListFacts
<1>2. PICK B : /\ \A i, j \in DOMAIN s : <<i, j>> \in B <=> ByScore(s[i], s[j])
               /\ Rearranges(res, s, B) /\ res = [p \in DOMAIN s |-> res[p]]
  BY <1>1, SortedByScore, Zenon
<1> HIDE DEF res
<1>3. res \in ListsOf(P)
  BY <1>2, RearrangedList
<1>4. PICK at \in [DOMAIN s -> DOMAIN s] :
        /\ \A p \in DOMAIN s : res[p] = s[at[p]]
        /\ \A p, r \in DOMAIN s : p < r => <<at[r], at[p]>> \notin B
  BY <1>2 DEF Rearranges
<1>5. DOMAIN res = DOMAIN s /\ DOMAIN res = 1..Len(res) /\ Len(res) \in Nat
  BY <1>2, <1>3, ListFacts
<1>6. ASSUME NEW p \in 1..(Len(res) - 1)
      PROVE  res[p].score >= res[p + 1].score
  <2>1. p \in DOMAIN s /\ p + 1 \in DOMAIN s /\ p < p + 1
    BY <1>5
  <2>2. at[p] \in DOMAIN s /\ at[p + 1] \in DOMAIN s /\ <<at[p + 1], at[p]>> \notin B
    BY <1>4, <2>1
  <2>3. ~ByScore(s[at[p + 1]], s[at[p]])
    BY <1>2, <2>2
  <2>4. ~ByScore(res[p + 1], res[p])
    BY <1>4, <2>1, <2>3
  <2>5. ~(res[p + 1].score > res[p].score)
    BY <2>4, Zenon DEF ByScore, Higher
  <2>6. res[p] \in Hits /\ res[p + 1] \in Hits
    BY <1>3, <1>5, <2>1, ListFacts
  <2>7. res[p].score \in Int /\ res[p + 1].score \in Int
    BY <2>6, HitFacts
  <2> QED
    BY <2>5, <2>7
<1>7. Descending(res)
  BY <1>6 DEF Descending
<1> QED
  BY <1>3, <1>7 DEF res

(* A hit for each of some ids, by id. *)
LEMMA ListById ==
  ASSUME NEW T \in SUBSET Ids, NEW f \in [T -> Hits], \A id \in T : f[id].id = id
  PROVE  ByIds({f[id] : id \in T}) \in ListsOf(T)
<1> DEFINE S == {f[id] : id \in T}
           R == {p \in S \X S : p[1].id < p[2].id}
           before == [e \in S |-> Cardinality({d \in S : d.id < e.id})]
           q == [i \in 1..Cardinality(S) |-> CHOOSE e \in S : before[e] = i - 1]
<1>1. IsFiniteSet(T)
  BY IdsAreNumbers, FS_Subset
<1>2. IsFiniteSet(S)
  <2>1. f \in Surjection(T, S)
    BY DEF Surjection
  <2> HIDE DEF S
  <2> QED
    BY <1>1, <2>1, FS_Surjection
<1>3. \A e \in S : e \in Hits /\ e.id \in T /\ f[e.id] = e
  OBVIOUS
<1>4. \A d, e \in S : d.id \in Int /\ (d.id = e.id => d = e)
  <2>1. \A id \in T : id \in Int
    BY IdsAreNumbers
  <2> HIDE DEF S
  <2> QED
    BY <1>3, <2>1
<1>5. ByIds(S) = q
  BY DEF ByIds, Sorted
<1> HIDE DEF S
<1>6. \A d, e \in S : <<d, e>> \in R <=> d.id < e.id
  OBVIOUS
<1>7. ASSUME NEW e \in S
      PROVE  before[e] = Cardinality(BelowIn(R, S, e))
  <2>1. {d \in S : d.id < e.id} = BelowIn(R, S, e)
    BY <1>6 DEF BelowIn
  <2> HIDE DEF R
  <2> QED
    BY <2>1
<1> HIDE DEF R, before
<1>8. StrictOrder(R, S)
  BY <1>4, <1>6 DEF StrictOrder
<1>9. /\ FunctionOn(q, 1..Cardinality(S))
      /\ \A i \in 1..Cardinality(S) :
             (\E e \in S : before[e] = i - 1) => q[i] \in S /\ before[q[i]] = i - 1
  BY DEF FunctionOn
<1> HIDE DEF q
<1>10. InOrder(q, R, S)
  BY <1>2, <1>7, <1>8, <1>9, ChosenInOrder
<1>11. q \in Seq(S) /\ \A i, j \in DOMAIN q : i < j <=> <<q[i], q[j]>> \in R
  BY <1>10 DEF InOrder
<1>12. q \in Seq(Hits)
  <2>1. S \subseteq Hits
    BY <1>3
  <2> QED
    BY <1>11, <2>1, SeqMonotonic
<1>13. DOMAIN q = 1..Len(q) /\ Len(q) \in Nat /\ \A i \in DOMAIN q : q[i] \in S
  BY <1>11, SeqFacts
<1>14. ASSUME NEW i \in DOMAIN q, NEW j \in DOMAIN q, q[i].id = q[j].id
       PROVE  i = j
  <2>1. q[i] \in S /\ q[j] \in S /\ q[i] = q[j]
    BY <1>4, <1>13, <1>14
  <2>2. <<q[i], q[j]>> \notin R /\ <<q[j], q[i]>> \notin R
    BY <1>8, <2>1 DEF StrictOrder
  <2>3. ~(i < j) /\ ~(j < i)
    BY <1>11, <2>2
  <2> QED
    BY <1>13, <2>3
<1>15. \A i \in DOMAIN q : q[i].id \in T
  BY <1>3, <1>13
<1>16. q \in ListsOf(T)
  BY <1>12, <1>14, <1>15 DEF ListsOf, OncePerId
<1> QED
  BY <1>5, <1>16 DEF S

-----------------------------------------------------------------------------
(* Scores. *)

LEMMA GreatestInt ==
  ASSUME NEW S \in SUBSET Int, IsFiniteSet(S), S # {}
  PROVE  Max(S) \in S /\ \A x \in S : x <= Max(S)
<1> DEFINE q == Sorted(S, LAMBDA i, j : i < j)
           n == Cardinality(S)
<1>1. InOrder(q, Less(S), S)
  BY SortedInts
<1>2. n \in Nat /\ n # 0
  BY FS_CardinalityType, FS_EmptySet
<1> HIDE DEF q
<1>3. q \in Seq(S) /\ Len(q) = n /\ (\A e \in S : \E i \in DOMAIN q : q[i] = e)
      /\ \A i, j \in DOMAIN q : i < j <=> <<q[i], q[j]>> \in Less(S)
  BY <1>1 DEF InOrder
<1>4. DOMAIN q = 1..n /\ \A i \in 1..n : q[i] \in S
  BY <1>3, SeqFacts
<1> HIDE DEF n
<1>5. n \in 1..n /\ q[n] \in S
  BY <1>2, <1>4
<1>6. ASSUME NEW x \in S
      PROVE  q[n] >= x
  <2>1. PICK i \in 1..n : q[i] = x
    BY <1>3, <1>4
  <2>2. CASE i = n
    BY <1>5, <2>1, <2>2
  <2>3. CASE i # n
    <3>1. i < n
      BY <1>2, <2>3
    <3>2. <<q[i], q[n]>> \in Less(S)
      BY <1>3, <1>4, <1>5, <3>1
    <3>3. q[i] < q[n]
      BY <3>2 DEF Less
    <3>4. q[n] \in Int /\ x \in Int
      BY <1>5
    <3> QED
      BY <2>1, <3>3, <3>4
  <2> QED
    BY <2>2, <2>3
<1>7. \E m \in S : \A x \in S : m >= x
  BY <1>5, <1>6
<1>8. Max(S) \in S /\ \A x \in S : Max(S) >= x
  <2>1. Max(S) = CHOOSE m \in S : \A x \in S : m >= x
    BY DEF Max
  <2> QED
    BY <1>7, <2>1
<1>9. \A x \in S : x \in Int
  OBVIOUS
<1> QED
  BY <1>8, <1>9

(* The greatest of 0 and some values of a function. *)
LEMMA GreatestValue ==
  ASSUME NEW T, IsFiniteSet(T), NEW f \in [T -> Int]
  PROVE  /\ Max({0} \cup {f[x] : x \in T}) \in Nat
         /\ \A x \in T : f[x] <= Max({0} \cup {f[y] : y \in T})
<1> DEFINE V == {f[x] : x \in T}
           S == {0} \cup V
<1>1. IsFiniteSet(V)
  <2>1. f \in Surjection(T, V)
    BY DEF Surjection
  <2> HIDE DEF V
  <2> QED
    BY <2>1, FS_Surjection
<1>2. IsFiniteSet({0} \cup V)
  <2>1. IsFiniteSet(V \cup {0})
    BY <1>1, FS_AddElement
  <2>2. V \cup {0} = {0} \cup V
    OBVIOUS
  <2> QED
    BY <2>1, <2>2
<1>3. S \in SUBSET Int /\ 0 \in S /\ \A x \in T : f[x] \in S
  OBVIOUS
<1> HIDE DEF S
<1>4. Max(S) \in S /\ \A x \in S : x <= Max(S)
  BY <1>2, <1>3, GreatestInt DEF S
<1>5. Max(S) \in Int /\ 0 <= Max(S)
  BY <1>3, <1>4
<1>6. Max(S) \in Nat /\ \A x \in T : f[x] <= Max(S)
  BY <1>3, <1>4, <1>5
<1> QED
  BY <1>6 DEF S

LEMMA SumIsTyped ==
  ASSUME NEW n \in Nat, NEW s, s = [i \in 1..n |-> s[i]], \A i \in 1..n : s[i] \in Int
  PROVE  Sum(s) \in Int
<1>1. s \in [1..n -> Int]
  OBVIOUS
<1> QED
  BY <1>1, SumIsInt

LEMMA IdsOfHits ==
  ASSUME NEW s \in Seq(Hits)
  PROVE  /\ IdsOf(s) \in SUBSET Ids /\ IsFiniteSet(IdsOf(s))
         /\ \A i \in DOMAIN s : s[i] \in Hits /\ s[i].id \in IdsOf(s)
         /\ \A id \in IdsOf(s) : \E i \in DOMAIN s : s[i].id = id
<1>1. \A i \in DOMAIN s : s[i] \in Hits /\ s[i].id \in Ids
  BY SeqFacts, HitFacts
<1>2. IdsOf(s) \in SUBSET Ids
  BY <1>1 DEF IdsOf
<1>3. IsFiniteSet(IdsOf(s))
  BY <1>2, IdsAreNumbers, FS_Subset
<1> QED
  BY <1>1, <1>2, <1>3 DEF IdsOf

LEMMA RrfShareIsInt ==
  ASSUME NEW s \in Seq(Hits), NEW id, NEW w \in Int
  PROVE  RrfShare(s, id, w) \in Int
<1> DEFINE t == [i \in DOMAIN s |-> IF s[i].id = id THEN w \div (60 + i) ELSE 0]
<1>1. Len(s) \in Nat /\ DOMAIN s = 1..Len(s)
  BY SeqFacts
<1>2. \A i \in 1..Len(s) : w \div (60 + i) \in Int
  <2>1. \A i \in 1..Len(s) : 60 + i \in Nat /\ 60 + i > 0
    BY <1>1
  <2> QED
    BY <2>1
<1>3. \A i \in 1..Len(s) : t[i] \in Int
  BY <1>1, <1>2
<1>4. t = [i \in 1..Len(s) |-> t[i]]
  BY <1>1
<1> HIDE DEF t
<1>5. Sum(t) \in Int
  BY <1>1, <1>3, <1>4, SumIsTyped
<1> QED
  BY <1>5 DEF RrfShare, t

LEMMA FirstOfIsHit ==
  ASSUME NEW s \in Seq(Hits), NEW id \in IdsOf(s)
  PROVE  FirstOf(s, id).lang \in {"", Sym[id].lang}
<1> DEFINE K == {i \in DOMAIN s : s[i].id = id}
<1>1. Len(s) \in Nat /\ DOMAIN s = 1..Len(s)
  BY SeqFacts
<1>2. K \in SUBSET Nat /\ K # {}
  BY <1>1, IdsOfHits
<1>3. \E m \in K : \A x \in K : m <= x
  <2> HIDE DEF K
  <2> QED
    BY <1>2, LeastElement
<1>4. \E i \in DOMAIN s : s[i].id = id /\ \A j \in DOMAIN s : s[j].id = id => i <= j
  BY <1>3
<1>5. PICK i \in DOMAIN s : s[i].id = id /\ FirstOf(s, id) = s[i]
  BY <1>4 DEF FirstOf
<1>6. s[i] \in Hits
  BY IdsOfHits
<1> QED
  BY <1>5, <1>6, HitFacts

LEMMA FusedList ==
  ASSUME NEW k \in Seq(Hits), NEW v \in Seq(Hits), NEW g \in Seq(Hits)
  PROVE  ReciprocalRankFusion(k, v, g) \in ListsOf(Ids)
<1> DEFINE all == k \o v \o g
           Score(id) == RrfShare(k, id, Weights.rrf_keyword) + RrfShare(v, id, Weights.rrf_vector)
                          + RrfShare(g, id, Weights.rrf_graph)
           f == [id \in IdsOf(all) |-> Hit(id, Score(id), FirstOf(all, id).lang)]
<1>1. all \in Seq(Hits)
  BY ConcatProperties
<1>2. Weights.rrf_keyword \in Int /\ Weights.rrf_vector \in Int /\ Weights.rrf_graph \in Int
  BY RankingAssumption
<1>3. ASSUME NEW id \in IdsOf(all)
      PROVE  f[id] \in Hits /\ f[id].id = id
  <2>1. Score(id) \in Int
    <3>1. RrfShare(k, id, Weights.rrf_keyword) \in Int /\ RrfShare(v, id, Weights.rrf_vector) \in Int
          /\ RrfShare(g, id, Weights.rrf_graph) \in Int
      BY <1>2, RrfShareIsInt
    <3> QED
      BY <3>1
  <2>2. id \in Ids /\ FirstOf(all, id).lang \in {"", Sym[id].lang}
    BY <1>1, IdsOfHits, FirstOfIsHit
  <2>3. f[id] = Hit(id, Score(id), FirstOf(all, id).lang)
    OBVIOUS
  <2> HIDE DEF f, all, Score
  <2> QED
    BY <2>1, <2>2, <2>3, MadeHit, Zenon
<1>4. ReciprocalRankFusion(k, v, g) = Ranked(ByIds({f[id] : id \in IdsOf(all)}))
  BY DEF ReciprocalRankFusion
<1>5. f \in [IdsOf(all) -> Hits]
  BY <1>3
<1>6. IdsOf(all) \in SUBSET Ids
  BY <1>1, IdsOfHits
<1> HIDE DEF f, all
<1>7. ByIds({f[id] : id \in IdsOf(all)}) \in ListsOf(IdsOf(all))
  BY <1>3, <1>5, <1>6, ListById
<1>8. ReciprocalRankFusion(k, v, g) \in ListsOf(IdsOf(all))
  BY <1>4, <1>7, RankedList
<1> QED
  BY <1>6, <1>8 DEF ListsOf

LEMMA Divides ==
  ASSUME NEW a \in Int, NEW b \in Int, b > 0
  PROVE  a \div b \in Int
OBVIOUS

LEMMA MaxScoreIsNat ==
  ASSUME NEW s \in Seq(Hits)
  PROVE  MaxScore(s) \in Nat
<1>1. CASE s = <<>>
  BY <1>1 DEF MaxScore
<1>2. CASE s # <<>>
  <2> DEFINE f == [i \in DOMAIN s |-> s[i].score]
  <2>1. DOMAIN s = 1..Len(s) /\ Len(s) \in Nat /\ \A i \in DOMAIN s : s[i] \in Hits
    BY SeqFacts
  <2>2. f \in [DOMAIN s -> Int]
    BY <2>1, HitFacts
  <2>3. IsFiniteSet(DOMAIN s)
    BY <2>1, PositionsFinite
  <2>4. MaxScore(s) = Max({0} \cup {f[i] : i \in DOMAIN s})
    BY <1>2 DEF MaxScore
  <2> HIDE DEF f
  <2> QED
    BY <2>2, <2>3, <2>4, GreatestValue
<1> QED
  BY <1>1, <1>2

LEMMA ScoreInIsInt ==
  ASSUME NEW s \in Seq(Hits), NEW id
  PROVE  ScoreIn(s, id) \in Int
<1> DEFINE K == {i \in DOMAIN s : s[i].id = id}
           of == Taken(s, K)
<1>1. ScoreIn(s, id) = IF of = <<>> \/ MaxScore(s) = 0 THEN 0 ELSE (Last(of).score * Unit) \div MaxScore(s)
  BY DEF ScoreIn, Select, Taken
<1>2. of \in Seq(Hits)
  BY TakenPicks
<1>3. MaxScore(s) \in Nat /\ Unit \in Int
  BY MaxScoreIsNat, RankingAssumption
<1> HIDE DEF of
<1>4. CASE of # <<>> /\ MaxScore(s) # 0
  <2>1. Len(of) \in DOMAIN of /\ \A i \in DOMAIN of : of[i] \in Hits
    BY <1>2, <1>4, SeqFacts
  <2>2. Last(of).score \in Int
    BY <2>1, HitFacts DEF Last
  <2>3. Last(of).score * Unit \in Int
    BY <1>3, <2>2
  <2>4. MaxScore(s) > 0 /\ MaxScore(s) \in Int
    BY <1>3, <1>4
  <2>5. (Last(of).score * Unit) \div MaxScore(s) \in Int
    BY <2>3, <2>4, Divides
  <2> QED
    BY <1>1, <1>4, <2>5
<1>5. CASE ~(of # <<>> /\ MaxScore(s) # 0)
  BY <1>1, <1>5
<1> QED
  BY <1>4, <1>5

BoostWords ==
    {{"schema"}, {"model", "entity"}, {"db", "database", "migrations", "sql"}, {"config", "settings", "env", "options"},
     {"error", "exception"}, {"handler", "route", "controller", "endpoint", "api"}, {"server", "service"},
     {"hook", "use"}, {"middleware", "interceptor", "guard"}, {"plugin"}, {"migration", "migrate"}, {"schema", "sql"}}
Boosts == [words : BoostWords, percent : Int]

LEMMA PathBoostsTyped ==
  ASSUME NEW class
  PROVE  PathBoosts(class) \in Seq(Boosts)
<1>1. ASSUME NEW W \in BoostWords, NEW n \in Int
      PROVE  [words |-> W, percent |-> n] \in Boosts
  BY DEF Boosts
<1>2. CASE class = "Schema"
  <2>1. [words |-> {"schema"}, percent |-> 7500] \in Boosts
        /\ [words |-> {"model", "entity"}, percent |-> 5000] \in Boosts
        /\ [words |-> {"db", "database", "migrations", "sql"}, percent |-> 2500] \in Boosts
    BY DEF Boosts, BoostWords
  <2>2. PathBoosts(class) = <<[words |-> {"schema"}, percent |-> 7500],
                              [words |-> {"model", "entity"}, percent |-> 5000],
                              [words |-> {"db", "database", "migrations", "sql"}, percent |-> 2500]>>
    BY <1>2 DEF PathBoosts
  <2> QED
    BY <2>1, <2>2
<1>3. CASE class = "Config"
  <2>1. [words |-> {"config", "settings", "env", "options"}, percent |-> 300] \in Boosts
    BY DEF Boosts, BoostWords
  <2>2. PathBoosts(class) = <<[words |-> {"config", "settings", "env", "options"}, percent |-> 300]>>
    BY <1>3 DEF PathBoosts
  <2> QED
    BY <2>1, <2>2
<1>4. CASE class = "Error"
  <2>1. [words |-> {"error", "exception"}, percent |-> 300] \in Boosts
    BY DEF Boosts, BoostWords
  <2>2. PathBoosts(class) = <<[words |-> {"error", "exception"}, percent |-> 300]>>
    BY <1>4 DEF PathBoosts
  <2> QED
    BY <2>1, <2>2
<1>5. CASE class = "Api"
  <2>1. [words |-> {"handler", "route", "controller", "endpoint", "api"}, percent |-> 300] \in Boosts
        /\ [words |-> {"server", "service"}, percent |-> 150] \in Boosts
    BY DEF Boosts, BoostWords
  <2>2. PathBoosts(class) = <<[words |-> {"handler", "route", "controller", "endpoint", "api"}, percent |-> 300],
                              [words |-> {"server", "service"}, percent |-> 150]>>
    BY <1>5 DEF PathBoosts
  <2> QED
    BY <2>1, <2>2
<1>6. CASE class = "Hook"
  <2>1. [words |-> {"hook", "use"}, percent |-> 200] \in Boosts
    BY DEF Boosts, BoostWords
  <2>2. PathBoosts(class) = <<[words |-> {"hook", "use"}, percent |-> 200]>>
    BY <1>6 DEF PathBoosts
  <2> QED
    BY <2>1, <2>2
<1>7. CASE class = "Middleware"
  <2>1. [words |-> {"middleware", "interceptor", "guard"}, percent |-> 300] \in Boosts
        /\ [words |-> {"plugin"}, percent |-> 150] \in Boosts
    BY DEF Boosts, BoostWords
  <2>2. PathBoosts(class) = <<[words |-> {"middleware", "interceptor", "guard"}, percent |-> 300],
                              [words |-> {"plugin"}, percent |-> 150]>>
    BY <1>7 DEF PathBoosts
  <2> QED
    BY <2>1, <2>2
<1>8. CASE class = "Migration"
  <2>1. [words |-> {"migration", "migrate"}, percent |-> 500] \in Boosts
        /\ [words |-> {"schema", "sql"}, percent |-> 200] \in Boosts
    BY DEF Boosts, BoostWords
  <2>2. PathBoosts(class) = <<[words |-> {"migration", "migrate"}, percent |-> 500],
                              [words |-> {"schema", "sql"}, percent |-> 200]>>
    BY <1>8 DEF PathBoosts
  <2> QED
    BY <2>1, <2>2
<1>9. CASE class \notin {"Schema", "Config", "Error", "Api", "Hook", "Middleware", "Migration"}
  <2>1. PathBoosts(class) = <<>>
    BY <1>9 DEF PathBoosts
  <2> QED
    BY <2>1, EmptySeq
<1> QED
  BY <1>2, <1>3, <1>4, <1>5, <1>6, <1>7, <1>8, <1>9

LEMMA IntentPercentIsInt ==
  ASSUME NEW class, NEW id
  PROVE  IntentPercent(class, id) \in Int
<1> DEFINE boosts == PathBoosts(class)
           K == {i \in DOMAIN boosts : boosts[i].words \cap PathOf(id).about # {}}
           named == Taken(boosts, K)
           defs == IF Sym[id].exported /\ Sym[id].kind \in DefinitionKinds \ {"function", "method", "trait", "module"}
                   THEN 150 ELSE 100
<1>1. IntentPercent(class, id) =
        IF PathOf(id).test THEN IF class = "Test" THEN 200 ELSE 30
        ELSE IF class = "Definition" THEN defs
        ELSE IF named # <<>> THEN named[1].percent
        ELSE KindBoost(class, Sym[id].kind)
  BY DEF IntentPercent, Select, Taken
<1>2. named \in Seq(Boosts)
  <2>1. boosts \in Seq(Boosts)
    BY PathBoostsTyped
  <2> HIDE DEF boosts
  <2> QED
    BY <2>1, TakenPicks
<1>3. KindBoost(class, Sym[id].kind) \in Int
  BY DEF KindBoost
<1>4. defs \in Int
  OBVIOUS
<1> HIDE DEF named, defs
<1>5. CASE named # <<>>
  <2>1. 1 \in DOMAIN named /\ \A i \in DOMAIN named : named[i] \in Boosts
    BY <1>2, <1>5, SeqFacts
  <2>2. named[1].percent \in Int
    BY <2>1 DEF Boosts
  <2> QED
    BY <1>1, <1>3, <1>4, <2>2
<1>6. CASE named = <<>>
  BY <1>1, <1>3, <1>4, <1>6
<1> QED
  BY <1>5, <1>6

LEMMA RankScoreIsInt ==
  ASSUME NEW V, NEW text \in Seq(V), NEW id, NEW class
  PROVE  StructuralAdjustment(id, text) \in Int /\ DefinitionBias(class, id, text) \in Int
<1> DEFINE K == {i \in DOMAIN text : text[i] \in PathOf(id).parts}
           a == IF Sym[id].exported THEN Weights.exported ELSE 0
           b == IF Sym[id].kind = "module" THEN 5 * Unit ELSE 0
           c == IF PathOf(id).index THEN 5 * Unit ELSE 0
           d == IF PathOf(id).build THEN 15 * Unit ELSE 0
           e == IF PathOf(id).source THEN Unit ELSE 0
           g == 2 * Unit * Cardinality(K)
<1>1. Len(text) \in Nat /\ DOMAIN text = 1..Len(text)
  BY SeqFacts
<1>2. Cardinality(K) \in Nat
  BY <1>1, PositionsFinite
<1>3. Weights.exported \in Int /\ Unit \in Int
  BY RankingAssumption
<1>4. StructuralAdjustment(id, text) = a - b - c - d + e + g
  BY DEF StructuralAdjustment
<1> HIDE DEF K
<1>5. StructuralAdjustment(id, text) \in Int
  <2>1. 5 * Unit \in Int /\ 15 * Unit \in Int /\ 2 * Unit \in Int /\ 0 \in Int
    BY <1>3
  <2>2. a \in Int /\ b \in Int /\ c \in Int /\ d \in Int /\ e \in Int
    BY <1>3, <2>1, Zenon
  <2>3. g \in Int
    BY <1>2, <2>1
  <2> HIDE DEF a, b, c, d, e, g
  <2> QED
    BY <1>4, <2>2, <2>3
<1>6. DefinitionBias(class, id, text) \in {0, 10 * Unit, Unit}
  BY DEF DefinitionBias
<1>7. DefinitionBias(class, id, text) \in Int
  BY <1>3, <1>6
<1> QED
  BY <1>5, <1>7

LEMMA RankedByScore ==
  ASSUME NEW k \in Seq(Hits), NEW v \in Seq(Hits), NEW class, NEW V, NEW text \in Seq(V)
  PROVE  RankHits(k, v, class, text) \in ListsOf(Ids)
<1> DEFINE both == Weights.rank_vector + Weights.rank_keyword
           share == IF both > 0 THEN [v |-> Weights.rank_vector, k |-> Weights.rank_keyword, of |-> both]
                    ELSE [v |-> 1, k |-> 1, of |-> 2]
           Base(id) == (share.v * ScoreIn(v, id) + share.k * ScoreIn(k, id)) \div share.of
           Score(id) == ((Base(id) + StructuralAdjustment(id, text)) * IntentPercent(class, id)) \div 100
                           + DefinitionBias(class, id, text)
           Lang(id) == IF id \in IdsOf(v) THEN Sym[id].lang ELSE ""
           T == IdsOf(k) \cup IdsOf(v)
           f == [id \in T |-> Hit(id, Score(id), Lang(id))]
<1>1. Weights.rank_vector \in Int /\ Weights.rank_keyword \in Int
  BY RankingAssumption
<1>2. share.v \in Int /\ share.k \in Int /\ share.of \in Int /\ share.of > 0
  BY <1>1
<1>3. RankHits(k, v, class, text) = Ranked(ByIds({f[id] : id \in T}))
  BY DEF RankHits
<1>4. T \in SUBSET Ids
  BY IdsOfHits
<1> HIDE DEF share, T
<1>5. ASSUME NEW id \in T
      PROVE  Score(id) \in Int
  <2>1. ScoreIn(v, id) \in Int /\ ScoreIn(k, id) \in Int
    BY ScoreInIsInt
  <2>2. share.v * ScoreIn(v, id) + share.k * ScoreIn(k, id) \in Int
    BY <1>2, <2>1
  <2>3. Base(id) \in Int
    BY <1>2, <2>2, Divides
  <2> HIDE DEF Base
  <2>4. StructuralAdjustment(id, text) \in Int /\ DefinitionBias(class, id, text) \in Int
        /\ IntentPercent(class, id) \in Int
    BY RankScoreIsInt, IntentPercentIsInt
  <2>5. (Base(id) + StructuralAdjustment(id, text)) * IntentPercent(class, id) \in Int
    BY <2>3, <2>4
  <2>6. ((Base(id) + StructuralAdjustment(id, text)) * IntentPercent(class, id)) \div 100 \in Int
    <3>1. 100 \in Int /\ 100 > 0
      OBVIOUS
    <3> QED
      BY <2>5, <3>1, Divides
  <2> QED
    BY <2>4, <2>6
<1>6. ASSUME NEW id \in T
      PROVE  f[id] \in Hits /\ f[id].id = id
  <2>1. Score(id) \in Int
    BY <1>5
  <2>2. id \in Ids /\ Lang(id) \in {"", Sym[id].lang}
    BY <1>4
  <2>3. f[id] = Hit(id, Score(id), Lang(id))
    OBVIOUS
  <2> HIDE DEF f, Score, Lang
  <2> QED
    BY <2>1, <2>2, <2>3, MadeHit, Zenon
<1>7. f \in [T -> Hits]
  BY <1>6
<1> HIDE DEF f
<1>8. ByIds({f[id] : id \in T}) \in ListsOf(T)
  BY <1>4, <1>6, <1>7, ListById
<1>9. RankHits(k, v, class, text) \in ListsOf(T)
  BY <1>3, <1>8, RankedList
<1> QED
  BY <1>4, <1>9 DEF ListsOf

(* What the stores return. *)
LEMMA KeywordHitsList ==
  ASSUME docs \in SUBSET Ids, NEW V, NEW text \in Seq(V)
  PROVE  KeywordHits(text) \in ListsOf(Ids)
<1> DEFINE Found(w) == IF w \in DOMAIN Matches THEN Matches[w] ELSE <<>>
           PlacesIn(id, w) == {i \in DOMAIN Found(w) : Found(w)[i] = id}
           Share(id, w) == IF PlacesIn(id, w) = {} THEN 0 ELSE Unit \div Min(PlacesIn(id, w))
           Part(id) == [i \in DOMAIN text |->
                           IF \E j \in 1..(i - 1) : text[j] = text[i] THEN 0 ELSE Share(id, text[i])]
           T == {id \in docs : \E w \in ToSet(text) : id \in ToSet(Found(w))}
           f == [id \in T |-> Hit(id, Sum(Part(id)), "")]
<1>1. KeywordHits(text) = SortHits(ByIds({f[id] : id \in T}), Higher)
  BY DEF KeywordHits
<1>2. Len(text) \in Nat /\ DOMAIN text = 1..Len(text)
  BY SeqFacts
<1>3. ASSUME NEW w, NEW id
      PROVE  Share(id, w) \in Int
  <2>1. Found(w) \in Seq(SymbolIds)
    BY StoresAssumption, EmptySeq
  <2>2. Len(Found(w)) \in Nat /\ DOMAIN Found(w) = 1..Len(Found(w))
    BY <2>1, SeqFacts
  <2> HIDE DEF Found
  <2>3. CASE PlacesIn(id, w) # {}
    <3> DEFINE K == PlacesIn(id, w)
    <3>1. K \in SUBSET Nat /\ \A i \in K : i > 0
      BY <2>2
    <3> HIDE DEF PlacesIn
    <3>2. PICK m \in K : \A x \in K : m <= x
      BY <2>3, <3>1, LeastElement
    <3>3. Min(K) \in K
      BY <3>2 DEF Min
    <3>4. Min(K) \in Int /\ Min(K) > 0 /\ Unit \in Int
      BY <3>1, <3>3, RankingAssumption
    <3>5. Unit \div Min(K) \in Int
      BY <3>4, Divides
    <3> QED
      BY <2>3, <3>5
  <2>4. CASE PlacesIn(id, w) = {}
    BY <2>4
  <2> QED
    BY <2>3, <2>4
<1> HIDE DEF Share
<1>4. ASSUME NEW id
      PROVE  Sum(Part(id)) \in Int
  <2> DEFINE t == Part(id)
  <2>1. t = [i \in 1..Len(text) |-> t[i]] /\ \A i \in 1..Len(text) : t[i] \in Int
    BY <1>2, <1>3
  <2> HIDE DEF Part
  <2> QED
    BY <1>2, <2>1, SumIsTyped
<1>5. T \in SUBSET Ids
  OBVIOUS
<1> HIDE DEF Part, T
<1>6. ASSUME NEW id \in T
      PROVE  f[id] \in Hits /\ f[id].id = id
  <2>1. Sum(Part(id)) \in Int
    BY <1>4
  <2>2. id \in Ids /\ "" \in {"", Sym[id].lang}
    BY <1>5
  <2>3. f[id] = Hit(id, Sum(Part(id)), "")
    OBVIOUS
  <2> HIDE DEF f
  <2> QED
    BY <2>1, <2>2, <2>3, MadeHit, Zenon
<1>7. f \in [T -> Hits]
  BY <1>6
<1> HIDE DEF f
<1>8. ByIds({f[id] : id \in T}) \in ListsOf(T)
  BY <1>5, <1>6, <1>7, ListById
<1>9. KeywordHits(text) \in ListsOf(T)
  BY <1>1, <1>8, MatchedList
<1> QED
  BY <1>5, <1>9 DEF ListsOf

-----------------------------------------------------------------------------
(* Queries. *)

Vocabulary == DOMAIN Lexicon
Queries == Seq([key : STRING, word : Vocabulary])
Texts == Seq(Vocabulary)

LEMMA MappedSeq ==
  ASSUME NEW S, NEW T, NEW s \in Seq(S), NEW f, f = [i \in DOMAIN s |-> f[i]],
         \A i \in DOMAIN s : f[i] \in T
  PROVE  f \in Seq(T) /\ Len(f) = Len(s) /\ DOMAIN f = DOMAIN s
<1>1. Len(s) \in Nat /\ DOMAIN s = 1..Len(s)
  BY SeqFacts
<1>2. f \in [1..Len(s) -> T]
  BY <1>1
<1> QED
  BY <1>1, <1>2, FunctionIsSeq

LEMMA ParsedText ==
  ASSUME NEW q \in Queries
  PROVE  ParseQueryControls(q).text \in Texts
<1> DEFINE K == {i \in DOMAIN q : ControlOf(q[i].key) \notin Controls}
           kept == Taken(q, K)
           words == [i \in DOMAIN kept |-> kept[i].word]
<1>1. ParseQueryControls(q).text = words
  BY DEF ParseQueryControls, Words, Select, Taken
<1>2. kept \in Queries
  BY TakenPicks DEF Queries
<1> HIDE DEF kept
<1>3. ASSUME NEW i \in DOMAIN kept
      PROVE  words[i] \in Vocabulary
  <2>1. kept[i] \in [key : STRING, word : Vocabulary]
    BY <1>2, SeqFacts DEF Queries
  <2> QED
    BY <2>1
<1>4. words = [i \in DOMAIN kept |-> words[i]]
  OBVIOUS
<1> HIDE DEF words
<1>5. words \in Texts
  BY <1>2, <1>3, <1>4, MappedSeq DEF Queries, Texts
<1> QED
  BY <1>1, <1>5

(* A language that is asked for has a name. *)
LEMMA ParsedLang ==
  ASSUME NEW q \in Queries
  PROVE  ParseQueryControls(q).controls["lang"] = None \/ ParseQueryControls(q).controls["lang"] # ""
<1> DEFINE K == {i \in DOMAIN q : ControlOf(q[i].key) = "lang"}
           named == Taken(q, K)
<1>1. ParseQueryControls(q).controls["lang"] =
        IF named = <<>> THEN None ELSE NormalizeLang(Last(named).word)
  BY DEF ParseQueryControls, Select, Taken, Controls
<1>2. named \in Queries
  BY TakenPicks DEF Queries
<1> HIDE DEF named
<1>3. CASE named # <<>>
  <2> DEFINE Q == [key : STRING, word : Vocabulary]
  <2>1. named \in Seq(Q)
    BY <1>2 DEF Queries
  <2> HIDE DEF Q
  <2>5. Len(named) \in DOMAIN named
    BY <1>3, <2>1, SeqFacts
  <2>6. named[Len(named)] \in Q
    BY <2>1, <2>5, SeqFacts
  <2>2. Last(named).word \in Vocabulary
    BY <2>6 DEF Last, Q
  <2>3. Last(named).word # ""
    BY <2>2, LexiconAssumption DEF Vocabulary
  <2>4. NormalizeLang(Last(named).word) # ""
    BY <2>3 DEF NormalizeLang
  <2> QED
    BY <1>1, <1>3, <2>4
<1> QED
  BY <1>1, <1>3

LEMMA NormalText ==
  ASSUME NEW text \in Texts
  PROVE  NormalizeQueryText(text) \in Texts
<1> DEFINE parts == [i \in DOMAIN text |-> Lexicon[text[i]].parts]
<1>1. \A i \in DOMAIN text : text[i] \in DOMAIN Lexicon
  BY SeqFacts DEF Texts, Vocabulary
<1>2. \A i \in DOMAIN text : parts[i] \in Texts
  BY <1>1, LexiconAssumption DEF Texts, Vocabulary
<1>3. parts = [i \in DOMAIN text |-> parts[i]]
  OBVIOUS
<1> HIDE DEF parts
<1>4. parts \in Seq(Texts)
  BY <1>2, <1>3, MappedSeq DEF Texts
<1>5. FlattenSeq(parts) \in Texts
  BY <1>4, FlattenIsSeq DEF Texts
<1> QED
  BY <1>5 DEF NormalizeQueryText, parts

LEMMA WiderText ==
  ASSUME NEW text \in Texts, NEW table \in {"synonyms", "acronyms"}
  PROVE  ExpandWith(text, table) \in Texts
<1> DEFINE more == [i \in DOMAIN text |-> Lexicon[text[i]].also[table]]
           extra == FlattenSeq(more)
           K == {i \in DOMAIN extra : extra[i] \notin ToSet(text)}
<1>1. \A i \in DOMAIN text : text[i] \in DOMAIN Lexicon
  BY SeqFacts DEF Texts, Vocabulary
<1>2. \A i \in DOMAIN text : more[i] \in Texts
  BY <1>1, LexiconAssumption DEF Texts, Vocabulary
<1>3. more = [i \in DOMAIN text |-> more[i]]
  OBVIOUS
<1>4. ExpandWith(text, table) = text \o Taken(extra, K)
  BY DEF ExpandWith, Select, Taken
<1> HIDE DEF more
<1>5. more \in Seq(Texts)
  BY <1>2, <1>3, MappedSeq DEF Texts
<1>6. extra \in Texts
  BY <1>5, FlattenIsSeq DEF Texts
<1> HIDE DEF extra
<1>7. Taken(extra, K) \in Texts
  BY <1>6, TakenPicks DEF Texts
<1> HIDE DEF K
<1> QED
  BY <1>4, <1>7, ConcatProperties DEF Texts

LEMMA ExpandedText ==
  ASSUME NEW text \in Texts, NEW synonyms, NEW acronyms
  PROVE  NormalizeAndExpand(text, synonyms, acronyms) \in Texts
<1> DEFINE normal == NormalizeQueryText(text)
           wide == IF synonyms THEN ExpandWith(normal, "synonyms") ELSE normal
<1>1. normal \in Texts
  BY NormalText
<1> HIDE DEF normal
<1>2. wide \in Texts
  <2>1. ExpandWith(normal, "synonyms") \in Texts
    BY <1>1, WiderText
  <2> QED
    BY <1>1, <2>1
<1> HIDE DEF wide
<1>3. ExpandWith(wide, "acronyms") \in Texts
  BY <1>2, WiderText
<1>4. NormalizeAndExpand(text, synonyms, acronyms) = IF acronyms THEN ExpandWith(wide, "acronyms") ELSE wide
  BY DEF NormalizeAndExpand, wide, normal
<1> QED
  BY <1>2, <1>3, <1>4

LEMMA SplitText ==
  ASSUME NEW text \in Texts, NEW separator
  PROVE  SplitAt(text, separator) \in Seq(Texts)
<1> DEFINE cuts == {i \in 2..(Len(text) - 1) : text[i] = separator}
           Later(i) == {c \in cuts : c > i}
           end(i) == IF Later(i) = {} THEN Len(text)
                     ELSE (CHOOSE c \in Later(i) : \A d \in Later(i) : c <= d) - 1
           Part(i) == SubSeq(text, i + 1, end(i))
           starts == Sorted({0} \cup cuts, LAMBDA a, b : a < b)
           parts == [k \in DOMAIN starts |-> Part(starts[k])]
           K == {k \in DOMAIN parts : parts[k] # <<>>}
<1>1. SplitAt(text, separator) = Taken(parts, K)
  BY DEF SplitAt, Select, Taken
<1>2. Len(text) \in Nat /\ DOMAIN text = 1..Len(text) /\ \A i \in DOMAIN text : text[i] \in Vocabulary
  BY SeqFacts DEF Texts
<1>3. cuts \in SUBSET (1..Len(text)) /\ \A c \in cuts : c \in 2..(Len(text) - 1)
  BY <1>2
<1> HIDE DEF cuts
<1>4. ASSUME NEW i \in {0} \cup cuts
      PROVE  Part(i) \in Texts
  <2>1. i \in Nat
    BY <1>3
  <2>2. end(i) \in Int /\ end(i) <= Len(text)
    <3>1. CASE Later(i) # {}
      <4>1. Later(i) \in SUBSET Nat
        <5>1. Later(i) \subseteq cuts /\ cuts \subseteq Nat
          BY <1>3
        <5> QED
          BY <5>1, Zenon
      <4>2. \E m \in Later(i) : \A x \in Later(i) : m <= x
        <5> HIDE DEF Later
        <5> QED
          BY <3>1, <4>1, LeastElement
      <4>3. PICK c \in Later(i) : end(i) = c - 1
        BY <3>1, <4>2
      <4>4. c \in 2..(Len(text) - 1)
        BY <1>3, <4>3
      <4> QED
        BY <1>2, <4>3, <4>4
    <3>2. CASE Later(i) = {}
      BY <1>2, <3>2
    <3> QED
      BY <3>1, <3>2
  <2> HIDE DEF end
  <2>3. \A j \in (i + 1)..end(i) : text[j] \in Vocabulary
    BY <1>2, <2>1, <2>2
  <2>4. i + 1 \in Int
    BY <2>1
  <2>5. SubSeq(text, i + 1, end(i)) \in Seq(Vocabulary)
    BY <2>2, <2>3, <2>4, SubSeqProperties
  <2> QED
    BY <2>5 DEF Texts
<1>5. starts \in Seq({0} \cup cuts)
  <2> DEFINE C == {0} \cup cuts
  <2>1. IsFiniteSet(cuts)
    BY <1>2, <1>3, PositionsFinite
  <2>2. IsFiniteSet(cuts \cup {0}) /\ cuts \cup {0} = {0} \cup cuts
    BY <2>1, FS_AddElement
  <2>5. \A c \in C : c \in Int
    BY <1>3
  <2>3. C \in SUBSET Int /\ IsFiniteSet(C)
    BY <2>2, <2>5, Zenon
  <2> HIDE DEF C
  <2>4. InOrder(Sorted(C, LAMBDA a, b : a < b), Less(C), C)
    BY <2>3, SortedInts
  <2> QED
    BY <2>4 DEF InOrder, C
<1> HIDE DEF Part, starts
<1>6. parts = [k \in DOMAIN starts |-> parts[k]] /\ \A k \in DOMAIN starts : parts[k] \in Texts
  BY <1>4, <1>5, SeqFacts
<1> HIDE DEF parts
<1>7. parts \in Seq(Texts)
  BY <1>5, <1>6, MappedSeq
<1>8. Taken(parts, K) \in Seq(Texts)
  BY <1>7, TakenPicks
<1> QED
  BY <1>1, <1>8

LEMMA DecomposedQuery ==
  ASSUME NEW text \in Texts
  PROVE  DecomposeQuery(text) \in Seq(Texts)
<1> DEFINE parts == SplitAt(text, "and")
           split == [i \in DOMAIN parts |-> SplitAt(parts[i], "&")]
<1>1. DecomposeQuery(text) = IF text = <<>> THEN <<>> ELSE FlattenSeq(split)
  BY DEF DecomposeQuery
<1>2. parts \in Seq(Texts)
  BY SplitText
<1> HIDE DEF parts
<1>3. \A i \in DOMAIN parts : parts[i] \in Texts
  BY <1>2, SeqFacts
<1>4. split = [i \in DOMAIN parts |-> split[i]] /\ \A i \in DOMAIN parts : split[i] \in Seq(Texts)
  BY <1>3, SplitText
<1> HIDE DEF split
<1>5. split \in Seq(Seq(Texts))
  BY <1>2, <1>4, MappedSeq
<1>6. FlattenSeq(split) \in Seq(Texts) /\ <<>> \in Seq(Texts)
  BY <1>5, FlattenIsSeq, EmptySeq
<1> QED
  BY <1>1, <1>6

-----------------------------------------------------------------------------
(* Boosts: the scores change, the hits do not. *)

LEMMA Rescored ==
  ASSUME NEW P, NEW s \in ListsOf(P), NEW score \in [DOMAIN s -> Int]
  PROVE  [i \in DOMAIN s |-> [s[i] EXCEPT !.score = score[i]]] \in ListsOf(P)
<1> DEFINE t == [i \in DOMAIN s |-> [s[i] EXCEPT !.score = score[i]]]
<1>1. s \in Seq(Hits) /\ OncePerId(s) /\ \A i \in DOMAIN s : s[i] \in Hits /\ s[i].id \in P
  BY ListFacts
<1>2. \A i \in DOMAIN s : t[i] \in Hits /\ t[i].id = s[i].id
  <2>1. ASSUME NEW i \in DOMAIN s
        PROVE  t[i] \in Hits /\ t[i].id = s[i].id
    <3>1. s[i] \in Hits /\ score[i] \in Int /\ t[i] = [s[i] EXCEPT !.score = score[i]]
      BY <1>1
    <3> HIDE DEF t
    <3> QED
      BY <3>1 DEF Hits
  <2> QED
    BY <2>1
<1>3. t = [i \in DOMAIN s |-> t[i]]
  OBVIOUS
<1> HIDE DEF t
<1>4. t \in Seq(Hits) /\ DOMAIN t = DOMAIN s
  BY <1>1, <1>2, <1>3, MappedSeq
<1>5. t \in ListsOf(P)
  BY <1>1, <1>2, <1>4 DEF ListsOf, OncePerId
<1> QED
  BY <1>5 DEF t

LEMMA RescoredRanked ==
  ASSUME NEW P, NEW s \in ListsOf(P), NEW score \in [DOMAIN s -> Int]
  PROVE  Ranked([i \in DOMAIN s |-> [s[i] EXCEPT !.score = score[i]]]) \in ListsOf(P)
BY Rescored, RankedList

LEMMA HitScores ==
  ASSUME NEW P, NEW s \in ListsOf(P)
  PROVE  \A i \in DOMAIN s : s[i].score \in Int /\ s[i].id \in Ids /\ s[i].id \in IdsOf(s)
<1>1. \A i \in DOMAIN s : s[i] \in Hits
  BY ListFacts
<1> QED
  BY <1>1, HitFacts DEF IdsOf

LEMMA PopularList ==
  ASSUME NEW P, NEW s \in ListsOf(P), NEW rank \in [Ids -> Int]
  PROVE  PopularityBoost(s, rank) \in ListsOf(P)
<1> DEFINE most == Max({0} \cup {rank[id] : id \in IdsOf(s)})
           score == [i \in DOMAIN s |-> s[i].score + (Weights.popularity * rank[s[i].id]) \div most]
<1>1. s \in Seq(Hits)
  BY ListFacts
<1>2. most \in Nat
  <2> DEFINE f == [id \in IdsOf(s) |-> rank[id]]
  <2>1. IsFiniteSet(IdsOf(s)) /\ f \in [IdsOf(s) -> Int]
    BY <1>1, IdsOfHits
  <2>2. {f[id] : id \in IdsOf(s)} = {rank[id] : id \in IdsOf(s)}
    OBVIOUS
  <2> HIDE DEF f
  <2> QED
    BY <2>1, <2>2, GreatestValue
<1>3. PopularityBoost(s, rank) =
        IF s = <<>> \/ Weights.popularity = 0 \/ most = 0 THEN s
        ELSE Ranked([i \in DOMAIN s |-> [s[i] EXCEPT !.score = score[i]]])
  BY DEF PopularityBoost, Boosted
<1> HIDE DEF most
<1>4. CASE most # 0
  <2>1. most \in Int /\ most > 0 /\ Weights.popularity \in Int
    BY <1>2, <1>4, RankingAssumption
  <2>2. ASSUME NEW i \in DOMAIN s
        PROVE  score[i] \in Int
    <3>1. s[i].score \in Int /\ rank[s[i].id] \in Int
      BY HitScores
    <3>2. (Weights.popularity * rank[s[i].id]) \in Int
      BY <2>1, <3>1
    <3>3. (Weights.popularity * rank[s[i].id]) \div most \in Int
      BY <2>1, <3>2, Divides
    <3> QED
      BY <3>1, <3>3
  <2>3. score \in [DOMAIN s -> Int]
    BY <2>2
  <2> HIDE DEF score
  <2>4. Ranked([i \in DOMAIN s |-> [s[i] EXCEPT !.score = score[i]]]) \in ListsOf(P)
    BY <2>3, RescoredRanked
  <2> QED
    BY <1>3, <2>4
<1>5. CASE most = 0
  BY <1>3, <1>5
<1> QED
  BY <1>4, <1>5

LEMMA DocumentedList ==
  ASSUME NEW P, NEW s \in ListsOf(P), NEW documented
  PROVE  DocstringBoost(s, documented) \in ListsOf(P)
<1> DEFINE score == [i \in DOMAIN s |-> IF s[i].id \in documented THEN (s[i].score * 150) \div 100 ELSE s[i].score]
<1>1. DocstringBoost(s, documented) = Ranked([i \in DOMAIN s |-> [s[i] EXCEPT !.score = score[i]]])
  BY DEF DocstringBoost, Boosted
<1>2. \A i \in DOMAIN s : s[i].score \in Int
  BY HitScores
<1>3. score \in [DOMAIN s -> Int]
  BY <1>2
<1> HIDE DEF score
<1> QED
  BY <1>1, <1>3, RescoredRanked

LEMMA SelectedList ==
  ASSUME NEW P, NEW s \in ListsOf(P), NEW selections, NEW text
  PROVE  SelectionBoost(s, selections, text) \in ListsOf(P)
<1> DEFINE score == [i \in DOMAIN s |-> s[i].score + 0]
           boosts == BatchGetSelectionBoosts(selections, text)
<1>1. DOMAIN boosts = {}
  BY DEF BatchGetSelectionBoosts
<1>2. SelectionBoost(s, selections, text) =
        IF s = <<>> \/ Weights.selection = 0 THEN s
        ELSE Ranked([i \in DOMAIN s |-> [s[i] EXCEPT !.score = score[i]]])
  BY <1>1 DEF SelectionBoost, Boosted
<1>3. \A i \in DOMAIN s : s[i].score \in Int
  BY HitScores
<1>4. score \in [DOMAIN s -> Int]
  BY <1>3
<1> HIDE DEF score
<1> QED
  BY <1>2, <1>4, RescoredRanked

LEMMA NearList ==
  ASSUME NEW P, NEW s \in ListsOf(P), NEW affinity \in [DOMAIN File -> Int]
  PROVE  AffinityBoost(s, affinity) \in ListsOf(P)
<1> DEFINE most == Max({0} \cup {affinity[Sym[id].file] : id \in IdsOf(s)})
           score == [i \in DOMAIN s |-> s[i].score + (Weights.affinity * affinity[Sym[s[i].id].file]) \div most]
<1>0. \A id \in Ids : affinity[Sym[id].file] \in Int
  BY RankingAssumption, IdsAreNumbers
<1>1. s \in Seq(Hits)
  BY ListFacts
<1>2. most \in Nat
  <2> DEFINE f == [id \in IdsOf(s) |-> affinity[Sym[id].file]]
  <2>1. IsFiniteSet(IdsOf(s)) /\ f \in [IdsOf(s) -> Int]
    BY <1>0, <1>1, IdsOfHits
  <2>2. {f[id] : id \in IdsOf(s)} = {affinity[Sym[id].file] : id \in IdsOf(s)}
    OBVIOUS
  <2> HIDE DEF f
  <2> QED
    BY <2>1, <2>2, GreatestValue
<1>3. AffinityBoost(s, affinity) =
        IF s = <<>> \/ Weights.affinity = 0 \/ most = 0 THEN s
        ELSE Ranked([i \in DOMAIN s |-> [s[i] EXCEPT !.score = score[i]]])
  BY DEF AffinityBoost, Boosted
<1> HIDE DEF most
<1>4. CASE most # 0
  <2>1. most \in Int /\ most > 0 /\ Weights.affinity \in Int
    BY <1>2, <1>4, RankingAssumption
  <2>2. ASSUME NEW i \in DOMAIN s
        PROVE  score[i] \in Int
    <3>1. s[i].score \in Int /\ affinity[Sym[s[i].id].file] \in Int
      BY <1>0, HitScores
    <3>2. (Weights.affinity * affinity[Sym[s[i].id].file]) \in Int
      BY <2>1, <3>1
    <3>3. (Weights.affinity * affinity[Sym[s[i].id].file]) \div most \in Int
      BY <2>1, <3>2, Divides
    <3> QED
      BY <3>1, <3>3
  <2>3. score \in [DOMAIN s -> Int]
    BY <2>2
  <2> HIDE DEF score
  <2>4. Ranked([i \in DOMAIN s |-> [s[i] EXCEPT !.score = score[i]]]) \in ListsOf(P)
    BY <2>3, RescoredRanked
  <2> QED
    BY <1>3, <2>4
<1>5. CASE most = 0
  BY <1>3, <1>5
<1> QED
  BY <1>4, <1>5

LEMMA PackageList ==
  ASSUME NEW P, NEW s \in ListsOf(P), NEW packages, NEW paths, NEW wanted, NEW class
  PROVE  PackageBoost(s, packages, paths, wanted, class) \in ListsOf(P)
<1> DEFINE first == PackagesOf(s[1].id, packages, paths)
           Of(id) == PackagesOf(id, packages, paths)
           query == IF wanted # None THEN wanted ELSE IF first # <<>> THEN Deepest(first) ELSE None
           score == [i \in DOMAIN s |-> IF Of(s[i].id) # <<>> /\ Last(Of(s[i].id)).id = query
                                        THEN (s[i].score * PackagePercent(class)) \div 100 ELSE s[i].score]
           res == Ranked([i \in DOMAIN s |-> [s[i] EXCEPT !.score = score[i]]])
<1>1. PackageBoost(s, packages, paths, wanted, class) \in {s, res}
  BY DEF PackageBoost, Boosted
<1>2. \A i \in DOMAIN s : s[i].score \in Int
  BY HitScores
<1>3. PackagePercent(class) \in Int
  BY DEF PackagePercent
<1> HIDE DEF first, Of, query
<1>4. ASSUME NEW i \in DOMAIN s
      PROVE  score[i] \in Int
  <2>1. s[i].score * PackagePercent(class) \in Int
    BY <1>2, <1>3
  <2>2. (s[i].score * PackagePercent(class)) \div 100 \in Int
    BY <2>1
  <2> QED
    BY <1>2, <2>2
<1>5. score \in [DOMAIN s -> Int]
  BY <1>4
<1> HIDE DEF score
<1>6. res \in ListsOf(P)
  BY <1>5, RescoredRanked
<1> QED
  BY <1>1, <1>6

LEMMA RerankedList ==
  ASSUME NEW P, NEW s \in ListsOf(P), NEW scores, \A i \in DOMAIN s \cap DOMAIN scores : scores[i] \in Int
  PROVE  ApplyRerankerScores(s, scores) \in ListsOf(P)
<1> DEFINE score == [i \in DOMAIN s |-> IF i \in DOMAIN scores
                                        THEN (s[i].score * 70) \div 100 + (scores[i] * 300) \div 100
                                        ELSE s[i].score]
           t == [i \in DOMAIN s |-> [s[i] EXCEPT !.score = score[i]]]
<1>1. \A i \in DOMAIN s : s[i].score \in Int /\ s[i] \in Hits
  BY HitScores, ListFacts
<1>2. ApplyRerankerScores(s, scores) = SortHits(t, ByScore)
  <2> DEFINE u == [i \in DOMAIN s |->
                     IF i \in DOMAIN scores
                     THEN [s[i] EXCEPT !.score = (@ * 70) \div 100 + (scores[i] * 300) \div 100]
                     ELSE s[i]]
  <2>1. ASSUME NEW i \in DOMAIN s
        PROVE  u[i] = t[i]
    <3>1. CASE i \in DOMAIN scores
      BY <3>1
    <3>2. CASE i \notin DOMAIN scores
      <4>1. u[i] = s[i] /\ t[i] = [s[i] EXCEPT !.score = s[i].score] /\ s[i] \in Hits
        BY <1>1, <3>2
      <4> HIDE DEF u, t
      <4> QED
        BY <4>1 DEF Hits
    <3> QED
      BY <3>1, <3>2
  <2>2. u = t
    <3>1. u = [i \in DOMAIN s |-> u[i]] /\ t = [i \in DOMAIN s |-> t[i]]
      OBVIOUS
    <3> HIDE DEF u, t
    <3>2. [i \in DOMAIN s |-> u[i]] = [i \in DOMAIN s |-> t[i]]
      BY <2>1
    <3> QED
      BY <3>1, <3>2
  <2>3. ApplyRerankerScores(s, scores) = SortHits(u, ByScore)
    BY DEF ApplyRerankerScores
  <2> HIDE DEF u, t
  <2> QED
    BY <2>2, <2>3
<1>3. score \in [DOMAIN s -> Int]
  BY <1>1
<1> HIDE DEF score
<1>4. t \in ListsOf(P)
  BY <1>3, Rescored
<1> HIDE DEF t
<1> QED
  BY <1>2, <1>4, ScoredList

-----------------------------------------------------------------------------
(* Diversification. *)

Accs == [out : Seq(Hits), deferred : Seq(Hits)]

LEMMA AppendedHits ==
  ASSUME NEW acc \in Accs, NEW h \in Hits
  PROVE  /\ [acc EXCEPT !.deferred = Append(@, h)] \in Accs
         /\ [acc EXCEPT !.out = Append(@, h)] \in Accs
<1>1. Append(acc.out, h) \in Seq(Hits) /\ Append(acc.deferred, h) \in Seq(Hits)
  <2>1. acc.out \in Seq(Hits) /\ acc.deferred \in Seq(Hits)
    BY DEF Accs
  <2> QED
    BY <2>1, AppendProperties
<1> QED
  BY <1>1 DEF Accs

TakesInSteps(a, n, s, limit, group, max) ==
    /\ a \in [0..n -> Accs] /\ a[0] = [out |-> <<>>, deferred |-> <<>>]
    /\ \A i \in 1..n : a[i] = Take(a[i - 1], s[i], limit, group, max)
    /\ TakePerGroup(s, limit, group, max) = a[n].out \o Truncate(a[n].deferred, limit - Len(a[n].out))

LEMMA TakenStepwise ==
  ASSUME NEW n \in Nat, NEW s \in [1..n -> Hits], NEW limit \in Nat, NEW group, NEW max \in Nat
  PROVE  \E a : TakesInSteps(a, n, s, limit, group, max)
<1> DEFINE base == [out |-> <<>>, deferred |-> <<>>]
           Op(acc, h) == Take(acc, h, limit, group, max)
           op == [p \in (1..n) \X Accs |-> Op(p[2], s[p[1]])]
           F(g) == [S \in SUBSET (1..n) |-> IF S = {} THEN base ELSE Op(g[S \ {Max(S)}], s[Max(S)])]
           iter == CHOOSE g : g = F(g)
           a == [i \in 0..n |-> iter[1..i]]
<1>0. DOMAIN s = 1..n
  OBVIOUS
<1>1. TakePerGroup(s, limit, group, max)
        = iter[1..n].out \o Truncate(iter[1..n].deferred, limit - Len(iter[1..n].out))
  BY <1>0 DEF TakePerGroup, Take, FoldLeft, MapThenFoldSet
<1>2. base \in Accs
  BY EmptySeq DEF Accs
<1>3. ASSUME NEW i \in 1..n, NEW acc \in Accs
      PROVE  Op(acc, s[i]) \in Accs
  <2>1. s[i] \in Hits
    OBVIOUS
  <2> QED
    BY <2>1, AppendedHits, Zenon DEF Take
<1> HIDE DEF Op, base
<1>4. op \in [(1..n) \X Accs -> Accs]
  BY <1>3
<1>5. PICK g \in [SUBSET (1..n) -> Accs] : Folds(g, n, base, op)
  <2> HIDE DEF op
  <2> QED
    BY <1>2, <1>4, FoldExists, Zenon
<1>6. ASSUME NEW S \in SUBSET (1..n), S # {}
      PROVE  op[<<Max(S), g[S \ {Max(S)}]>>] = Op(g[S \ {Max(S)}], s[Max(S)])
  <2>1. Max(S) \in 1..n /\ S \ {Max(S)} \in SUBSET (1..n)
    BY <1>6, GreatestOf
  <2>2. g[S \ {Max(S)}] \in Accs
    BY <2>1
  <2> QED
    BY <2>1, <2>2
<1> HIDE DEF op
<1>7. g = F(g)
  BY <1>5, <1>6 DEF Folds
<1>8. iter = F(iter)
  <2> HIDE DEF F
  <2> QED
    BY <1>7
<1> HIDE DEF iter
<1>9. a[0] = base
  <2>1. 1..0 = {} /\ 0 \in 0..n
    OBVIOUS
  <2> QED
    BY <1>8, <2>1
<1>10. ASSUME NEW i \in 1..n
       PROVE  a[i] = Op(a[i - 1], s[i])
  <2>1. 1..i \in SUBSET (1..n) /\ 1..i # {} /\ Max(1..i) = i /\ (1..i) \ {i} = 1..(i - 1)
    BY UpTo
  <2>2. \A S \in SUBSET (1..n) : S # {} => iter[S] = Op(iter[S \ {Max(S)}], s[Max(S)])
    BY <1>8
  <2>3. iter[1..i] = Op(iter[1..(i - 1)], s[i])
    BY <2>1, <2>2
  <2>4. i \in 0..n /\ i - 1 \in 0..n
    OBVIOUS
  <2> QED
    BY <2>3, <2>4
<1>11. n \in 0..n /\ a[n] = iter[1..n] /\ a = [i \in 0..n |-> a[i]]
  OBVIOUS
<1> HIDE DEF a
<1>12. \A i \in 0..n : a[i] \in Accs
  <2> DEFINE G == {i \in 0..n : a[i] \in Accs}
  <2>1. 0 \in G
    BY <1>2, <1>9
  <2>2. ASSUME NEW i \in 1..n, i - 1 \in G
        PROVE  i \in G
    BY <1>3, <1>10, <2>2
  <2> HIDE DEF G
  <2>3. 0..n \subseteq G
    BY <2>1, <2>2, Reached
  <2> QED
    BY <2>3 DEF G
<1>13. a \in [0..n -> Accs]
  BY <1>11, <1>12
<1>14. /\ a[0] = [out |-> <<>>, deferred |-> <<>>]
       /\ \A i \in 1..n : a[i] = Take(a[i - 1], s[i], limit, group, max)
       /\ TakePerGroup(s, limit, group, max)
            = a[n].out \o Truncate(a[n].deferred, limit - Len(a[n].out))
  BY <1>1, <1>9, <1>10, <1>11 DEF Op, base
<1>15. TakesInSteps(a, n, s, limit, group, max)
  BY <1>13, <1>14 DEF TakesInSteps
<1> QED
  BY <1>15, Zenon

(* What the pass has taken and put back after c hits, as their places o and *)
(* d: all of those, each once and in order, a hit put back if and only if   *)
(* max of its group were taken before it.                                   *)
Increasing(o) == \A j, k \in DOMAIN o : j < k => o[j] < o[k]
PlacedBy(t, s, o) == DOMAIN t = DOMAIN o /\ \A k \in DOMAIN o : t[k] = s[o[k]]

TakenOf(t, group, g) == {k \in DOMAIN t : group[t[k].id] = g}
PlacesOf(c, o, s, group, g) == {p \in 1..c : (\E j \in DOMAIN o : o[j] = p) /\ group[s[p].id] = g}

\* Of what was taken before place p, max are of its group.
FullBefore(p, s, o, group, max) ==
    /\ group[s[p].id] # None
    /\ Cardinality(PlacesOf(p - 1, o, s, group, group[s[p].id])) >= max

SplitInto(s, acc, o, d, c, group, max) ==
    /\ o \in Seq(1..c) /\ d \in Seq(1..c) /\ Len(o) + Len(d) = c
    /\ PlacedBy(acc.out, s, o) /\ PlacedBy(acc.deferred, s, d)
    /\ Increasing(o) /\ Increasing(d)
    /\ \A j \in DOMAIN o, k \in DOMAIN d : o[j] # d[k]
    /\ \A p \in 1..c : (\E j \in DOMAIN o : o[j] = p) \/ (\E k \in DOMAIN d : d[k] = p)
    /\ \A k \in DOMAIN o : ~FullBefore(o[k], s, o, group, max)
    /\ \A k \in DOMAIN d : FullBefore(d[k], s, o, group, max)

LEMMA AppendFacts ==
  ASSUME NEW S, NEW s \in Seq(S), NEW e \in S
  PROVE  /\ Append(s, e) \in Seq(S) /\ Len(Append(s, e)) = Len(s) + 1
         /\ DOMAIN Append(s, e) = DOMAIN s \cup {Len(s) + 1}
         /\ Len(s) + 1 \notin DOMAIN s
         /\ Append(s, e)[Len(s) + 1] = e
         /\ \A k \in DOMAIN s : Append(s, e)[k] = s[k]
<1>1. Append(s, e) \in Seq(S) /\ Len(Append(s, e)) = Len(s) + 1
  BY AppendProperties
<1>2. Len(s) \in Nat /\ DOMAIN s = 1..Len(s)
  BY SeqFacts
<1>3. DOMAIN Append(s, e) = 1..(Len(s) + 1)
  BY <1>1, LenProperties
<1>4. 1..(Len(s) + 1) = (1..Len(s)) \cup {Len(s) + 1} /\ Len(s) + 1 \notin 1..Len(s)
  BY <1>2
<1>5. Append(s, e)[Len(s) + 1] = e /\ \A k \in 1..Len(s) : Append(s, e)[k] = s[k]
  BY AppendProperties
<1> QED
  BY <1>1, <1>2, <1>3, <1>4, <1>5

LEMMA PlacedNext ==
  ASSUME NEW c \in Nat, NEW o \in Seq(1..c), NEW s, NEW t \in Seq(Hits), s[c + 1] \in Hits,
         PlacedBy(t, s, o), Increasing(o)
  PROVE  /\ Append(o, c + 1) \in Seq(1..(c + 1)) /\ Len(Append(o, c + 1)) = Len(o) + 1
         /\ PlacedBy(Append(t, s[c + 1]), s, Append(o, c + 1))
         /\ Increasing(Append(o, c + 1))
         /\ DOMAIN Append(o, c + 1) = DOMAIN o \cup {Len(o) + 1}
         /\ Append(o, c + 1)[Len(o) + 1] = c + 1
         /\ \A k \in DOMAIN o : Append(o, c + 1)[k] = o[k] /\ o[k] \in 1..c
<1> DEFINE u == Append(o, c + 1)
           v == Append(t, s[c + 1])
<1>1. o \in Seq(1..(c + 1)) /\ c + 1 \in 1..(c + 1) /\ \A k \in DOMAIN o : o[k] \in 1..c
  <2>1. 1..c \subseteq 1..(c + 1) /\ c + 1 \in 1..(c + 1)
    OBVIOUS
  <2> QED
    BY <2>1, SeqMonotonic, SeqFacts
<1>2. /\ u \in Seq(1..(c + 1)) /\ Len(u) = Len(o) + 1 /\ DOMAIN u = DOMAIN o \cup {Len(o) + 1}
      /\ Len(o) + 1 \notin DOMAIN o /\ u[Len(o) + 1] = c + 1 /\ \A k \in DOMAIN o : u[k] = o[k]
  BY <1>1, AppendFacts
<1>3. /\ DOMAIN v = DOMAIN t \cup {Len(t) + 1} /\ v[Len(t) + 1] = s[c + 1]
      /\ \A k \in DOMAIN t : v[k] = t[k]
  BY AppendFacts
<1>4. Len(t) = Len(o) /\ Len(o) \in Nat /\ DOMAIN o = 1..Len(o)
  <2>1. 1..Len(t) = 1..Len(o) /\ Len(t) \in Nat /\ Len(o) \in Nat /\ DOMAIN o = 1..Len(o)
    BY SeqFacts DEF PlacedBy
  <2> QED
    BY <2>1, SameInterval
<1> HIDE DEF u, v
<1>5. PlacedBy(v, s, u)
  BY <1>2, <1>3, <1>4 DEF PlacedBy
<1>6. ASSUME NEW j \in DOMAIN u, NEW k \in DOMAIN u, j < k
      PROVE  u[j] < u[k]
  <2>1. CASE k = Len(o) + 1
    <3>1. j \in DOMAIN o
      BY <1>2, <1>4, <1>6, <2>1
    <3>2. u[j] = o[j] /\ o[j] \in 1..c /\ u[k] = c + 1
      BY <1>1, <1>2, <2>1, <3>1
    <3> QED
      BY <3>2
  <2>2. CASE k # Len(o) + 1
    <3>1. k \in DOMAIN o /\ j \in DOMAIN o
      BY <1>2, <1>4, <1>6, <2>2
    <3> QED
      BY <1>2, <1>6, <3>1 DEF Increasing
  <2> QED
    BY <2>1, <2>2
<1>7. Increasing(u)
  BY <1>6 DEF Increasing
<1> QED
  BY <1>1, <1>2, <1>5, <1>7 DEF u, v

(* The places where something of a group was taken are as many as what was. *)
LEMMA PlacesOfGroup ==
  ASSUME NEW c \in Nat, NEW o \in Seq(1..c), NEW s, NEW t, PlacedBy(t, s, o), Increasing(o), NEW group, NEW g
  PROVE  Cardinality(TakenOf(t, group, g)) = Cardinality(PlacesOf(c, o, s, group, g))
<1> DEFINE M == {k \in DOMAIN t : group[t[k].id] = g}
           Q == {p \in 1..c : (\E j \in DOMAIN o : o[j] = p) /\ group[s[p].id] = g}
           f == [k \in M |-> o[k]]
<1>1. Len(o) \in Nat /\ DOMAIN o = 1..Len(o) /\ \A k \in DOMAIN o : o[k] \in 1..c
  BY SeqFacts
<1>2. DOMAIN t = DOMAIN o /\ \A k \in DOMAIN o : t[k] = s[o[k]]
  BY DEF PlacedBy
<1>3. IsFiniteSet(M)
  BY <1>1, <1>2, PositionsFinite
<1>4. \A k \in M : f[k] \in Q
  BY <1>1, <1>2
<1>5. \A p \in Q : \E k \in M : f[k] = p
  BY <1>2
<1>6. ASSUME NEW j \in M, NEW k \in M, f[j] = f[k]
      PROVE  j = k
  <2>1. j \in DOMAIN o /\ k \in DOMAIN o /\ o[j] = o[k]
    BY <1>2, <1>6
  <2>2. o[j] \in 1..c /\ o[k] \in 1..c
    BY <1>1, <2>1
  <2>3. ~(j < k) /\ ~(k < j)
    BY <2>1, <2>2 DEF Increasing
  <2> QED
    BY <1>1, <2>1, <2>3
<1>7. f \in Bijection(M, Q)
  <2>1. f \in [M -> Q]
    BY <1>4
  <2> HIDE DEF f, M, Q
  <2>2. f \in Injection(M, Q)
    BY <1>6, <2>1 DEF Injection, IsInjective
  <2>3. f \in Surjection(M, Q)
    BY <1>5, <2>1 DEF Surjection
  <2> QED
    BY <2>2, <2>3 DEF Bijection
<1> HIDE DEF f, M, Q
<1>8. Cardinality(M) = Cardinality(Q)
  <2>1. ExistsBijection(M, Q)
    BY <1>7 DEF ExistsBijection
  <2> QED
    BY <1>3, <2>1, FS_Bijection
<1> QED
  BY <1>8 DEF M, Q, TakenOf, PlacesOf

LEMMA PutBack ==
  ASSUME NEW n \in Nat, NEW s \in [1..n -> Hits], NEW c \in Nat, c + 1 <= n,
         NEW acc \in Accs, NEW o, NEW d, NEW group, NEW max \in Nat,
         SplitInto(s, acc, o, d, c, group, max), group[s[c + 1].id] # None,
         Cardinality(TakenOf(acc.out, group, group[s[c + 1].id])) >= max,
         NEW acc2, acc2.out = acc.out, acc2.deferred = Append(acc.deferred, s[c + 1])
  PROVE  SplitInto(s, acc2, o, Append(d, c + 1), c + 1, group, max)
<1> DEFINE d2 == Append(d, c + 1)
<1>1. o \in Seq(1..c) /\ d \in Seq(1..c) /\ PlacedBy(acc.out, s, o) /\ PlacedBy(acc.deferred, s, d)
      /\ Increasing(o) /\ Increasing(d) /\ Len(o) + Len(d) = c
  BY DEF SplitInto
<1>2. s[c + 1] \in Hits /\ acc.deferred \in Seq(Hits)
  BY DEF Accs
<1>3. /\ d2 \in Seq(1..(c + 1)) /\ Len(d2) = Len(d) + 1
      /\ PlacedBy(Append(acc.deferred, s[c + 1]), s, d2) /\ Increasing(d2)
      /\ DOMAIN d2 = DOMAIN d \cup {Len(d) + 1} /\ d2[Len(d) + 1] = c + 1
      /\ \A k \in DOMAIN d : d2[k] = d[k] /\ d[k] \in 1..c
  BY <1>1, <1>2, PlacedNext
<1> HIDE DEF d2
<1>5. o \in Seq(1..(c + 1)) /\ Len(o) \in Nat /\ Len(d) \in Nat /\ \A j \in DOMAIN o : o[j] \in 1..c
  <2>1. 1..c \subseteq 1..(c + 1)
    OBVIOUS
  <2> QED
    BY <1>1, <2>1, SeqMonotonic, SeqFacts
<1>6. Len(o) + Len(d2) = c + 1
  <2>1. Len(o) + Len(d) = c /\ Len(d2) = Len(d) + 1 /\ Len(o) \in Nat /\ Len(d) \in Nat
    BY <1>1, <1>3, <1>5
  <2> QED
    BY <2>1
<1>7. \A j \in DOMAIN o, k \in DOMAIN d2 : o[j] # d2[k]
  <2>1. ASSUME NEW j \in DOMAIN o, NEW k \in DOMAIN d2
        PROVE  o[j] # d2[k]
    <3>1. CASE k \in DOMAIN d
      BY <1>3, <3>1, Z3T(30) DEF SplitInto
    <3>2. CASE k = Len(d) + 1
      <4>1. d2[k] = c + 1 /\ o[j] \in 1..c
        BY <1>3, <1>5, <3>2
      <4> QED
        BY <4>1
    <3> QED
      BY <1>3, <3>1, <3>2
  <2> QED
    BY <2>1
<1>8. \A p \in 1..(c + 1) : (\E j \in DOMAIN o : o[j] = p) \/ (\E k \in DOMAIN d2 : d2[k] = p)
  <2>1. ASSUME NEW p \in 1..(c + 1)
        PROVE  (\E j \in DOMAIN o : o[j] = p) \/ (\E k \in DOMAIN d2 : d2[k] = p)
    <3>1. CASE p = c + 1
      BY <1>3, <3>1
    <3>2. CASE p # c + 1
      <4>1. p \in 1..c
        BY <3>2
      <4>2. (\E j \in DOMAIN o : o[j] = p) \/ (\E k \in DOMAIN d : d[k] = p)
        BY <4>1 DEF SplitInto
      <4> QED
        BY <1>3, <4>2
    <3> QED
      BY <3>1, <3>2
  <2> QED
    BY <2>1
<1>9. ASSUME NEW k \in DOMAIN d2
      PROVE  FullBefore(d2[k], s, o, group, max)
  <2>1. CASE k \in DOMAIN d
    <3>1. d2[k] = d[k]
      BY <1>3, <2>1
    <3>2. FullBefore(d[k], s, o, group, max)
      BY <2>1 DEF SplitInto
    <3> QED
      BY <3>1, <3>2
  <2>2. CASE k = Len(d) + 1
    <3>1. d2[k] = c + 1 /\ d2[k] - 1 = c
      BY <1>3, <2>2
    <3>2. Cardinality(TakenOf(acc.out, group, group[s[c + 1].id]))
            = Cardinality(PlacesOf(c, o, s, group, group[s[c + 1].id]))
      BY <1>1, PlacesOfGroup
    <3> QED
      BY <3>1, <3>2 DEF FullBefore
  <2> QED
    BY <1>3, <2>1, <2>2
<1>91. \A k \in DOMAIN o : ~FullBefore(o[k], s, o, group, max)
  BY DEF SplitInto
<1>10. SplitInto(s, acc2, o, d2, c + 1, group, max)
  BY <1>1, <1>3, <1>5, <1>6, <1>7, <1>8, <1>9, <1>91 DEF SplitInto
<1> QED
  BY <1>10 DEF d2

LEMMA TakenNext ==
  ASSUME NEW n \in Nat, NEW s \in [1..n -> Hits], NEW c \in Nat, c + 1 <= n,
         NEW acc \in Accs, NEW o, NEW d, NEW group, NEW max \in Nat,
         SplitInto(s, acc, o, d, c, group, max),
         ~(/\ group[s[c + 1].id] # None
           /\ Cardinality(TakenOf(acc.out, group, group[s[c + 1].id])) >= max),
         NEW acc2, acc2.deferred = acc.deferred, acc2.out = Append(acc.out, s[c + 1])
  PROVE  SplitInto(s, acc2, Append(o, c + 1), d, c + 1, group, max)
<1> DEFINE o2 == Append(o, c + 1)
<1>1. o \in Seq(1..c) /\ d \in Seq(1..c) /\ PlacedBy(acc.out, s, o) /\ PlacedBy(acc.deferred, s, d)
      /\ Increasing(o) /\ Increasing(d) /\ Len(o) + Len(d) = c
  BY DEF SplitInto
<1>2. s[c + 1] \in Hits /\ acc.out \in Seq(Hits)
  BY DEF Accs
<1>3. /\ o2 \in Seq(1..(c + 1)) /\ Len(o2) = Len(o) + 1
      /\ PlacedBy(Append(acc.out, s[c + 1]), s, o2) /\ Increasing(o2)
      /\ DOMAIN o2 = DOMAIN o \cup {Len(o) + 1} /\ o2[Len(o) + 1] = c + 1
      /\ \A k \in DOMAIN o : o2[k] = o[k] /\ o[k] \in 1..c
  BY <1>1, <1>2, PlacedNext
<1> HIDE DEF o2
<1>5. d \in Seq(1..(c + 1)) /\ Len(o) \in Nat /\ Len(d) \in Nat /\ \A k \in DOMAIN d : d[k] \in 1..c
  <2>1. 1..c \subseteq 1..(c + 1)
    OBVIOUS
  <2> QED
    BY <1>1, <2>1, SeqMonotonic, SeqFacts
<1>6. Len(o2) + Len(d) = c + 1
  <2>1. Len(o) + Len(d) = c /\ Len(o2) = Len(o) + 1 /\ Len(o) \in Nat /\ Len(d) \in Nat
    BY <1>1, <1>3, <1>5
  <2> QED
    BY <2>1
<1>7. \A j \in DOMAIN o2, k \in DOMAIN d : o2[j] # d[k]
  <2>1. ASSUME NEW j \in DOMAIN o2, NEW k \in DOMAIN d
        PROVE  o2[j] # d[k]
    <3>1. CASE j \in DOMAIN o
      BY <1>3, <3>1, Z3T(30) DEF SplitInto
    <3>2. CASE j = Len(o) + 1
      <4>1. o2[j] = c + 1 /\ d[k] \in 1..c
        BY <1>3, <1>5, <3>2
      <4> QED
        BY <4>1
    <3> QED
      BY <1>3, <3>1, <3>2
  <2> QED
    BY <2>1
<1>8. \A p \in 1..(c + 1) : (\E j \in DOMAIN o2 : o2[j] = p) \/ (\E k \in DOMAIN d : d[k] = p)
  <2>1. ASSUME NEW p \in 1..(c + 1)
        PROVE  (\E j \in DOMAIN o2 : o2[j] = p) \/ (\E k \in DOMAIN d : d[k] = p)
    <3>1. CASE p = c + 1
      BY <1>3, <3>1
    <3>2. CASE p # c + 1
      <4>1. p \in 1..c
        BY <3>2
      <4>2. (\E j \in DOMAIN o : o[j] = p) \/ (\E k \in DOMAIN d : d[k] = p)
        BY <4>1 DEF SplitInto
      <4> QED
        BY <1>3, <4>2
    <3> QED
      BY <3>1, <3>2
  <2> QED
    BY <2>1
<1>9. ASSUME NEW p \in 1..(c + 1)
      PROVE  FullBefore(p, s, o2, group, max) <=> FullBefore(p, s, o, group, max)
  <2>1. ASSUME NEW q \in 1..(p - 1)
        PROVE  (\E j \in DOMAIN o2 : o2[j] = q) <=> (\E j \in DOMAIN o : o[j] = q)
    <3>1. q # c + 1
      OBVIOUS
    <3> QED
      BY <1>3, <3>1
  <2>2. PlacesOf(p - 1, o2, s, group, group[s[p].id]) = PlacesOf(p - 1, o, s, group, group[s[p].id])
    BY <2>1 DEF PlacesOf
  <2> QED
    BY <2>2 DEF FullBefore
<1>91. \A k \in DOMAIN d : FullBefore(d[k], s, o2, group, max)
  <2>1. \A k \in DOMAIN d : FullBefore(d[k], s, o, group, max) /\ d[k] \in 1..(c + 1)
    BY <1>5 DEF SplitInto
  <2> QED
    BY <1>9, <2>1, Zenon
<1>92. ~FullBefore(c + 1, s, o, group, max)
  <2>1. Cardinality(TakenOf(acc.out, group, group[s[c + 1].id]))
          = Cardinality(PlacesOf(c, o, s, group, group[s[c + 1].id]))
    BY <1>1, PlacesOfGroup
  <2>2. c + 1 - 1 = c
    OBVIOUS
  <2> QED
    BY <2>1, <2>2 DEF FullBefore
<1>93. ASSUME NEW k \in DOMAIN o2
       PROVE  ~FullBefore(o2[k], s, o2, group, max)
  <2>1. o2[k] \in 1..(c + 1)
    BY <1>3, SeqFacts
  <2>2. ~FullBefore(o2[k], s, o, group, max)
    <3>1. CASE k \in DOMAIN o
      <4>1. o2[k] = o[k] /\ ~FullBefore(o[k], s, o, group, max)
        BY <1>3, <3>1 DEF SplitInto
      <4> QED
        BY <4>1
    <3>2. CASE k = Len(o) + 1
      BY <1>3, <1>92, <3>2
    <3> QED
      BY <1>3, <3>1, <3>2
  <2> QED
    BY <1>9, <2>1, <2>2
<1>10. SplitInto(s, acc2, o2, d, c + 1, group, max)
  BY <1>1, <1>3, <1>5, <1>6, <1>7, <1>8, <1>91, <1>93 DEF SplitInto
<1> QED
  BY <1>10 DEF o2

(* After i hits of the pass: all of them are looked at, or the answer is full. *)
SplitTo(s, acc, i, limit, group, max) ==
    \E c \in 0..i : \E o, d \in Seq(Nat) :
        SplitInto(s, acc, o, d, c, group, max) /\ Len(o) <= limit /\ (Len(o) < limit => c = i)

LEMMA SplitNext ==
  ASSUME NEW n \in Nat, NEW s \in [1..n -> Hits], NEW i \in 1..n,
         NEW acc \in Accs, NEW limit \in Nat, NEW group, NEW max \in Nat,
         SplitTo(s, acc, i - 1, limit, group, max)
  PROVE  SplitTo(s, Take(acc, s[i], limit, group, max), i, limit, group, max)
<1>1. PICK c \in 0..(i - 1) : \E o, d \in Seq(Nat) :
        SplitInto(s, acc, o, d, c, group, max) /\ Len(o) <= limit /\ (Len(o) < limit => c = i - 1)
  BY DEF SplitTo
<1>2. PICK o \in Seq(Nat) : \E d \in Seq(Nat) :
        SplitInto(s, acc, o, d, c, group, max) /\ Len(o) <= limit /\ (Len(o) < limit => c = i - 1)
  BY <1>1, Zenon
<1>3. PICK d \in Seq(Nat) :
        SplitInto(s, acc, o, d, c, group, max) /\ Len(o) <= limit /\ (Len(o) < limit => c = i - 1)
  BY <1>2, Zenon
<1>4. Len(o) \in Nat /\ c \in 0..i
  BY SeqFacts
<1>5. Len(acc.out) = Len(o)
  <2>1. DOMAIN acc.out = DOMAIN o
    BY <1>3, Zenon DEF SplitInto, PlacedBy
  <2>2. acc.out \in Seq(Hits)
    BY DEF Accs
  <2>3. 1..Len(acc.out) = 1..Len(o) /\ Len(acc.out) \in Nat
    BY <2>1, <2>2, SeqFacts
  <2> QED
    BY <1>4, <2>3, SameInterval
<1>6. CASE Len(acc.out) >= limit
  <2>1. Take(acc, s[i], limit, group, max) = acc
    BY <1>6 DEF Take
  <2>2. Len(o) < limit => c = i
    BY <1>4, <1>5, <1>6
  <2> QED
    BY <1>3, <1>4, <2>1, <2>2 DEF SplitTo
<1>7. CASE ~(Len(acc.out) >= limit)
  <2>1. c = i - 1 /\ c + 1 = i /\ i <= n /\ c \in Nat /\ Len(o) + 1 <= limit
    BY <1>3, <1>4, <1>5, <1>7
  <2>2. SplitInto(s, acc, o, d, c, group, max)
    BY <1>3
  <2>3. i \in Nat /\ i \in 0..i
    OBVIOUS
  <2> DEFINE full == group[s[i].id] # None /\ Cardinality(TakenOf(acc.out, group, group[s[i].id])) >= max
  <2>4. CASE full
    <3> DEFINE acc2 == [acc EXCEPT !.deferred = Append(@, s[i])]
    <3>1. Take(acc, s[i], limit, group, max) = acc2
      BY <1>7, <2>4 DEF Take, TakenOf
    <3>2. acc2.out = acc.out /\ acc2.deferred = Append(acc.deferred, s[c + 1])
      BY <2>1 DEF Accs
    <3> HIDE DEF acc2
    <3>3. SplitInto(s, acc2, o, Append(d, c + 1), c + 1, group, max)
      BY <2>1, <2>2, <2>4, <3>2, PutBack
    <3>4. Append(d, i) \in Seq(Nat) /\ SplitInto(s, acc2, o, Append(d, i), i, group, max)
      BY <2>1, <3>3, AppendProperties
    <3> QED
      BY <1>3, <2>3, <3>1, <3>4 DEF SplitTo
  <2>5. CASE ~full
    <3> DEFINE acc2 == [acc EXCEPT !.out = Append(@, s[i])]
    <3>1. Take(acc, s[i], limit, group, max) = acc2
      BY <1>7, <2>5 DEF Take, TakenOf
    <3>2. acc2.deferred = acc.deferred /\ acc2.out = Append(acc.out, s[c + 1])
      BY <2>1 DEF Accs
    <3> HIDE DEF acc2
    <3>3. SplitInto(s, acc2, Append(o, c + 1), d, c + 1, group, max)
      BY <2>1, <2>2, <2>5, <3>2, TakenNext
    <3>4. /\ Append(o, i) \in Seq(Nat) /\ Len(Append(o, i)) = Len(o) + 1
          /\ SplitInto(s, acc2, Append(o, i), d, i, group, max)
      BY <2>1, <3>3, AppendProperties
    <3> QED
      BY <2>1, <2>3, <3>1, <3>4 DEF SplitTo
  <2> QED
    BY <2>4, <2>5
<1> QED
  BY <1>6, <1>7

LEMMA SplitToEnd ==
  ASSUME NEW n \in Nat, NEW s \in [1..n -> Hits], NEW limit \in Nat, NEW group, NEW max \in Nat,
         NEW a \in [0..n -> Accs], a[0] = [out |-> <<>>, deferred |-> <<>>],
         \A i \in 1..n : a[i] = Take(a[i - 1], s[i], limit, group, max)
  PROVE  SplitTo(s, a[n], n, limit, group, max)
<1> DEFINE G == {i \in 0..n : SplitTo(s, a[i], i, limit, group, max)}
<1>1. 0 \in G
  <2>1. SplitInto(s, a[0], <<>>, <<>>, 0, group, max)
    BY EmptySeq DEF SplitInto, PlacedBy, Increasing
  <2>2. <<>> \in Seq(Nat) /\ Len(<<>>) = 0 /\ Len(<<>>) <= limit
    BY EmptySeq
  <2>3. 0 \in 0..0 /\ 0 \in 0..n
    OBVIOUS
  <2>4. SplitTo(s, a[0], 0, limit, group, max)
    BY <2>1, <2>2, <2>3, Zenon DEF SplitTo
  <2> QED
    BY <2>3, <2>4
<1>2. ASSUME NEW i \in 1..n, i - 1 \in G
      PROVE  i \in G
  <2>1. a[i - 1] \in Accs /\ i \in 0..n
    OBVIOUS
  <2>2. SplitTo(s, a[i - 1], i - 1, limit, group, max)
    BY <1>2
  <2>3. SplitTo(s, Take(a[i - 1], s[i], limit, group, max), i, limit, group, max)
    BY <2>1, <2>2, SplitNext
  <2> QED
    BY <2>1, <2>3
<1> HIDE DEF G
<1>3. 0..n \subseteq G
  BY <1>1, <1>2, Reached
<1> QED
  BY <1>3 DEF G

(* The answer of the pass: the places o, then as many of d as there is room. *)
SplitEnds(s, acc, o, d, c, n, limit, group, max) ==
    /\ c \in 0..n /\ o \in Seq(Nat) /\ d \in Seq(Nat)
    /\ SplitInto(s, acc, o, d, c, group, max) /\ Len(o) <= limit /\ (Len(o) < limit => c = n)

HasPlace(at, res, p) == \E k \in DOMAIN res : at[k] = p

KeepsPlaces(at, res, s, c, n, o, d) ==
    /\ at \in [DOMAIN res -> 1..c]
    /\ \A k \in DOMAIN res : res[k] = s[at[k]]
    /\ \A j, k \in DOMAIN res : at[j] = at[k] => j = k
    /\ \A j \in DOMAIN o : j \in DOMAIN res /\ at[j] = o[j]
    /\ \A y \in DOMAIN d : HasPlace(at, res, d[y]) =>
          c = n /\ \A x \in DOMAIN d : ~HasPlace(at, res, d[x]) => y < x

Filled(acc, limit) == acc.out \o Truncate(acc.deferred, limit - Len(acc.out))

LEMMA FilledPlaces ==
  ASSUME NEW n, n \in Nat, NEW s, s \in [1..n -> Hits], NEW acc, acc \in Accs, NEW limit, limit \in Nat,
         NEW group, NEW max, max \in Nat,
         NEW c, NEW o, NEW d, SplitEnds(s, acc, o, d, c, n, limit, group, max),
         NEW res, res = Filled(acc, limit)
  PROVE  /\ res \in Seq(Hits) /\ Len(res) = Least(limit, n)
         /\ \E at : KeepsPlaces(at, res, s, c, n, o, d)
<1>0. /\ c \in 0..n /\ o \in Seq(Nat) /\ d \in Seq(Nat)
      /\ SplitInto(s, acc, o, d, c, group, max) /\ Len(o) <= limit /\ (Len(o) < limit => c = n)
  BY DEF SplitEnds
<1>1. /\ o \in Seq(1..c) /\ d \in Seq(1..c) /\ Len(o) + Len(d) = c
      /\ DOMAIN acc.out = DOMAIN o /\ DOMAIN acc.deferred = DOMAIN d
      /\ \A k \in DOMAIN o : acc.out[k] = s[o[k]]
      /\ \A k \in DOMAIN d : acc.deferred[k] = s[d[k]]
      /\ Increasing(o) /\ Increasing(d) /\ \A j \in DOMAIN o, k \in DOMAIN d : o[j] # d[k]
  BY <1>0 DEF SplitInto, PlacedBy
<1>2. /\ Len(o) \in Nat /\ DOMAIN o = 1..Len(o) /\ \A k \in DOMAIN o : o[k] \in 1..c
      /\ Len(d) \in Nat /\ DOMAIN d = 1..Len(d) /\ \A k \in DOMAIN d : d[k] \in 1..c
  BY <1>1, SeqFacts
<1>3. /\ acc.out \in Seq(Hits) /\ acc.deferred \in Seq(Hits)
      /\ Len(acc.out) = Len(o) /\ Len(acc.deferred) = Len(d)
  <2>1. acc.out \in Seq(Hits) /\ acc.deferred \in Seq(Hits)
    BY DEF Accs
  <2>2. 1..Len(acc.out) = 1..Len(o) /\ Len(acc.out) \in Nat
    BY <1>1, <1>2, <2>1, SeqFacts
  <2>3. 1..Len(acc.deferred) = 1..Len(d) /\ Len(acc.deferred) \in Nat
    BY <1>1, <1>2, <2>1, SeqFacts
  <2> QED
    BY <1>2, <2>1, <2>2, <2>3, SameInterval
<1> DEFINE room == limit - Len(o)
           rest == Truncate(acc.deferred, room)
           t == Least(room, Len(d))
           at == [k \in 1..(Len(o) + t) |-> IF k <= Len(o) THEN o[k] ELSE d[k - Len(o)]]
<1>4. room \in Nat /\ t \in Nat /\ t <= Len(d)
  BY <1>0, <1>2 DEF Least
<1>5. /\ rest \in Seq(Hits) /\ Len(rest) = t /\ DOMAIN rest = 1..t
      /\ \A k \in 1..t : k \in DOMAIN d /\ rest[k] = s[d[k]]
  <2>1. /\ rest \in Seq(Hits) /\ Len(rest) = t /\ DOMAIN rest = 1..t
        /\ \A k \in 1..t : k \in DOMAIN acc.deferred /\ rest[k] = acc.deferred[k]
    <3> HIDE DEF room
    <3>1. t = Least(room, Len(acc.deferred))
      BY <1>3
    <3> HIDE DEF t
    <3>2. acc.deferred \in Seq(Hits) /\ room \in Nat
      BY <1>3, <1>4
    <3>3. /\ rest \in Seq(Hits) /\ Len(rest) = Least(room, Len(acc.deferred))
          /\ DOMAIN rest = 1..Least(room, Len(acc.deferred))
          /\ \A k \in DOMAIN rest : k \in DOMAIN acc.deferred /\ rest[k] = acc.deferred[k]
      BY <3>2, TruncateSeq
    <3> HIDE DEF rest
    <3> QED
      BY <3>1, <3>3
  <2> HIDE DEF rest, t
  <2> QED
    BY <1>1, <2>1
<1>6. res = acc.out \o rest
  BY <1>3 DEF Filled
<1>7. Len(o) + t = Least(limit, n)
  <2>0. Len(o) + Len(d) = c /\ Len(o) \in Nat /\ Len(d) \in Nat /\ c \in 0..n
          /\ Len(o) <= limit /\ (Len(o) < limit => c = n)
    BY <1>0, <1>1, <1>2
  <2>1. CASE Len(o) < limit
    <3>1. Len(o) + Len(d) = n
      BY <2>0, <2>1
    <3> QED
      BY <2>0, <2>1, <3>1 DEF Least
  <2>2. CASE Len(o) = limit
    BY <2>0, <2>2 DEF Least
  <2> QED
    BY <2>0, <2>1, <2>2
<1> HIDE DEF rest, room, t
<1>8. /\ res \in Seq(Hits) /\ Len(res) = Len(o) + t /\ DOMAIN res = 1..(Len(o) + t)
      /\ \A k \in 1..(Len(o) + t) : res[k] = IF k <= Len(o) THEN acc.out[k] ELSE rest[k - Len(o)]
  <2>1. /\ res \in Seq(Hits) /\ Len(res) = Len(o) + t
        /\ \A k \in 1..(Len(o) + t) : res[k] = IF k <= Len(o) THEN acc.out[k] ELSE rest[k - Len(o)]
    <3>1. /\ acc.out \o rest \in Seq(Hits) /\ Len(acc.out \o rest) = Len(acc.out) + Len(rest)
          /\ \A k \in 1..(Len(acc.out) + Len(rest)) :
                (acc.out \o rest)[k] = IF k <= Len(acc.out) THEN acc.out[k] ELSE rest[k - Len(acc.out)]
      <4>1. acc.out \in Seq(Hits) /\ rest \in Seq(Hits)
        BY <1>3, <1>5
      <4> QED
        BY <4>1, ConcatProperties
    <3>2. Len(acc.out) = Len(o) /\ Len(rest) = t
      BY <1>3, <1>5
    <3> QED
      BY <1>6, <3>1, <3>2, Zenon
  <2> QED
    BY <2>1, SeqFacts
<1>9. ASSUME NEW k \in 1..(Len(o) + t)
      PROVE  /\ k <= Len(o) => k \in DOMAIN o /\ at[k] = o[k]
             /\ ~(k <= Len(o)) => k - Len(o) \in 1..t /\ k - Len(o) \in DOMAIN d /\ at[k] = d[k - Len(o)]
  BY <1>2, <1>4
<1>10. DOMAIN at = 1..(Len(o) + t) /\ at = [k \in DOMAIN at |-> at[k]]
  OBVIOUS
<1> HIDE DEF at
<1>11. \A k \in 1..(Len(o) + t) : at[k] \in 1..c /\ res[k] = s[at[k]]
  <2>1. ASSUME NEW k \in 1..(Len(o) + t)
        PROVE  at[k] \in 1..c /\ res[k] = s[at[k]]
    <3>1. CASE k <= Len(o)
      <4>1. k \in DOMAIN o /\ at[k] = o[k] /\ res[k] = acc.out[k]
        BY <1>8, <1>9, <3>1
      <4>2. acc.out[k] = s[o[k]] /\ o[k] \in 1..c
        BY <1>1, <1>2, <4>1
      <4> QED
        BY <4>1, <4>2
    <3>2. CASE ~(k <= Len(o))
      <4> DEFINE x == k - Len(o)
      <4>1. x \in 1..t /\ x \in DOMAIN d /\ at[k] = d[x] /\ res[k] = rest[x]
        BY <1>8, <1>9, <3>2
      <4> HIDE DEF x
      <4>2. rest[x] = s[d[x]] /\ d[x] \in 1..c
        BY <1>2, <1>5, <4>1
      <4> QED
        BY <4>1, <4>2
    <3> QED
      BY <3>1, <3>2
  <2> QED
    BY <2>1
<1>12. ASSUME NEW j \in 1..(Len(o) + t), NEW k \in 1..(Len(o) + t), j < k
       PROVE  at[j] # at[k]
  <2>1. CASE k <= Len(o)
    <3>1. j <= Len(o)
      BY <1>2, <1>12, <2>1
    <3>2. j \in DOMAIN o /\ k \in DOMAIN o /\ at[j] = o[j] /\ at[k] = o[k]
      BY <1>9, <2>1, <3>1
    <3>3. o[j] \in 1..c /\ o[k] \in 1..c /\ o[j] < o[k]
      BY <1>1, <1>2, <1>12, <3>2 DEF Increasing
    <3> QED
      BY <3>2, <3>3
  <2>2. CASE j <= Len(o) /\ ~(k <= Len(o))
    BY <1>1, <1>9, <2>2
  <2>3. CASE ~(j <= Len(o)) /\ ~(k <= Len(o))
    <3> DEFINE x == j - Len(o)
               y == k - Len(o)
    <3>1. x \in DOMAIN d /\ y \in DOMAIN d /\ at[j] = d[x] /\ at[k] = d[y]
      BY <1>9, <2>3
    <3>2. x < y
      BY <1>2, <1>12
    <3> HIDE DEF x, y
    <3>3. d[x] \in 1..c /\ d[y] \in 1..c /\ d[x] < d[y]
      BY <1>1, <1>2, <3>1, <3>2 DEF Increasing
    <3> QED
      BY <3>1, <3>3
  <2> QED
    BY <1>2, <1>12, <2>1, <2>2, <2>3
<1>13. \A j, k \in 1..(Len(o) + t) : at[j] = at[k] => j = k
  BY <1>2, <1>4, <1>12
<1>14. \A j \in DOMAIN o : j \in 1..(Len(o) + t) /\ at[j] = o[j]
  BY <1>2, <1>4, <1>9, Z3T(30)
<1>15. at \in [DOMAIN res -> 1..c]
  BY <1>8, <1>10, <1>11
<1>151. ASSUME NEW x \in DOMAIN d, x <= t
        PROVE  HasPlace(at, res, d[x])
  <2> DEFINE k == Len(o) + x
  <2>1. k \in 1..(Len(o) + t) /\ ~(k <= Len(o)) /\ k - Len(o) = x
    BY <1>2, <1>4, <1>151
  <2> HIDE DEF k
  <2>2. k \in DOMAIN res /\ at[k] = d[x]
    BY <1>8, <1>9, <2>1
  <2> QED
    BY <2>2 DEF HasPlace
<1>152. ASSUME NEW y \in DOMAIN d, HasPlace(at, res, d[y])
        PROVE  y <= t
  <2>1. PICK k \in 1..(Len(o) + t) : at[k] = d[y]
    BY <1>8, <1>152 DEF HasPlace
  <2>2. ~(k <= Len(o))
    BY <1>1, <1>9, <2>1
  <2> DEFINE x == k - Len(o)
  <2>3. x \in 1..t /\ x \in DOMAIN d /\ d[x] = d[y]
    BY <1>9, <2>1, <2>2
  <2> HIDE DEF x
  <2>4. d[x] \in 1..c /\ d[y] \in 1..c
    BY <1>2, <2>3
  <2>5. ~(x < y) /\ ~(y < x)
    BY <1>1, <2>3, <2>4 DEF Increasing
  <2> QED
    BY <1>2, <2>3, <2>5
<1>153. ASSUME NEW y \in DOMAIN d, HasPlace(at, res, d[y])
        PROVE  c = n /\ \A x \in DOMAIN d : ~HasPlace(at, res, d[x]) => y < x
  <2>1. y <= t
    BY <1>152, <1>153
  <2>2. Len(o) < limit
    <3>1. y >= 1 /\ t <= room
      BY <1>2, <1>4, <1>0 DEF room, t, Least
    <3> QED
      BY <1>2, <1>4, <2>1, <3>1 DEF room
  <2>3. \A x \in DOMAIN d : ~HasPlace(at, res, d[x]) => ~(x <= t)
    BY <1>151
  <2> QED
    BY <1>0, <1>2, <1>4, <2>1, <2>2, <2>3
<1>16. KeepsPlaces(at, res, s, c, n, o, d)
  <2>1. /\ \A k \in DOMAIN res : res[k] = s[at[k]]
        /\ \A j, k \in DOMAIN res : at[j] = at[k] => j = k
        /\ \A j \in DOMAIN o : j \in DOMAIN res /\ at[j] = o[j]
    BY <1>8, <1>11, <1>13, <1>14, Zenon
  <2> QED
    BY <1>15, <1>153, <2>1, Zenon DEF KeepsPlaces
<1>17. Len(res) = Least(limit, n) /\ res \in Seq(Hits)
  BY <1>7, <1>8
<1> QED
  BY <1>16, <1>17, Zenon

LEMMA FullOfTaken ==
  ASSUME NEW c, NEW p \in 1..c, c \in Nat, NEW all, NEW o, NEW group, NEW max, max \in Nat, NEW chosen,
         \A q \in DOMAIN o : all[o[q]].id \in chosen,
         FullBefore(p, all, o, group, max)
  PROVE  FullIn(all, chosen, group, max, p)
<1> DEFINE Before == PlacesOf(p - 1, o, all, group, group[all[p].id])
           Chosen == {k \in 1..(p - 1) : all[k].id \in chosen /\ group[all[k].id] = group[all[p].id]}
<1>1. group[all[p].id] # None /\ Cardinality(Before) >= max
  BY DEF FullBefore
<1>2. Before \in SUBSET Chosen /\ Chosen \in SUBSET (1..(p - 1)) /\ Before \in SUBSET (1..(p - 1))
  BY DEF PlacesOf
<1>3. p - 1 \in Nat
  OBVIOUS
<1> HIDE DEF Before, Chosen
<1>4. IsFiniteSet(Chosen) /\ Cardinality(Chosen) \in Nat /\ Cardinality(Before) \in Nat
  BY <1>2, <1>3, PositionsFinite
<1>5. Cardinality(Before) <= Cardinality(Chosen)
  BY <1>2, <1>4, FS_Subset
<1>6. Cardinality(Chosen) >= max
  BY <1>1, <1>4, <1>5
<1> QED
  BY <1>1, <1>6 DEF FullIn, Chosen

(* Where something was taken its group is not full, and every chosen one of   *)
(* the group before it was taken: one that was put back has max before it.    *)
LEMMA TakenNotFull ==
  ASSUME NEW c, NEW p \in 1..c, c \in Nat, NEW all, NEW o, NEW group, NEW max, max \in Nat, NEW chosen,
         ~FullBefore(p, all, o, group, max),
         \A k \in 1..(p - 1) : all[k].id \in chosen =>
            (\E j \in DOMAIN o : o[j] = k) \/ FullBefore(k, all, o, group, max)
  PROVE  ~FullIn(all, chosen, group, max, p)
<1> SUFFICES ASSUME FullIn(all, chosen, group, max, p)
             PROVE  FALSE
  OBVIOUS
<1> DEFINE g == group[all[p].id]
           Before(i) == PlacesOf(i - 1, o, all, group, g)
           Chosen == {k \in 1..(p - 1) : all[k].id \in chosen /\ group[all[k].id] = g}
<1>1. g # None /\ Cardinality(Chosen) >= max
  BY DEF FullIn
<1>2. ~(Cardinality(Before(p)) >= max)
  BY <1>1 DEF FullBefore
<1>3. \A k \in 1..p : /\ Before(k) \in SUBSET Before(p) /\ Before(p) \in SUBSET (1..(p - 1))
                      /\ Before(k) \in SUBSET (1..(p - 1))
  BY DEF PlacesOf
<1>4. Chosen \in SUBSET (1..(p - 1)) /\ p - 1 \in Nat
  OBVIOUS
<1>5. ASSUME NEW k \in Chosen
      PROVE  k \in Before(p)
  <2>1. k \in 1..(p - 1) /\ k \in 1..p /\ all[k].id \in chosen /\ group[all[k].id] = g
    OBVIOUS
  <2>2. CASE \E j \in DOMAIN o : o[j] = k
    BY <2>1, <2>2 DEF PlacesOf
  <2>3. CASE FullBefore(k, all, o, group, max)
    <3>1. Cardinality(Before(k)) >= max
      BY <2>1, <2>3 DEF FullBefore
    <3>2. Before(k) \in SUBSET Before(p) /\ Before(p) \in SUBSET (1..(p - 1)) /\ Before(k) \in SUBSET (1..(p - 1))
      BY <1>3, <2>1
    <3> HIDE DEF Before, Chosen, g
    <3>3. IsFiniteSet(Before(p)) /\ Cardinality(Before(p)) \in Nat /\ Cardinality(Before(k)) \in Nat
      BY <1>4, <3>2, PositionsFinite
    <3>4. Cardinality(Before(k)) <= Cardinality(Before(p))
      BY <3>2, <3>3, FS_Subset
    <3> QED
      BY <1>2, <3>1, <3>3, <3>4
  <2> QED
    BY <2>1, <2>2, <2>3
<1>6. Chosen \in SUBSET Before(p) /\ Before(p) \in SUBSET (1..(p - 1))
  <2>1. p \in 1..p
    OBVIOUS
  <2> QED
    BY <1>3, <1>5, <2>1
<1> HIDE DEF Before, Chosen, g
<1>7. IsFiniteSet(Before(p)) /\ Cardinality(Before(p)) \in Nat /\ Cardinality(Chosen) \in Nat
  BY <1>4, <1>6, PositionsFinite
<1>8. Cardinality(Chosen) <= Cardinality(Before(p))
  BY <1>6, <1>7, FS_Subset
<1> QED
  BY <1>1, <1>2, <1>7, <1>8

LEMMA TakenPerGroup ==
  ASSUME NEW P, NEW all \in ListsOf(P), NEW limit \in Nat, NEW group, NEW max \in Nat
  PROVE  LET res == TakePerGroup(all, limit, group, max)
         IN  /\ res \in ListsOf(P) /\ Len(res) = Least(limit, Len(all))
             /\ Preferred(all, IdsOf(res), group, max)
<1> DEFINE n == Len(all)
           res == TakePerGroup(all, limit, group, max)
<1>1. n \in Nat /\ all \in [1..n -> Hits] /\ DOMAIN all = 1..n
  BY ListFacts, SeqFacts
<1> HIDE DEF n
<1>0. PICK a : TakesInSteps(a, n, all, limit, group, max)
  BY <1>1, TakenStepwise
<1>2. /\ a \in [0..n -> Accs] /\ a[0] = [out |-> <<>>, deferred |-> <<>>]
      /\ \A i \in 1..n : a[i] = Take(a[i - 1], all[i], limit, group, max)
      /\ res = a[n].out \o Truncate(a[n].deferred, limit - Len(a[n].out))
  BY <1>0 DEF TakesInSteps
<1>3. a[n] \in Accs /\ SplitTo(all, a[n], n, limit, group, max)
  <2>1. n \in 0..n
    BY <1>1
  <2> QED
    BY <1>1, <1>2, <2>1, SplitToEnd
<1>4. PICK c \in 0..n : \E o, d \in Seq(Nat) :
        SplitInto(all, a[n], o, d, c, group, max) /\ Len(o) <= limit /\ (Len(o) < limit => c = n)
  BY <1>3, Zenon DEF SplitTo
<1>5. PICK o \in Seq(Nat) : \E d \in Seq(Nat) :
        SplitInto(all, a[n], o, d, c, group, max) /\ Len(o) <= limit /\ (Len(o) < limit => c = n)
  BY <1>4, Zenon
<1>6. PICK d \in Seq(Nat) :
        SplitInto(all, a[n], o, d, c, group, max) /\ Len(o) <= limit /\ (Len(o) < limit => c = n)
  BY <1>5, Zenon
<1> HIDE DEF res
<1>7. /\ res \in Seq(Hits) /\ Len(res) = Least(limit, n)
      /\ \E at : KeepsPlaces(at, res, all, c, n, o, d)
  <2>1. SplitEnds(all, a[n], o, d, c, n, limit, group, max)
    BY <1>6 DEF SplitEnds
  <2>2. res = Filled(a[n], limit) /\ a[n] \in Accs
    BY <1>2, <1>3 DEF Filled
  <2>3. limit \in Nat /\ max \in Nat
    OBVIOUS
  <2> QED
    BY <1>1, <2>1, <2>2, <2>3, FilledPlaces, Zenon
<1>81. PICK at : KeepsPlaces(at, res, all, c, n, o, d)
  BY <1>7
<1>8. /\ at \in [DOMAIN res -> 1..c]
      /\ \A k \in DOMAIN res : res[k] = all[at[k]]
      /\ \A j, k \in DOMAIN res : at[j] = at[k] => j = k
      /\ \A j \in DOMAIN o : j \in DOMAIN res /\ at[j] = o[j]
      /\ \A y \in DOMAIN d : HasPlace(at, res, d[y]) =>
            c = n /\ \A x \in DOMAIN d : ~HasPlace(at, res, d[x]) => y < x
  BY <1>81 DEF KeepsPlaces
<1>9. 1..c \subseteq DOMAIN all
  BY <1>1
<1>10. res \in ListsOf(P)
  <2>1. at \in [DOMAIN res -> DOMAIN all]
    BY <1>8, <1>9
  <2> QED
    BY <1>7, <1>8, <2>1, PartOfList, ZenonT(60)
<1>11. /\ o \in Seq(1..c) /\ d \in Seq(1..c) /\ DOMAIN d \subseteq Nat /\ Increasing(d)
       /\ \A q \in DOMAIN o : o[q] \in 1..c /\ ~FullBefore(o[q], all, o, group, max)
       /\ \A x \in DOMAIN d : d[x] \in 1..c /\ FullBefore(d[x], all, o, group, max)
       /\ \A p \in 1..c : (\E q \in DOMAIN o : o[q] = p) \/ (\E x \in DOMAIN d : d[x] = p)
  <2>1. /\ o \in Seq(1..c) /\ d \in Seq(1..c) /\ Increasing(d)
        /\ \A q \in DOMAIN o : ~FullBefore(o[q], all, o, group, max)
        /\ \A x \in DOMAIN d : FullBefore(d[x], all, o, group, max)
        /\ \A p \in 1..c : (\E q \in DOMAIN o : o[q] = p) \/ (\E x \in DOMAIN d : d[x] = p)
    BY <1>6, Zenon DEF SplitInto
  <2>2. /\ \A q \in DOMAIN o : o[q] \in 1..c
        /\ \A x \in DOMAIN d : d[x] \in 1..c
        /\ DOMAIN d \subseteq Nat
    BY <2>1, SeqFacts
  <2> QED
    BY <2>1, <2>2, Zenon
<1>12. \A q \in DOMAIN o : all[o[q]].id \in IdsOf(res)
  <2>1. ASSUME NEW q \in DOMAIN o
        PROVE  all[o[q]].id \in IdsOf(res)
    <3>1. q \in DOMAIN res /\ at[q] = o[q] /\ res[q] = all[at[q]]
      BY <1>8
    <3> QED
      BY <1>7, <3>1, IdsOfHits
  <2> QED
    BY <2>1
<1>13. ASSUME NEW j \in DOMAIN all, all[j].id \in IdsOf(res)
       PROVE  j \in 1..c /\ HasPlace(at, res, j)
  <2>1. PICK k \in DOMAIN res : res[k].id = all[j].id
    BY <1>7, <1>13, IdsOfHits
  <2>2. at[k] \in 1..c /\ at[k] \in DOMAIN all /\ all[at[k]].id = all[j].id
    BY <1>8, <1>9, <2>1
  <2>3. at[k] = j
    BY <2>2, ListFacts DEF OncePerId
  <2> QED
    BY <2>2, <2>3 DEF HasPlace
<1>14. ASSUME NEW i \in DOMAIN all, HasPlace(at, res, i)
       PROVE  all[i].id \in IdsOf(res)
  <2>1. PICK k \in DOMAIN res : at[k] = i
    BY <1>14 DEF HasPlace
  <2> QED
    BY <1>7, <1>8, <2>1, IdsOfHits
<1> DEFINE FullAt(i) == FullIn(all, IdsOf(res), group, max, i)
<1>15. ASSUME NEW x \in DOMAIN d
       PROVE  FullAt(d[x])
  <2>1. FullBefore(d[x], all, o, group, max) /\ d[x] \in 1..c
    BY <1>11
  <2> QED
    BY <1>12, <2>1, FullOfTaken
<1>16. ASSUME NEW q \in DOMAIN o
       PROVE  ~FullAt(o[q])
  <2>1. o[q] \in 1..c /\ ~FullBefore(o[q], all, o, group, max)
    BY <1>11
  <2>2. \A k \in 1..(o[q] - 1) : all[k].id \in IdsOf(res) =>
          (\E j \in DOMAIN o : o[j] = k) \/ FullBefore(k, all, o, group, max)
    <3>1. ASSUME NEW k \in 1..(o[q] - 1)
          PROVE  k \in 1..c
      BY <2>1
    <3> QED
      BY <1>11, <3>1
  <2>3. c \in Nat /\ max \in Nat
    BY <1>1
  <2> QED
    BY <2>1, <2>2, <2>3, TakenNotFull, Zenon
<1> HIDE DEF FullAt
<1>17. ASSUME NEW i \in DOMAIN all, NEW j \in DOMAIN all,
              all[i].id \notin IdsOf(res), all[j].id \in IdsOf(res)
       PROVE  (FullAt(i) /\ ~FullAt(j)) \/ ((FullAt(i) <=> FullAt(j)) /\ j < i)
  <2>1. j \in 1..c /\ HasPlace(at, res, j) /\ ~HasPlace(at, res, i)
    BY <1>13, <1>14, <1>17
  <2>2. i \in 1..c => \E x \in DOMAIN d : d[x] = i
    BY <1>11, <1>12, <1>17
  <2>3. i \in 1..n
    BY <1>1
  <2>4. CASE \E q \in DOMAIN o : o[q] = j
    <3>1. ~FullAt(j)
      BY <1>16, <2>4
    <3>2. CASE i \in 1..c
      BY <1>15, <2>2, <3>1, <3>2
    <3>3. CASE i \notin 1..c
      <4>1. j < i
        BY <2>1, <2>3, <3>3
      <4> QED
        BY <3>1, <4>1
    <3> QED
      BY <3>2, <3>3
  <2>5. CASE \E y \in DOMAIN d : d[y] = j
    <3>1. PICK y \in DOMAIN d : d[y] = j
      BY <2>5
    <3>2. c = n /\ \A x \in DOMAIN d : ~HasPlace(at, res, d[x]) => y < x
      BY <1>8, <2>1, <3>1
    <3>3. PICK x \in DOMAIN d : d[x] = i
      BY <2>2, <2>3, <3>2
    <3>4. y < x
      BY <2>1, <3>2, <3>3
    <3>5. d[y] < d[x]
      BY <1>11, <3>4 DEF Increasing
    <3> QED
      BY <1>15, <3>1, <3>3, <3>5
  <2> QED
    BY <1>11, <2>1, <2>4, <2>5
<1>18. Preferred(all, IdsOf(res), group, max)
  BY <1>17 DEF Preferred, FullAt
<1> QED
  BY <1>7, <1>10, <1>18 DEF res, n

LEMMA TruncateWhole ==
  ASSUME NEW S, NEW s \in Seq(S), NEW n \in Nat, Len(s) <= n
  PROVE  Truncate(s, n) = s
<1> DEFINE t == Truncate(s, n)
<1>1. Len(s) \in Nat /\ s \in [1..Len(s) -> S]
  BY SeqFacts
<1>2. t \in Seq(S) /\ Len(t) = Len(s) /\ \A i \in DOMAIN t : t[i] = s[i]
  BY <1>1, TruncateSeq DEF Least
<1> HIDE DEF t
<1>3. t \in [1..Len(s) -> S] /\ DOMAIN t = 1..Len(s)
  BY <1>2, SeqFacts
<1>4. t = s
  BY <1>1, <1>2, <1>3
<1> QED
  BY <1>4 DEF t

(* Nothing is done to a list that is short enough. *)
LEMMA ShortEnough ==
  ASSUME NEW s \in Seq(Hits), NEW limit \in Nat, Len(s) <= limit
  PROVE  Truncate(DiversifyByKind(DiversifyByFile(s, limit), limit), limit) = s
<1>1. DiversifyByFile(s, limit) = s
  BY DEF DiversifyByFile
<1>2. DiversifyByKind(s, limit) = s
  BY DEF DiversifyByKind
<1> QED
  BY <1>1, <1>2, TruncateWhole

LEMMA LeastRight ==
  ASSUME NEW a, a \in Nat, NEW b, b \in Nat, b <= a
  PROVE  Least(a, b) = b
BY DEF Least

(* Of one chosen hit no group is full. *)
LEMMA BestAlone ==
  ASSUME NEW P, NEW all \in ListsOf(P), NEW res \in Seq(Hits), Len(res) = 1, NEW group,
         Preferred(all, IdsOf(res), group, 2), NEW other
  PROVE  Preferred(all, IdsOf(res), other, 2)
<1>1. Len(all) \in Nat /\ DOMAIN all = 1..Len(all)
  BY ListFacts
<1>2. \A x, y \in IdsOf(res) : x = y
  <2>1. DOMAIN res = 1..1
    BY SeqFacts
  <2>2. 1..1 = {1}
    OBVIOUS
  <2> QED
    BY <2>1, <2>2, IdsOfHits
<1>3. ASSUME NEW g, NEW i \in DOMAIN all
      PROVE  ~FullIn(all, IdsOf(res), g, 2, i)
  <2> DEFINE Before == {k \in 1..(i - 1) : all[k].id \in IdsOf(res) /\ g[all[k].id] = g[all[i].id]}
  <2>1. ASSUME NEW j \in Before, NEW k \in Before
        PROVE  j = k
    <3>1. j \in DOMAIN all /\ k \in DOMAIN all /\ all[j].id = all[k].id
      BY <1>1, <1>2
    <3> QED
      BY <3>1, ListFacts DEF OncePerId
  <2>2. Cardinality(Before) < 2
    <3> HIDE DEF Before
    <3>1. CASE Before = {}
      BY <3>1, FS_EmptySet
    <3>2. CASE Before # {}
      <4>1. PICK j \in Before : TRUE
        BY <3>2
      <4>2. Before = {j}
        BY <2>1, <4>1
      <4>3. Cardinality(Before) = 1
        BY <4>2, FS_Singleton
      <4> QED
        BY <4>3
    <3> QED
      BY <3>1, <3>2
  <2>3. ~(Cardinality(Before) >= 2)
    <3>1. Cardinality(Before) \in Nat
      <4>1. Before \in SUBSET (1..(i - 1)) /\ i - 1 \in Nat
        BY <1>1
      <4> HIDE DEF Before
      <4> QED
        BY <4>1, PositionsFinite
    <3> HIDE DEF Before
    <3> QED
      BY <2>2, <3>1
  <2> QED
    BY <2>3 DEF FullIn
<1>4. ASSUME NEW i \in DOMAIN all, NEW j \in DOMAIN all, all[i].id \notin IdsOf(res), all[j].id \in IdsOf(res)
      PROVE  j < i
  BY <1>3, <1>4 DEF Preferred
<1> QED
  BY <1>3, <1>4 DEF Preferred

(* For more than one place diversification is the pass over the clusters and  *)
(* nothing else: its answer is cut to the limit already, and diversify_by_file *)
(* and diversify_by_kind return a list no longer than the limit as it is, so   *)
(* neither the share of a file nor the kind of a symbol ever has a say.        *)
THEOREM ClustersDecideAlone ==
  ASSUME NEW P, NEW all \in ListsOf(P), NEW limit \in Nat, limit > 1, NEW cluster
  PROVE  Diversify(all, limit, cluster) = DiversifyByCluster(all, limit, cluster)
<1>1. all \in Seq(Hits) /\ Len(all) \in Nat
  BY ListFacts
<1>2. CASE all = <<>>
  <2>1. DiversifyByCluster(all, limit, cluster) = all
    BY <1>2 DEF DiversifyByCluster
  <2>2. Len(all) <= limit
    BY <1>2, EmptySeq
  <2> QED
    BY <1>1, <2>1, <2>2, ShortEnough DEF Diversify
<1>3. CASE all # <<>>
  <2> DEFINE res == TakePerGroup(all, limit, cluster, 2)
  <2>1. DiversifyByCluster(all, limit, cluster) = res
    BY <1>3 DEF DiversifyByCluster
  <2>2. res \in ListsOf(P) /\ Len(res) = Least(limit, Len(all))
    BY TakenPerGroup
  <2> HIDE DEF res
  <2>3. res \in Seq(Hits) /\ Len(res) <= limit
    BY <1>1, <2>2, ListFacts DEF Least
  <2> QED
    BY <2>1, <2>3, ShortEnough DEF Diversify
<1> QED
  BY <1>2, <1>3

LEMMA DiversifiedList ==
  ASSUME NEW P, NEW all \in ListsOf(P), NEW limit \in Nat \ {0}, NEW cluster
  PROVE  /\ Diversify(all, limit, cluster) \in ListsOf(P)
         /\ ChosenFrom(limit, all, Diversify(all, limit, cluster), cluster)
<1>1. all \in Seq(Hits) /\ Len(all) \in Nat /\ DOMAIN all = 1..Len(all)
  BY ListFacts
<1>2. CASE all = <<>> \/ limit <= 1
  <2>1. DiversifyByCluster(all, limit, cluster) = all
    BY <1>2 DEF DiversifyByCluster
  <2>2. CASE Len(all) <= limit
    <3>1. Diversify(all, limit, cluster) = all
      BY <1>1, <2>1, <2>2, ShortEnough DEF Diversify
    <3>2. Len(all) = Least(limit, Len(all))
      <4>1. limit \in Nat
        OBVIOUS
      <4> QED
        BY <1>1, <2>2, <4>1, LeastRight, Zenon
    <3>3. \A i \in DOMAIN all : all[i].id \in IdsOf(all)
      BY <1>1, IdsOfHits
    <3>4. Preferred(all, IdsOf(all), cluster, 2)
      BY <3>3 DEF Preferred
    <3> QED
      BY <3>1, <3>2, <3>4 DEF ChosenFrom
  <2>3. CASE ~(Len(all) <= limit)
    <3>1. limit = 1
      <4>1. all # <<>>
        BY <1>1, <2>3, SeqFacts
      <4> QED
        BY <1>2, <4>1
    <3> DEFINE files == [id \in SymbolIds |-> Sym[id].file]
               res == TakePerGroup(all, limit, files, 2)
    <3>2. DiversifyByFile(all, limit) = res
      <4>1. Most(limit \div 3, 2) = 2
        BY <3>1 DEF Most
      <4> QED
        BY <2>3, <4>1 DEF DiversifyByFile
    <3> HIDE DEF files
    <3>3. /\ res \in ListsOf(P) /\ Len(res) = Least(limit, Len(all))
          /\ Preferred(all, IdsOf(res), files, 2)
      BY TakenPerGroup
    <3> HIDE DEF res
    <3>4. Len(res) = 1 /\ res \in Seq(Hits)
      BY <1>1, <2>3, <3>1, <3>3, ListFacts DEF Least
    <3>5. Preferred(all, IdsOf(res), cluster, 2)
      BY <3>3, <3>4, BestAlone
    <3>6. Diversify(all, limit, cluster) = res
      <4>1. DiversifyByKind(res, limit) = res
        BY <3>1, <3>4 DEF DiversifyByKind
      <4>2. Truncate(res, limit) = res
        <5>1. Len(res) <= limit /\ limit \in Nat
          BY <3>1, <3>4
        <5> QED
          BY <3>4, <5>1, TruncateWhole, Zenon
      <4> QED
        BY <2>1, <3>2, <4>1, <4>2 DEF Diversify
    <3> QED
      BY <3>3, <3>5, <3>6 DEF ChosenFrom
  <2> QED
    BY <2>2, <2>3
<1>3. CASE ~(all = <<>> \/ limit <= 1)
  <2> DEFINE res == TakePerGroup(all, limit, cluster, 2)
  <2>1. DiversifyByCluster(all, limit, cluster) = res
    BY <1>3 DEF DiversifyByCluster
  <2>2. /\ res \in ListsOf(P) /\ Len(res) = Least(limit, Len(all))
        /\ Preferred(all, IdsOf(res), cluster, 2)
    BY TakenPerGroup
  <2> HIDE DEF res
  <2>4. Diversify(all, limit, cluster) = res
    BY <1>3, <2>1, ClustersDecideAlone
  <2> QED
    BY <2>2, <2>4 DEF ChosenFrom
<1> QED
  BY <1>2, <1>3

-----------------------------------------------------------------------------
(* Edges and expansion. *)

TypesInOrder(S, other) ==
    {p \in S \X S : TypeBefore(p[1], p[2]) \/ (p[1].type = p[2].type /\ other[p[1]] < other[p[2]])}

LEMMA TypeRanks ==
  /\ \A t \in ToSet(TypeOrder) : TypeRank[t] \in Int
  /\ \A t, u \in ToSet(TypeOrder) : TypeRank[t] = TypeRank[u] => t = u
<1>1. ASSUME NEW t \in ToSet(TypeOrder)
      PROVE  TypeRank[t] \in DOMAIN TypeOrder /\ TypeOrder[TypeRank[t]] = t
  <2>1. \E i \in DOMAIN TypeOrder : TypeOrder[i] = t
    BY DEF ToSet
  <2>2. TypeRank[t] = CHOOSE i \in DOMAIN TypeOrder : TypeOrder[i] = t
    BY DEF TypeRank
  <2> HIDE DEF TypeOrder, TypeRank
  <2> QED
    BY <2>1, <2>2
<1>2. DOMAIN TypeOrder \subseteq Int
  BY DEF TypeOrder
<1>3. \A t \in ToSet(TypeOrder) : TypeRank[t] \in Int
  BY <1>1, <1>2
<1>4. \A t, u \in ToSet(TypeOrder) : TypeRank[t] = TypeRank[u] => t = u
  BY <1>1
<1> QED
  BY <1>3, <1>4

LEMMA EdgesInOrder ==
  ASSUME NEW S, S \subseteq Edges, NEW other \in [S -> Int],
         \A d, e \in S : d.type = e.type /\ other[d] = other[e] => d = e
  PROVE  StrictOrder(TypesInOrder(S, other), S)
<1> DEFINE R == TypesInOrder(S, other)
           kind == [e \in S |-> TypeRank[e.type]]
<1>1. \A e \in S : e.type \in ToSet(TypeOrder)
  BY EdgesAssumption
<1>2. \A e \in S : kind[e] \in Int /\ other[e] \in Int
  BY <1>1, TypeRanks
<1>3. \A d, e \in S : d.type = e.type <=> kind[d] = kind[e]
  BY <1>1, TypeRanks
<1>4. \A d, e \in S : <<d, e>> \in R <=> kind[d] < kind[e] \/ (kind[d] = kind[e] /\ other[d] < other[e])
  <2>1. ASSUME NEW d \in S, NEW e \in S
        PROVE  <<d, e>> \in R <=> kind[d] < kind[e] \/ (kind[d] = kind[e] /\ other[d] < other[e])
    <3>1. <<d, e>> \in R <=> TypeBefore(d, e) \/ (d.type = e.type /\ other[d] < other[e])
      BY DEF TypesInOrder
    <3>2. TypeBefore(d, e) <=> kind[d] < kind[e]
      BY DEF TypeBefore
    <3> QED
      BY <1>3, <3>1, <3>2
  <2> QED
    BY <2>1
<1>5. \A d, e \in S : kind[d] = kind[e] /\ other[d] = other[e] => d = e
  BY <1>3
<1> HIDE DEF R, kind
<1>6. \A d \in S : <<d, d>> \notin R
  BY <1>2, <1>4
<1>7. \A c, d, e \in S : <<c, d>> \in R /\ <<d, e>> \in R => <<c, e>> \in R
  BY <1>2, <1>4
<1>8. ASSUME NEW d \in S, NEW e \in S, d # e
      PROVE  <<d, e>> \in R \/ <<e, d>> \in R
  <2>1. kind[d] < kind[e] \/ kind[e] < kind[d] \/ kind[d] = kind[e]
    BY <1>2
  <2>2. kind[d] = kind[e] => other[d] < other[e] \/ other[e] < other[d]
    BY <1>2, <1>5, <1>8
  <2> QED
    BY <1>4, <2>1, <2>2
<1>9. StrictOrder(R, S)
  BY <1>6, <1>7, <1>8 DEF StrictOrder
<1> QED
  BY <1>9 DEF R

LEMMA EdgesFromAreEdges ==
  ASSUME NEW edges, edges \subseteq Edges, NEW id, NEW limit \in Nat
  PROVE  ListEdgesFrom(edges, id, limit) \in Seq({e \in edges : e.from = id})
<1> DEFINE S == {e \in edges : e.from = id}
           B(d, e) == TypeBefore(d, e) \/ (d.type = e.type /\ d.to < e.to)
           before == [e \in S |-> Cardinality({d \in S : B(d, e)})]
           q == [i \in 1..Cardinality(S) |-> CHOOSE e \in S : before[e] = i - 1]
           other == [e \in S |-> e.to]
           R == TypesInOrder(S, other)
<1>1. ListEdgesFrom(edges, id, limit) = Truncate(q, limit)
  BY DEF ListEdgesFrom, FirstRows, Sorted
<1>2. S \subseteq Edges /\ IsFiniteSet(S)
  BY EdgesAssumption, FS_Subset
<1>3. \A e \in S : e.to \in Int /\ e.from = id
  BY <1>2, EdgesAssumption, IdsAreNumbers
<1>4. \A d, e \in S : <<d, e>> \in R <=> B(d, e)
  BY DEF TypesInOrder
<1>5. StrictOrder(R, S)
  <2>1. other \in [S -> Int]
    BY <1>3
  <2>2. \A d, e \in S : d.type = e.type /\ other[d] = other[e] => d = e
    BY <1>2, EdgesAssumption
  <2> HIDE DEF other, S
  <2> QED
    BY <1>2, <2>1, <2>2, EdgesInOrder
<1> HIDE DEF R, B, S
<1>6. \A e \in S : before[e] = Cardinality(BelowIn(R, S, e))
  <2>1. ASSUME NEW e \in S
        PROVE  {d \in S : B(d, e)} = BelowIn(R, S, e)
    BY <1>4 DEF BelowIn
  <2> QED
    BY <2>1
<1> HIDE DEF before
<1>7. \A i \in 1..Cardinality(S) : (\E e \in S : before[e] = i - 1) => q[i] \in S /\ before[q[i]] = i - 1
  OBVIOUS
<1>8. FunctionOn(q, 1..Cardinality(S))
  BY DEF FunctionOn
<1> HIDE DEF q
<1>9. InOrder(q, R, S)
  BY <1>2, <1>5, <1>6, <1>7, <1>8, ChosenInOrder
<1>10. Truncate(q, limit) \in Seq(S)
  BY <1>9, TruncateSeq DEF InOrder
<1> QED
  BY <1>1, <1>10 DEF S

LEMMA EdgesToAreEdges ==
  ASSUME NEW edges, edges \subseteq Edges, NEW id, NEW limit \in Nat
  PROVE  ListEdgesTo(edges, id, limit) \in Seq({e \in edges : e.to = id})
<1> DEFINE S == {e \in edges : e.to = id}
           B(d, e) == TypeBefore(d, e) \/ (d.type = e.type /\ d.from < e.from)
           before == [e \in S |-> Cardinality({d \in S : B(d, e)})]
           q == [i \in 1..Cardinality(S) |-> CHOOSE e \in S : before[e] = i - 1]
           other == [e \in S |-> e.from]
           R == TypesInOrder(S, other)
<1>1. ListEdgesTo(edges, id, limit) = Truncate(q, limit)
  BY DEF ListEdgesTo, FirstRows, Sorted
<1>2. S \subseteq Edges /\ IsFiniteSet(S)
  BY EdgesAssumption, FS_Subset
<1>3. \A e \in S : e.from \in Int /\ e.to = id
  BY <1>2, EdgesAssumption, IdsAreNumbers
<1>4. \A d, e \in S : <<d, e>> \in R <=> B(d, e)
  BY DEF TypesInOrder
<1>5. StrictOrder(R, S)
  <2>1. other \in [S -> Int]
    BY <1>3
  <2>2. \A d, e \in S : d.type = e.type /\ other[d] = other[e] => d = e
    BY <1>2, EdgesAssumption
  <2> HIDE DEF other, S
  <2> QED
    BY <1>2, <2>1, <2>2, EdgesInOrder
<1> HIDE DEF R, B, S
<1>6. \A e \in S : before[e] = Cardinality(BelowIn(R, S, e))
  <2>1. ASSUME NEW e \in S
        PROVE  {d \in S : B(d, e)} = BelowIn(R, S, e)
    BY <1>4 DEF BelowIn
  <2> QED
    BY <2>1
<1> HIDE DEF before
<1>7. \A i \in 1..Cardinality(S) : (\E e \in S : before[e] = i - 1) => q[i] \in S /\ before[q[i]] = i - 1
  OBVIOUS
<1>8. FunctionOn(q, 1..Cardinality(S))
  BY DEF FunctionOn
<1> HIDE DEF q
<1>9. InOrder(q, R, S)
  BY <1>2, <1>5, <1>6, <1>7, <1>8, ChosenInOrder
<1>10. Truncate(q, limit) \in Seq(S)
  BY <1>9, TruncateSeq DEF InOrder
<1> QED
  BY <1>1, <1>10 DEF S

LEMMA PercentIsInt ==
  ASSUME NEW score \in Int, NEW p \in Int
  PROVE  Percent(score, p) \in Int
<1>1. score * p \in Int /\ 100 \in Int /\ 100 > 0
  OBVIOUS
<1> QED
  BY <1>1, Divides DEF Percent

LEMMA EdgePercents ==
  ASSUME NEW e \in Edges
  PROVE  /\ ConfidencePercent(e.type) \in Int /\ ResolutionPercent(e.resolution) \in Int
         /\ EvidencePercent(e.evidence) \in Int /\ EdgeWeight(e.type) \in Int
<1>1. e.evidence \in Nat
  BY EdgesAssumption
<1>2. EvidencePercent(e.evidence) \in Int
  <2> DEFINE table == <<117, 127, 134, 140, 144, 148, 151, 154, 157, 159, 162, 164, 165, 167, 169, 170, 172, 173, 174, 175>>
  <2>1. Len(table) = 20 /\ \A i \in 1..20 : table[i] \in Int
    OBVIOUS
  <2>2. e.evidence # 0 => Least(e.evidence, 20) \in 1..20
    BY <1>1 DEF Least
  <2>3. EvidencePercent(e.evidence) = IF e.evidence = 0 THEN 100 ELSE table[Least(e.evidence, Len(table))]
    BY DEF EvidencePercent
  <2> HIDE DEF table
  <2> QED
    BY <2>1, <2>2, <2>3
<1>3. ConfidencePercent(e.type) \in Int
  BY DEF ConfidencePercent
<1>4. ResolutionPercent(e.resolution) \in Int
  BY DEF ResolutionPercent
<1>5. EdgeWeight(e.type) \in Int
  BY DEF EdgeWeight
<1> QED
  BY <1>2, <1>3, <1>4, <1>5

LEMMA ExpandedScoreIsInt ==
  ASSUME NEW e \in Edges, NEW parent \in Int
  PROVE  ExpandedScore(parent, e) \in Int
<1>1. Percent(parent, 80) \in Int
  BY PercentIsInt
<1>2. Percent(Percent(parent, 80), ConfidencePercent(e.type)) \in Int
  BY <1>1, EdgePercents, PercentIsInt
<1>3. Percent(Percent(Percent(parent, 80), ConfidencePercent(e.type)), EvidencePercent(e.evidence)) \in Int
  BY <1>2, EdgePercents, PercentIsInt
<1> QED
  BY <1>3, EdgePercents, PercentIsInt DEF ExpandedScore

(* The other end of an edge of a symbol: the symbol itself only by a loop. *)
Ends(id) == {n \in [id : Ids, score : Int] : \E e \in Edges : {n.id, id} = {e.from, e.to}}

LEMMA RelatedEnds ==
  ASSUME NEW edges, edges \subseteq Edges, NEW h \in Hits
  PROVE  Related(edges, h) \in Seq(Ends(h.id))
<1> DEFINE list == RelatedEdges(edges, h.id)
           calls == Sym[h.id].kind \in CallKinds
           S == {e \in Edges : h.id = IF calls THEN e.from ELSE e.to}
           f == [i \in DOMAIN list |-> [id |-> IF calls THEN list[i].to ELSE list[i].from,
                                        score |-> ExpandedScore(h.score, list[i])]]
<1>1. list \in Seq(S)
  <2> DEFINE from == ListEdgesFrom(edges, h.id, 5)
             to == ListEdgesTo(edges, h.id, 5)
             K == {i \in DOMAIN from : from[i].type = "call"}
             L == {i \in DOMAIN to : to[i].type \in TypeUses}
  <2>1. list = IF calls THEN Taken(from, K) ELSE IF Sym[h.id].kind \in TypeKinds THEN Taken(to, L) ELSE <<>>
    BY DEF RelatedEdges, Select, Taken
  <2>2. CASE calls
    <3>1. from \in Seq({e \in edges : e.from = h.id})
      BY EdgesFromAreEdges
    <3>2. {e \in edges : e.from = h.id} \subseteq S
      BY <2>2
    <3> HIDE DEF from, S
    <3>3. from \in Seq(S)
      BY <3>1, <3>2, SeqMonotonic
    <3>4. Taken(from, K) \in Seq(S)
      BY <3>3, TakenPicks
    <3> QED
      BY <2>1, <2>2, <3>4
  <2>3. CASE ~calls
    <3>1. to \in Seq({e \in edges : e.to = h.id})
      BY EdgesToAreEdges
    <3>2. {e \in edges : e.to = h.id} \subseteq S
      BY <2>3
    <3> HIDE DEF to, S
    <3>3. to \in Seq(S)
      BY <3>1, <3>2, SeqMonotonic
    <3>4. Taken(to, L) \in Seq(S) /\ <<>> \in Seq(S)
      BY <3>3, TakenPicks, EmptySeq
    <3> HIDE DEF L, list, calls
    <3> QED
      BY <2>1, <2>3, <3>4
  <2> QED
    BY <2>2, <2>3
<1>2. Related(edges, h) = f
  BY DEF Related
<1> HIDE DEF list, calls
<1>3. ASSUME NEW i \in DOMAIN list
      PROVE  f[i] \in Ends(h.id)
  <2> DEFINE e == list[i]
             n == [id |-> IF calls THEN e.to ELSE e.from, score |-> ExpandedScore(h.score, e)]
  <2>1. e \in S
    BY <1>1, SeqFacts
  <2> HIDE DEF e
  <2>2. e \in Edges /\ e.from \in Ids /\ e.to \in Ids
    BY <2>1, EdgesAssumption, IdsAreNumbers
  <2>3. ExpandedScore(h.score, e) \in Int
    BY <2>2, HitFacts, ExpandedScoreIsInt
  <2>4. n \in [id : Ids, score : Int]
    BY <2>2, <2>3
  <2>5. {n.id, h.id} = {e.from, e.to}
    BY <2>1
  <2>6. f[i] = n
    BY DEF e
  <2> QED
    BY <2>2, <2>4, <2>5, <2>6 DEF Ends
<1>4. f = [i \in DOMAIN list |-> f[i]]
  OBVIOUS
<1> HIDE DEF f, S
<1>5. f \in Seq(Ends(h.id))
  BY <1>1, <1>3, <1>4, MappedSeq
<1> QED
  BY <1>2, <1>5

LEMMA NeighboursOfHits ==
  ASSUME NEW edges, edges \subseteq Edges, NEW hits \in Seq(Hits)
  PROVE  Neighbours(edges, hits) \in Seq(UNION {Ends(id) : id \in IdsOf(hits)})
<1> DEFINE m == Least(3, Len(hits))
           S == UNION {Ends(id) : id \in IdsOf(hits)}
           seqs == [i \in 1..m |-> Related(edges, hits[i])]
<1>1. m \in Nat /\ \A i \in 1..m : i \in DOMAIN hits
  BY SeqFacts DEF Least
<1>2. Neighbours(edges, hits) = FlattenSeq(seqs)
  BY DEF Neighbours
<1> HIDE DEF m
<1>3. ASSUME NEW i \in 1..m
      PROVE  Related(edges, hits[i]) \in Seq(S)
  <2>1. hits[i] \in Hits /\ hits[i].id \in IdsOf(hits)
    BY <1>1, IdsOfHits
  <2>2. Related(edges, hits[i]) \in Seq(Ends(hits[i].id))
    BY <2>1, RelatedEnds
  <2>3. Ends(hits[i].id) \subseteq S
    BY <2>1
  <2> HIDE DEF S
  <2> QED
    BY <2>2, <2>3, SeqMonotonic
<1> HIDE DEF S
<1>4. seqs \in [1..m -> Seq(S)]
  BY <1>3
<1> HIDE DEF seqs
<1>5. seqs \in Seq(Seq(S))
  BY <1>1, <1>4, FunctionIsSeq
<1>6. FlattenSeq(seqs) \in Seq(S)
  BY <1>5, FlattenIsSeq
<1> QED
  BY <1>2, <1>6 DEF S

(* The hits so far: what was added is linked, what was there is still there. *)
Joins(r, hits) ==
    {acc \in [hits : Seq(Hits), ids : SUBSET Ids] :
        acc.hits \in ListsOf(AnswerIds(r, acc.ids)) /\ IdsOf(hits) \subseteq IdsOf(acc.hits)}

LEMMA AppendList ==
  ASSUME NEW P, NEW s \in ListsOf(P), NEW h \in Hits, NEW Q, h.id \in Q,
         h.id \notin IdsOf(s), \A i \in DOMAIN s : s[i].id \in Q
  PROVE  Append(s, h) \in ListsOf(Q) /\ IdsOf(Append(s, h)) = IdsOf(s) \cup {h.id}
<1> DEFINE t == Append(s, h)
           k == Len(s) + 1
<1>1. s \in Seq(Hits) /\ OncePerId(s)
  BY ListFacts
<1>2. /\ t \in Seq(Hits) /\ DOMAIN t = DOMAIN s \cup {k} /\ k \notin DOMAIN s
      /\ t[k] = h /\ \A i \in DOMAIN s : t[i] = s[i]
  BY <1>1, AppendFacts
<1> HIDE DEF t, k
<1>3. \A i \in DOMAIN s : t[i].id \in IdsOf(s) /\ t[i].id # h.id
  BY <1>1, <1>2, IdsOfHits
<1>4. ASSUME NEW i \in DOMAIN t, NEW j \in DOMAIN t, t[i].id = t[j].id
      PROVE  i = j
  BY <1>1, <1>2, <1>3, <1>4 DEF OncePerId
<1>5. \A i \in DOMAIN t : t[i].id \in Q
  BY <1>2
<1>6. t \in ListsOf(Q)
  BY <1>2, <1>4, <1>5 DEF ListsOf, OncePerId
<1>7. IdsOf(t) = IdsOf(s) \cup {h.id}
  BY <1>2 DEF IdsOf
<1> QED
  BY <1>6, <1>7 DEF t

LEMMA AddNewJoins ==
  ASSUME NEW r, NEW hits \in ListsOf(Passing(r)), NEW acc \in Joins(r, hits),
         NEW n \in UNION {Ends(id) : id \in IdsOf(hits)}, NEW present
  PROVE  AddNew(acc, n, present) \in Joins(r, hits)
<1>1. /\ acc.hits \in Seq(Hits) /\ acc.ids \in SUBSET Ids
      /\ acc.hits \in ListsOf(AnswerIds(r, acc.ids)) /\ IdsOf(hits) \subseteq IdsOf(acc.hits)
  BY DEF Joins
<1>2. PICK id \in IdsOf(hits) : n \in Ends(id)
  OBVIOUS
<1>3. n.id \in Ids /\ n.score \in Int /\ \E e \in Edges : {n.id, id} = {e.from, e.to}
  BY <1>2 DEF Ends
<1>4. id \in Passing(r) /\ hits \in Seq(Hits)
  BY ListFacts, IdsOfHits
<1>5. CASE n.id \in IdsOf(acc.hits)
  BY <1>5 DEF AddNew
<1>6. CASE n.id \notin IdsOf(acc.hits)
  <2> DEFINE h == Hit(n.id, n.score, Sym[n.id].lang)
             ids == acc.ids \cup {n.id}
  <2>1. n.id # id
    BY <1>1, <1>2, <1>6
  <2>2. n.id \in Linked(r)
    BY <1>3, <1>4, <2>1 DEF Linked
  <2>3. h \in Hits /\ h.id = n.id
    BY <1>3, HitIsHit
  <2> HIDE DEF h
  <2>4. \A i \in DOMAIN acc.hits : acc.hits[i].id \in AnswerIds(r, acc.ids) /\ acc.hits[i].id # n.id
    BY <1>1, <1>6, ListFacts, IdsOfHits
  <2>5. \A i \in DOMAIN acc.hits : acc.hits[i].id \in AnswerIds(r, ids)
    BY <2>4 DEF AnswerIds
  <2>6. n.id \in AnswerIds(r, ids)
    BY <2>2 DEF AnswerIds
  <2>7. ids \in SUBSET Ids
    BY <1>1, <1>3
  <2> DEFINE t == Append(acc.hits, h)
             Q == AnswerIds(r, ids)
  <2> HIDE DEF ids
  <2>8. t \in ListsOf(Q) /\ IdsOf(t) = IdsOf(acc.hits) \cup {h.id}
    BY <1>1, <1>6, <2>3, <2>5, <2>6, AppendList
  <2>9. t \in Seq(Hits) /\ IdsOf(hits) \subseteq IdsOf(t)
    BY <1>1, <2>8, ListFacts
  <2>10. Add(acc, n) = [hits |-> t, ids |-> ids]
    BY DEF Add, h, ids
  <2> HIDE DEF t
  <2>11. Add(acc, n) \in Joins(r, hits)
    BY <2>7, <2>8, <2>9, <2>10 DEF Joins
  <2> QED
    BY <2>11 DEF AddNew
<1> QED
  BY <1>5, <1>6

(* What is left after all neighbours. *)
LEMMA JoinedHits ==
  ASSUME NEW r, NEW hits \in ListsOf(Passing(r)), NEW s \in Seq(UNION {Ends(id) : id \in IdsOf(hits)}),
         NEW present
  PROVE  Joined(hits, s, present) \in Joins(r, hits)
<1> DEFINE n == Len(s)
           Acc == Joins(r, hits)
           base == [hits |-> hits, ids |-> {}]
           Op(acc, x) == AddNew(acc, x, present)
           op == [p \in (1..n) \X Acc |-> Op(p[2], s[p[1]])]
           F(g) == [S \in SUBSET (1..n) |-> IF S = {} THEN base ELSE Op(g[S \ {Max(S)}], s[Max(S)])]
           iter == CHOOSE g : g = F(g)
<1>0. n \in Nat /\ DOMAIN s = 1..n /\ \A i \in 1..n : s[i] \in UNION {Ends(id) : id \in IdsOf(hits)}
  BY SeqFacts
<1>1. Joined(hits, s, present) = iter[1..n]
  BY <1>0 DEF Joined, FoldLeft, MapThenFoldSet
<1>2. base \in Acc
  <2>1. hits \in ListsOf(AnswerIds(r, {}))
    BY DEF AnswerIds, ListsOf
  <2>2. hits \in Seq(Hits)
    BY ListFacts
  <2> QED
    BY <2>1, <2>2 DEF Joins
<1>3. ASSUME NEW i \in 1..n, NEW acc \in Acc
      PROVE  Op(acc, s[i]) \in Acc
  <2>1. s[i] \in UNION {Ends(id) : id \in IdsOf(hits)}
    BY <1>0
  <2> QED
    BY <2>1, AddNewJoins
<1> HIDE DEF Op, base, Acc, n
<1>4. op \in [(1..n) \X Acc -> Acc]
  BY <1>3
<1>5. PICK g \in [SUBSET (1..n) -> Acc] : Folds(g, n, base, op)
  <2> HIDE DEF op
  <2> QED
    BY <1>0, <1>2, <1>4, FoldExists, Zenon
<1>6. ASSUME NEW S \in SUBSET (1..n), S # {}
      PROVE  op[<<Max(S), g[S \ {Max(S)}]>>] = Op(g[S \ {Max(S)}], s[Max(S)])
  <2>1. Max(S) \in 1..n /\ S \ {Max(S)} \in SUBSET (1..n)
    BY <1>0, <1>6, GreatestOf
  <2>2. g[S \ {Max(S)}] \in Acc
    BY <2>1
  <2> QED
    BY <2>1, <2>2
<1> HIDE DEF op
<1>7. g = F(g)
  BY <1>5, <1>6 DEF Folds
<1>8. iter = F(iter)
  <2> HIDE DEF F
  <2> QED
    BY <1>7
<1> HIDE DEF iter
<1> DEFINE G == {i \in 0..n : iter[1..i] \in Acc}
<1>9. 0 \in G
  <2>1. 1..0 = {} /\ 0 \in 0..n /\ {} \in SUBSET (1..n)
    BY <1>0
  <2>2. iter[{}] = base
    BY <1>8, <2>1
  <2> QED
    BY <1>2, <2>1, <2>2
<1>10. ASSUME NEW i \in 1..n, i - 1 \in G
       PROVE  i \in G
  <2>1. 1..i \in SUBSET (1..n) /\ 1..i # {} /\ Max(1..i) = i /\ (1..i) \ {i} = 1..(i - 1)
    BY <1>0, UpTo
  <2>2. \A S \in SUBSET (1..n) : S # {} => iter[S] = Op(iter[S \ {Max(S)}], s[Max(S)])
    BY <1>8
  <2>3. iter[1..i] = Op(iter[1..(i - 1)], s[i])
    BY <2>1, <2>2
  <2>4. i \in 0..n /\ iter[1..(i - 1)] \in Acc
    BY <1>0, <1>10
  <2> QED
    BY <1>3, <2>3, <2>4
<1> HIDE DEF G
<1>11. n \in G
  <2>1. \A i \in 1..n : i - 1 \in G => i \in G
    BY <1>10
  <2> QED
    BY <1>0, <1>9, <2>1, ReachedEnd, Zenon
<1> QED
  BY <1>1, <1>11 DEF G, Acc

LEMMA ExpandedList ==
  ASSUME NEW r, NEW hits \in ListsOf(Passing(r)), NEW limit \in Nat, NEW edges, edges \subseteq Edges, NEW present
  PROVE  LET e == ExpandWithEdges(hits, limit, edges, present)
         IN  /\ e = [hits |-> e.hits, ids |-> e.ids]
             /\ e.hits \in ListsOf(AnswerIds(r, e.ids)) /\ Len(e.hits) <= limit /\ Descending(e.hits)
<1> DEFINE end == Joined(hits, Neighbours(edges, hits), present)
           all == SortHits(end.hits, ByScore)
           t == Truncate(all, limit)
<1>1. hits \in Seq(Hits)
  BY ListFacts
<1>2. end \in Joins(r, hits)
  BY <1>1, NeighboursOfHits, JoinedHits
<1>3. ExpandWithEdges(hits, limit, edges, present) = [hits |-> t, ids |-> end.ids]
  BY DEF ExpandWithEdges
<1> HIDE DEF end
<1>4. all \in ListsOf(AnswerIds(r, end.ids)) /\ Descending(all)
  BY <1>2, ScoredList DEF Joins
<1> HIDE DEF all
<1>5. t \in ListsOf(AnswerIds(r, end.ids))
  BY <1>4, TruncateList
<1>6. all \in Seq(Hits) /\ Len(all) \in Nat /\ DOMAIN all = 1..Len(all) /\ \A i \in DOMAIN all : all[i].score \in Int
  BY <1>4, ListFacts, HitFacts
<1>7. /\ Len(t) = Least(limit, Len(all)) /\ DOMAIN t = 1..Least(limit, Len(all))
      /\ \A i \in DOMAIN t : t[i] = all[i]
  BY <1>6, TruncateSeq
<1> HIDE DEF t
<1>8. Len(t) \in Nat /\ Len(t) <= limit /\ Len(t) <= Len(all) /\ DOMAIN t = 1..Len(t)
  BY <1>6, <1>7 DEF Least
<1>9. ASSUME NEW i \in 1..(Len(t) - 1)
      PROVE  t[i].score >= t[i + 1].score
  <2>1. i \in 1..(Len(all) - 1) /\ i \in DOMAIN t /\ i + 1 \in DOMAIN t
    BY <1>6, <1>8
  <2>2. all[i].score >= all[i + 1].score
    BY <1>4, <2>1 DEF Descending
  <2> QED
    BY <1>7, <2>1, <2>2
<1>10. Descending(t)
  BY <1>9 DEF Descending
<1> QED
  BY <1>3, <1>5, <1>8, <1>10

-----------------------------------------------------------------------------
(* What the stages of a search compute. *)

LEMMA RequestFacts ==
  ASSUME Request \in Requests
  PROVE  /\ Request.query \in Queries /\ Request.limit \in Nat \ {0}
         /\ Parsed.text \in Texts /\ Expanded \in Texts /\ SubQueries \in Seq(Texts) /\ Pool \in Nat
<1>1. Request.query \in Queries /\ Request.limit \in Nat \ {0}
  BY RequestsAssumption DEF Queries, Vocabulary
<1>2. Parsed.text \in Texts
  BY <1>1, ParsedText DEF Parsed
<1>3. Expanded \in Texts
  BY <1>2, ExpandedText DEF Expanded
<1>4. SubQueries \in Seq(Texts)
  BY <1>3, DecomposedQuery DEF SubQueries
<1>5. Pool \in Nat
  <2>1. VectorLimit \in Nat /\ 3 * Request.limit \in Nat
    BY <1>1, StoresAssumption
  <2>2. Most(VectorLimit, Most(3 * Request.limit, 40)) \in Nat
    BY <2>1 DEF Most
  <2>3. PoolSize(SubQueries[1], Request.limit, VectorLimit) \in Nat
    BY <1>1, <2>1 DEF PoolSize
  <2> QED
    BY <2>2, <2>3 DEF Pool
<1> QED
  BY <1>1, <1>2, <1>3, <1>4, <1>5

LEMMA RanksAreInts == RankOf \in [Ids -> Int]
<1>1. Metrics \in [SymbolIds -> Nat] /\ Ids = SymbolIds
  BY StoresAssumption, IdsAreNumbers
<1>2. \A id \in Ids : (IF id \in rows THEN Metrics[id] ELSE 0) \in Int
  BY <1>1
<1> QED
  BY <1>2 DEF RankOf

LEMMA VectorHitsSeq ==
  ASSUME NEW order \in VectorOrders, Request \in Requests
  PROVE  VectorHits(order) \in Seq(Hits)
<1> DEFINE K == {i \in DOMAIN order : order[i] \in vecs}
           found == Taken(order, K)
           f == [i \in DOMAIN found |-> Hit(found[i], Unit \div i, Sym[found[i]].lang)]
<1>1. order \in Seq(Ids)
  BY StoresAssumption, IdsAreNumbers
<1>2. VectorHits(order) = Truncate(f, Pool)
  BY DEF VectorHits, Select, Taken
<1>3. found \in Seq(Ids)
  BY <1>1, TakenPicks
<1> HIDE DEF found
<1>4. ASSUME NEW i \in DOMAIN found
      PROVE  f[i] \in Hits
  <2>1. i \in Int /\ i > 0 /\ found[i] \in Ids
    BY <1>3, SeqFacts
  <2>2. Unit \in Int
    BY RankingAssumption
  <2>3. Unit \div i \in Int
    BY <2>1, <2>2, Divides
  <2> QED
    BY <2>1, <2>3, HitIsHit
<1>5. f = [i \in DOMAIN found |-> f[i]]
  OBVIOUS
<1> HIDE DEF f
<1>6. f \in Seq(Hits)
  BY <1>3, <1>4, <1>5, MappedSeq
<1> QED
  BY <1>2, <1>6, RequestFacts, TruncateSeq

LEMMA FusedIsList ==
  ASSUME Request \in Requests, SubQueries # <<>>, search.keyword \in Seq(Hits), search.vector \in Seq(Hits)
  PROVE  Fused \in ListsOf(Ids)
<1>1. GraphRankedHits(search.keyword, RankOf) \in Seq(Hits)
  BY RanksAreInts, GraphRankedSeq
<1>2. ReciprocalRankFusion(search.keyword, search.vector, GraphRankedHits(search.keyword, RankOf)) \in ListsOf(Ids)
  BY <1>1, FusedList
<1>3. SubQueries[1] \in Seq(Vocabulary)
  <2>1. SubQueries \in Seq(Texts)
    BY RequestFacts
  <2>2. 1 \in DOMAIN SubQueries
    BY <2>1, SeqFacts
  <2> QED
    BY <2>1, <2>2, SeqFacts DEF Texts
<1>4. RankHits(search.keyword, search.vector, Intent.class, SubQueries[1]) \in ListsOf(Ids)
  BY <1>3, RankedByScore
<1> QED
  BY <1>2, <1>4 DEF Fused

LEMMA FilteredList ==
  ASSUME NEW all \in ListsOf(Ids), Request \in Requests
  PROVE  Select(FilterHitsByControls(all, Parsed.controls), LAMBDA h : Request.exported => Sym[h.id].exported)
           \in ListsOf(Passing(Request))
<1> DEFINE controls == Parsed.controls
           Kept(h) == /\ controls["lang"] \in {None, h.lang}
                      /\ KindMatches(h.id, controls["kind"])
                      /\ PathMatches(h.id, controls["path"])
                      /\ PathMatches(h.id, controls["file"])
           K == {i \in DOMAIN all : Kept(all[i])}
           kept == Taken(all, K)
           L == {i \in DOMAIN kept : Request.exported => Sym[kept[i].id].exported}
           Matching == {id \in Ids : /\ controls["lang"] \in {None, Sym[id].lang}
                                     /\ KindMatches(id, controls["kind"])
                                     /\ PathMatches(id, controls["path"])
                                     /\ PathMatches(id, controls["file"])}
<1>1. FilterHitsByControls(all, Parsed.controls) = kept
  BY DEF FilterHitsByControls, Select, Taken
<1>2. \A i \in K : all[i].id \in Matching
  <2>1. ASSUME NEW i \in K
        PROVE  all[i].id \in Matching
    <3>1. all[i] \in Hits /\ Kept(all[i])
      BY ListFacts
    <3>2. all[i].id \in Ids /\ all[i].lang \in {"", Sym[all[i].id].lang}
      BY <3>1, HitFacts
    <3>3. controls["lang"] = None \/ controls["lang"] # ""
      BY RequestFacts, ParsedLang DEF Parsed
    <3>4. controls["lang"] \in {None, Sym[all[i].id].lang}
      BY <3>1, <3>2, <3>3
    <3> HIDE DEF controls
    <3> QED
      BY <3>1, <3>2, <3>4, Zenon
  <2> QED
    BY <2>1
<1> HIDE DEF K, Matching
<1>3. K \in SUBSET DOMAIN all
  BY DEF K
<1>4. kept \in ListsOf(Matching)
  BY <1>2, <1>3, TakenList
<1> HIDE DEF kept
<1>5. \A i \in L : kept[i].id \in Passing(Request)
  <2>1. ASSUME NEW i \in L
        PROVE  kept[i].id \in Passing(Request)
    <3>1. kept[i].id \in Matching
      BY <1>4, ListFacts
    <3>2. Request.exported => Sym[kept[i].id].exported
      OBVIOUS
    <3> QED
      BY <3>1, <3>2, Zenon DEF Passing, Passes, Matching, controls, Parsed
  <2> QED
    BY <2>1
<1>6. Select(kept, LAMBDA h : Request.exported => Sym[h.id].exported) = Taken(kept, L)
  BY DEF Select, Taken
<1>7. L \in SUBSET DOMAIN kept
  OBVIOUS
<1> HIDE DEF L
<1>8. Taken(kept, L) \in ListsOf(Passing(Request))
  BY <1>4, <1>5, <1>7, TakenList
<1> QED
  BY <1>1, <1>6, <1>8

LEMMA CallersList ==
  ASSUME NEW name, Request \in Requests
  PROVE  LET hits == CallersOf(name)
         IN  /\ hits \in Seq(Hits) /\ Len(hits) <= Request.limit /\ OncePerId(hits) /\ Descending(hits)
             /\ \A i \in DOMAIN hits : Request.exported => Sym[hits[i].id].exported
<1> DEFINE target == ExactTarget(name)
           limit == Request.limit
           edges == ListEdgesTo(RowEdges, target, 2 * limit)
           Wanted(e) == /\ e.type \in {"call", "reference"}
                        /\ Request.exported => Sym[e.from].exported
           K == {i \in DOMAIN edges : Wanted(edges[i])}
           listed == Taken(edges, K)
           S == {e \in Edges : Request.exported => Sym[e.from].exported}
           L == {i \in DOMAIN listed : \A j \in 1..(i - 1) : listed[j].from # listed[i].from}
           first == Taken(listed, L)
           f == [k \in DOMAIN first |-> Hit(first[k].from, Unit, Sym[first[k].from].lang)]
           res == Truncate(f, limit)
<1>1. limit \in Nat
  BY RequestFacts
<1>2. edges \in Seq(RowEdges)
  <2>1. RowEdges \subseteq Edges /\ 2 * limit \in Nat
    BY <1>1 DEF RowEdges
  <2>2. edges \in Seq({e \in RowEdges : e.to = target})
    BY <2>1, EdgesToAreEdges
  <2>3. {e \in RowEdges : e.to = target} \subseteq RowEdges
    OBVIOUS
  <2> HIDE DEF edges
  <2> QED
    BY <2>2, <2>3, SeqMonotonic
<1>3. CallersOf(name) = IF RowsNamed(name) = {} THEN <<>> ELSE res
  <2> DEFINE once == Sorted(L, LAMBDA i, j : i < j)
             HitOf(e) == Hit(e.from, Unit, Sym[e.from].lang)
  <2>1. Select(edges, LAMBDA e : /\ e.type \in {"call", "reference"}
                                 /\ Request.exported => Sym[e.from].exported) = listed
    BY DEF Select, Taken
  <2> HIDE DEF listed
  <2>2. first = [k \in DOMAIN once |-> listed[once[k]]]
    BY DEF Taken
  <2>3. f = [k \in DOMAIN once |-> HitOf(listed[once[k]])]
    BY <2>2
  <2> HIDE DEF first, f
  <2> QED
    BY <2>1, <2>3 DEF CallersOf
<1>4. listed \in Seq(RowEdges) /\ Picks(listed, edges, K)
  <2> HIDE DEF edges
  <2> QED
    BY <1>2, TakenPicks
<1>5. \A i \in DOMAIN listed : listed[i] \in S
  <2>1. PICK at \in [DOMAIN listed -> K] : \A k \in DOMAIN listed : listed[k] = edges[at[k]]
    <3> HIDE DEF listed, edges, K
    <3> QED
      BY <1>4 DEF Picks
  <2>2. ASSUME NEW i \in DOMAIN listed
        PROVE  listed[i] \in S
    <3> HIDE DEF listed
    <3>1. at[i] \in K /\ listed[i] = edges[at[i]] /\ listed[i] \in RowEdges
      BY <1>4, <2>1, SeqFacts
    <3>2. Wanted(listed[i])
      BY <3>1
    <3>3. listed[i] \in Edges
      BY <3>1 DEF RowEdges
    <3> QED
      BY <3>2, <3>3
  <2> QED
    BY <2>2
<1> HIDE DEF listed, S
<1>6. listed \in Seq(S) /\ Len(listed) \in Nat /\ DOMAIN listed = 1..Len(listed)
  <2>1. Len(listed) \in Nat /\ DOMAIN listed = 1..Len(listed) /\ listed = [i \in 1..Len(listed) |-> listed[i]]
    BY <1>4, SeqFacts
  <2>2. listed \in [1..Len(listed) -> S]
    BY <1>5, <2>1
  <2> QED
    BY <2>1, <2>2, FunctionIsSeq
<1>7. first \in Seq(S) /\ Picks(first, listed, L)
  BY <1>6, TakenPicks
<1>8. ASSUME NEW j \in DOMAIN first, NEW k \in DOMAIN first, first[j].from = first[k].from
      PROVE  j = k
  <2>1. PICK at \in [DOMAIN first -> L] :
          /\ \A x \in DOMAIN first : first[x] = listed[at[x]]
          /\ \A x, y \in DOMAIN first : x < y <=> at[x] < at[y]
    <3> HIDE DEF first, L
    <3> QED
      BY <1>7 DEF Picks
  <2> HIDE DEF first
  <2>2. at[j] \in L /\ at[k] \in L /\ listed[at[j]].from = listed[at[k]].from
    BY <1>8, <2>1
  <2>3. at[j] \in 1..Len(listed) /\ at[k] \in 1..Len(listed)
    BY <1>6, <2>2
  <2>4. ~(at[j] < at[k])
    <3>1. at[j] < at[k] => at[j] \in 1..(at[k] - 1)
      BY <1>6, <2>3
    <3> QED
      BY <2>2, <3>1
  <2>5. ~(at[k] < at[j])
    <3>1. at[k] < at[j] => at[k] \in 1..(at[j] - 1)
      BY <1>6, <2>3
    <3> QED
      BY <2>2, <3>1
  <2>6. j \in Int /\ k \in Int
    BY <1>7, SeqFacts
  <2> QED
    BY <2>1, <2>4, <2>5, <2>6
<1> HIDE DEF first
<1>9. ASSUME NEW k \in DOMAIN first
      PROVE  /\ f[k] \in Hits /\ f[k].id = first[k].from /\ f[k].score = Unit
             /\ Request.exported => Sym[f[k].id].exported
  <2>1. first[k] \in S
    BY <1>7, SeqFacts
  <2>2. first[k] \in Edges /\ (Request.exported => Sym[first[k].from].exported)
    BY <2>1 DEF S
  <2>3. first[k].from \in Ids /\ Unit \in Int
    BY <2>2, EdgesAssumption, IdsAreNumbers, RankingAssumption
  <2>4. f[k] \in Hits /\ f[k].id = first[k].from /\ f[k].score = Unit
    BY <2>3, HitIsHit
  <2> HIDE DEF f
  <2> QED
    BY <2>2, <2>4, Zenon
<1>10. f = [k \in DOMAIN first |-> f[k]]
  OBVIOUS
<1> HIDE DEF f
<1>11. f \in Seq(Hits) /\ DOMAIN f = DOMAIN first
  BY <1>7, <1>9, <1>10, MappedSeq
<1>12. /\ res \in Seq(Hits) /\ Len(res) = Least(limit, Len(f)) /\ DOMAIN res = 1..Len(res)
       /\ \A i \in DOMAIN res : i \in DOMAIN f /\ res[i] = f[i]
  BY <1>1, <1>11, TruncateSeq
<1> HIDE DEF res
<1>13. Len(res) <= limit /\ Len(res) \in Nat
  BY <1>1, <1>11, <1>12, SeqFacts DEF Least
<1>14. OncePerId(res)
  BY <1>8, <1>9, <1>11, <1>12 DEF OncePerId
<1>15. Descending(res)
  <2>1. ASSUME NEW i \in 1..(Len(res) - 1)
        PROVE  res[i].score >= res[i + 1].score
    <3>1. i \in DOMAIN res /\ i + 1 \in DOMAIN res
      BY <1>12, <1>13
    <3>2. res[i].score = Unit /\ res[i + 1].score = Unit
      BY <1>9, <1>11, <1>12, <3>1
    <3>3. Unit \in Int
      BY RankingAssumption
    <3> QED
      BY <3>2, <3>3
  <2> QED
    BY <2>1 DEF Descending
<1>16. \A i \in DOMAIN res : Request.exported => Sym[res[i].id].exported
  BY <1>9, <1>11, <1>12
<1>17. CASE RowsNamed(name) = {}
  <2>1. <<>> \in Seq(Hits) /\ Len(<<>>) = 0 /\ DOMAIN <<>> = {}
    BY EmptySeq
  <2>2. OncePerId(<<>>) /\ Descending(<<>>) /\ 0 <= Request.limit
    BY <1>1, <2>1 DEF OncePerId, Descending
  <2>3. CallersOf(name) = <<>>
    BY <1>3, <1>17
  <2> QED
    BY <2>1, <2>2, <2>3
<1>18. CASE RowsNamed(name) # {}
  <2>1. CallersOf(name) = res
    BY <1>3, <1>18
  <2> QED
    BY <1>12, <1>13, <1>14, <1>15, <1>16, <2>1
<1> QED
  BY <1>17, <1>18

-----------------------------------------------------------------------------
(* The text of an item. *)

LEMMA TokensAreInt ==
  ASSUME NEW text \in Seq(Lines)
  PROVE  Tokens(text) \in Int
<1> DEFINE f == [i \in DOMAIN text |-> text[i].tokens]
<1>1. Len(text) \in Nat /\ DOMAIN text = 1..Len(text) /\ \A i \in DOMAIN text : text[i] \in Lines
  BY SeqFacts
<1>2. \A i \in DOMAIN text : f[i] \in Int
  BY <1>1 DEF Lines
<1>3. f = [i \in 1..Len(text) |-> f[i]]
  BY <1>1
<1> HIDE DEF f
<1>4. Sum(f) \in Int
  BY <1>1, <1>2, <1>3, SumIsTyped
<1> QED
  BY <1>4 DEF Tokens, f

LEMMA RelevanceIsInt ==
  ASSUME NEW query \in Texts, NEW line
  PROVE  Relevance(line, query) \in Int
<1> DEFINE K == {i \in DOMAIN query : query[i] \in line.words}
<1>1. Len(query) \in Nat /\ K \in SUBSET (1..Len(query))
  BY SeqFacts DEF Texts
<1>2. Cardinality(K) \in Nat
  <2> HIDE DEF K
  <2> QED
    BY <1>1, PositionsFinite
<1> QED
  BY <1>2 DEF Relevance

LEMMA ByRelevanceSeq ==
  ASSUME NEW text \in Seq(Lines), NEW query \in Texts, Len(text) > HeaderLines + FooterLines
  PROVE  ByRelevance(text, query) \in Seq(DOMAIN text)
<1> DEFINE S == (HeaderLines + 1)..(Len(text) - FooterLines)
           B(a, b) == Relevance(text[a], query) > Relevance(text[b], query)
                        \/ (Relevance(text[a], query) = Relevance(text[b], query) /\ a < b)
           R == {p \in S \X S : B(p[1], p[2])}
           before == [e \in S |-> Cardinality({d \in S : B(d, e)})]
           q == [i \in 1..Cardinality(S) |-> CHOOSE e \in S : before[e] = i - 1]
           rel == [a \in S |-> Relevance(text[a], query)]
<1>1. ByRelevance(text, query) = q
  BY DEF ByRelevance, Sorted
<1>2. HeaderLines \in Nat /\ FooterLines \in Nat /\ Len(text) \in Nat /\ DOMAIN text = 1..Len(text)
  BY ContextAssumption, SeqFacts
<1>3. S \subseteq 1..Len(text) /\ S \subseteq Int
  BY <1>2
<1>4. IsFiniteSet(S)
  <2> HIDE DEF S
  <2> QED
    BY <1>2, <1>3, PositionsFinite
<1>5. \A a \in S : rel[a] \in Int /\ a \in Int
  BY <1>3, RelevanceIsInt
<1>6. \A a, b \in S : <<a, b>> \in R <=> rel[a] > rel[b] \/ (rel[a] = rel[b] /\ a < b)
  OBVIOUS
<1>7. \A a, b \in S : B(a, b) <=> <<a, b>> \in R
  OBVIOUS
<1> HIDE DEF R, B, rel, S
<1>8. StrictOrder(R, S)
  <2>1. \A a \in S : <<a, a>> \notin R
    BY <1>5, <1>6
  <2>2. \A a, b, c \in S : <<a, b>> \in R /\ <<b, c>> \in R => <<a, c>> \in R
    BY <1>5, <1>6
  <2>3. ASSUME NEW a \in S, NEW b \in S, a # b
        PROVE  <<a, b>> \in R \/ <<b, a>> \in R
    <3>1. a < b \/ b < a
      BY <1>5, <2>3
    <3>2. rel[a] > rel[b] \/ rel[b] > rel[a] \/ rel[a] = rel[b]
      BY <1>5
    <3> QED
      BY <1>6, <3>1, <3>2
  <2> QED
    BY <2>1, <2>2, <2>3 DEF StrictOrder
<1>9. \A e \in S : before[e] = Cardinality(BelowIn(R, S, e))
  <2>1. ASSUME NEW e \in S
        PROVE  {d \in S : B(d, e)} = BelowIn(R, S, e)
    BY <1>7 DEF BelowIn
  <2> QED
    BY <2>1
<1> HIDE DEF before
<1>10. \A i \in 1..Cardinality(S) : (\E e \in S : before[e] = i - 1) => q[i] \in S /\ before[q[i]] = i - 1
  OBVIOUS
<1>11. FunctionOn(q, 1..Cardinality(S))
  BY DEF FunctionOn
<1> HIDE DEF q
<1>12. q \in Seq(S)
  BY <1>4, <1>8, <1>9, <1>10, <1>11, ChosenInOrder DEF InOrder
<1> QED
  BY <1>1, <1>2, <1>3, <1>12, SeqMonotonic

LEMMA TakeLineTyped ==
  ASSUME NEW D, NEW acc \in [lines : SUBSET D, full : BOOLEAN], NEW i \in D, NEW text, NEW max
  PROVE  TakeLine(acc, i, text, max) \in [lines : SUBSET D, full : BOOLEAN]
BY DEF TakeLine

LEMMA TakeFooterTyped ==
  ASSUME NEW D, NEW lines \in SUBSET D, NEW i \in D, NEW text, NEW max
  PROVE  TakeFooter(lines, i, text, max) \in SUBSET D
BY DEF TakeFooter

(* The lines kept of the header and the middle. *)
LEMMA HeadAndMiddleLines ==
  ASSUME NEW text \in Seq(Lines), NEW query \in Texts, NEW max, Len(text) > HeaderLines + FooterLines
  PROVE  HeadAndMiddle(text, query, max) \in SUBSET DOMAIN text
<1> DEFINE D == DOMAIN text
           s == ByRelevance(text, query)
           n == Len(s)
           Acc == [lines : SUBSET D, full : BOOLEAN]
           base == [lines |-> 1..HeaderLines, full |-> FALSE]
           Op(acc, x) == TakeLine(acc, x, text, max)
           op == [p \in (1..n) \X Acc |-> Op(p[2], s[p[1]])]
           F(g) == [S \in SUBSET (1..n) |-> IF S = {} THEN base ELSE Op(g[S \ {Max(S)}], s[Max(S)])]
           iter == CHOOSE g : g = F(g)
<1>0. n \in Nat /\ DOMAIN s = 1..n /\ \A i \in 1..n : s[i] \in D
  BY ByRelevanceSeq, SeqFacts
<1>a. 1..HeaderLines \subseteq D
  BY ContextAssumption, SeqFacts
<1>1. HeadAndMiddle(text, query, max) = iter[1..n].lines
  BY <1>0 DEF HeadAndMiddle, FoldLeft, MapThenFoldSet
<1>2. base \in Acc
  BY <1>a
<1>3. ASSUME NEW i \in 1..n, NEW acc \in Acc
      PROVE  Op(acc, s[i]) \in Acc
  <2>1. s[i] \in D
    BY <1>0
  <2> QED
    BY <2>1, TakeLineTyped
<1> HIDE DEF Op, base, Acc, n, s, D
<1>4. op \in [(1..n) \X Acc -> Acc]
  BY <1>3
<1>5. PICK g \in [SUBSET (1..n) -> Acc] : Folds(g, n, base, op)
  <2> HIDE DEF op
  <2> QED
    BY <1>0, <1>2, <1>4, FoldExists, Zenon
<1>6. ASSUME NEW S \in SUBSET (1..n), S # {}
      PROVE  op[<<Max(S), g[S \ {Max(S)}]>>] = Op(g[S \ {Max(S)}], s[Max(S)])
  <2>1. Max(S) \in 1..n /\ S \ {Max(S)} \in SUBSET (1..n)
    BY <1>0, <1>6, GreatestOf
  <2>2. g[S \ {Max(S)}] \in Acc
    BY <2>1
  <2> QED
    BY <2>1, <2>2
<1> HIDE DEF op
<1>7. g = F(g)
  BY <1>5, <1>6 DEF Folds
<1>8. iter = F(iter)
  <2> HIDE DEF F
  <2> QED
    BY <1>7
<1> HIDE DEF iter
<1> DEFINE G == {i \in 0..n : iter[1..i] \in Acc}
<1>9. 0 \in G
  <2>1. 1..0 = {} /\ 0 \in 0..n /\ {} \in SUBSET (1..n)
    BY <1>0
  <2>2. iter[{}] = base
    BY <1>8, <2>1
  <2> QED
    BY <1>2, <2>1, <2>2
<1>10. ASSUME NEW i \in 1..n, i - 1 \in G
       PROVE  i \in G
  <2>1. 1..i \in SUBSET (1..n) /\ 1..i # {} /\ Max(1..i) = i /\ (1..i) \ {i} = 1..(i - 1)
    BY <1>0, UpTo
  <2>2. \A S \in SUBSET (1..n) : S # {} => iter[S] = Op(iter[S \ {Max(S)}], s[Max(S)])
    BY <1>8
  <2>3. iter[1..i] = Op(iter[1..(i - 1)], s[i])
    BY <2>1, <2>2
  <2>4. i \in 0..n /\ iter[1..(i - 1)] \in Acc
    BY <1>0, <1>10
  <2> QED
    BY <1>3, <2>3, <2>4
<1> HIDE DEF G
<1>11. n \in G
  <2>1. \A i \in 1..n : i - 1 \in G => i \in G
    BY <1>10
  <2> QED
    BY <1>0, <1>9, <2>1, ReachedEnd, Zenon
<1>12. iter[1..n] \in Acc
  BY <1>11 DEF G
<1> QED
  BY <1>1, <1>12 DEF Acc, D

(* Those and the lines kept of the footer. *)
LEMMA KeptLinesOfText ==
  ASSUME NEW text \in Seq(Lines), NEW query \in Texts, NEW max, Len(text) > HeaderLines + FooterLines
  PROVE  KeptLines(text, query, max) \in SUBSET DOMAIN text
<1> DEFINE D == DOMAIN text
           s == [i \in 1..FooterLines |-> Len(text) - FooterLines + i]
           n == FooterLines
           Acc == SUBSET D
           base == HeadAndMiddle(text, query, max)
           Op(acc, x) == TakeFooter(acc, x, text, max)
           op == [p \in (1..n) \X Acc |-> Op(p[2], s[p[1]])]
           F(g) == [S \in SUBSET (1..n) |-> IF S = {} THEN base ELSE Op(g[S \ {Max(S)}], s[Max(S)])]
           iter == CHOOSE g : g = F(g)
<1>0. n \in Nat /\ DOMAIN s = 1..n /\ \A i \in 1..n : s[i] \in D
  BY ContextAssumption, SeqFacts
<1>1. KeptLines(text, query, max) = iter[1..n]
  BY <1>0 DEF KeptLines, FoldLeft, MapThenFoldSet
<1>2. base \in Acc
  BY HeadAndMiddleLines
<1>3. ASSUME NEW i \in 1..n, NEW acc \in Acc
      PROVE  Op(acc, s[i]) \in Acc
  <2>1. s[i] \in D
    BY <1>0
  <2> QED
    BY <2>1, TakeFooterTyped
<1> HIDE DEF Op, base, Acc, n, s, D
<1>4. op \in [(1..n) \X Acc -> Acc]
  BY <1>3
<1>5. PICK g \in [SUBSET (1..n) -> Acc] : Folds(g, n, base, op)
  <2> HIDE DEF op
  <2> QED
    BY <1>0, <1>2, <1>4, FoldExists, Zenon
<1>6. ASSUME NEW S \in SUBSET (1..n), S # {}
      PROVE  op[<<Max(S), g[S \ {Max(S)}]>>] = Op(g[S \ {Max(S)}], s[Max(S)])
  <2>1. Max(S) \in 1..n /\ S \ {Max(S)} \in SUBSET (1..n)
    BY <1>0, <1>6, GreatestOf
  <2>2. g[S \ {Max(S)}] \in Acc
    BY <2>1
  <2> QED
    BY <2>1, <2>2
<1> HIDE DEF op
<1>7. g = F(g)
  BY <1>5, <1>6 DEF Folds
<1>8. iter = F(iter)
  <2> HIDE DEF F
  <2> QED
    BY <1>7
<1> HIDE DEF iter
<1> DEFINE G == {i \in 0..n : iter[1..i] \in Acc}
<1>9. 0 \in G
  <2>1. 1..0 = {} /\ 0 \in 0..n /\ {} \in SUBSET (1..n)
    BY <1>0
  <2>2. iter[{}] = base
    BY <1>8, <2>1
  <2> QED
    BY <1>2, <2>1, <2>2
<1>10. ASSUME NEW i \in 1..n, i - 1 \in G
       PROVE  i \in G
  <2>1. 1..i \in SUBSET (1..n) /\ 1..i # {} /\ Max(1..i) = i /\ (1..i) \ {i} = 1..(i - 1)
    BY <1>0, UpTo
  <2>2. \A S \in SUBSET (1..n) : S # {} => iter[S] = Op(iter[S \ {Max(S)}], s[Max(S)])
    BY <1>8
  <2>3. iter[1..i] = Op(iter[1..(i - 1)], s[i])
    BY <2>1, <2>2
  <2>4. i \in 0..n /\ iter[1..(i - 1)] \in Acc
    BY <1>0, <1>10
  <2> QED
    BY <1>3, <2>3, <2>4
<1> HIDE DEF G
<1>11. n \in G
  <2>1. \A i \in 1..n : i - 1 \in G => i \in G
    BY <1>10
  <2> QED
    BY <1>0, <1>9, <2>1, ReachedEnd, Zenon
<1> QED
  BY <1>1, <1>11 DEF G, Acc, D

Shortened == [text : Seq(Lines), simplified : BOOLEAN]

LEMMA TruncatedText ==
  ASSUME NEW text \in Seq(Lines), NEW query \in Texts, NEW max
  PROVE  SmartTruncate(text, query, max) \in Seq(Lines)
<1> DEFINE K == KeptLines(text, query, max)
<1>1. CASE Tokens(text) <= max \/ Len(text) <= HeaderLines + FooterLines
  BY <1>1 DEF SmartTruncate
<1>2. CASE ~(Tokens(text) <= max \/ Len(text) <= HeaderLines + FooterLines)
  <2>1. Len(text) > HeaderLines + FooterLines
    BY <1>2, ContextAssumption, SeqFacts
  <2>2. K \in SUBSET DOMAIN text
    BY <2>1, KeptLinesOfText
  <2>3. SmartTruncate(text, query, max) = Taken(text, K)
    BY <1>2 DEF SmartTruncate, Taken
  <2> HIDE DEF K
  <2> QED
    BY <2>2, <2>3, TakenPicks
<1> QED
  BY <1>1, <1>2

LEMMA SimplifiedText ==
  ASSUME NEW text \in Seq(Lines), NEW root, NEW query \in Texts, NEW max
  PROVE  Simplify(text, root, query, max) \in Shortened
<1>1. SmartTruncate(text, query, max) \in Seq(Lines)
  BY TruncatedText
<1>2. \A t \in Seq(Lines), b \in BOOLEAN : [text |-> t, simplified |-> b] \in Shortened
  BY DEF Shortened
<1>3. \/ Simplify(text, root, query, max) = [text |-> text, simplified |-> FALSE]
      \/ Simplify(text, root, query, max) = [text |-> SmartTruncate(text, query, max), simplified |-> TRUE]
  BY DEF Simplify
<1> QED
  BY <1>1, <1>2, <1>3

-----------------------------------------------------------------------------
(* The budget. *)

Roles == {"root", "extra", "expanded"}
Keys == Ids \X Nat
Clusters == {Cluster[id] : id \in Ids} \cup {None}
Groups == {<<"cluster", c>> : c \in Clusters} \cup {<<"print", t>> : t \in Seq(Lines)}
Items == [key : Keys, role : Roles, tokens : Int, group : Groups, truncated : BOOLEAN]
Candidates == [key : Keys, role : Roles, text : Seq(Lines), cluster : Clusters, doc : Int]

\* Until the budget is full what is used is what the items take.
Admitted ==
    {acc \in [used : Int, seen : SUBSET Keys, items : Seq(Items), done : BOOLEAN] :
        /\ acc.used <= MaxTokens
        /\ ~acc.done => Tokens(acc.items) = acc.used
        /\ \A i \in DOMAIN acc.items : acc.items[i].key \in acc.seen
        /\ InBudget(acc.items)}

LEMMA AppendedTokens ==
  ASSUME NEW items \in Seq(Items), NEW item \in Items, NEW role
  PROVE  /\ RoleTokens(items, role) \in Int
         /\ RoleTokens(Append(items, item), role)
              = RoleTokens(items, role) + (IF item.role = role THEN item.tokens ELSE 0)
         /\ Tokens(items) \in Int
         /\ Tokens(Append(items, item)) = Tokens(items) + item.tokens
<1> DEFINE n == Len(items)
           more == Append(items, item)
           s == [i \in DOMAIN items |-> IF items[i].role = role THEN items[i].tokens ELSE 0]
           t == [i \in DOMAIN more |-> IF more[i].role = role THEN more[i].tokens ELSE 0]
           u == [i \in DOMAIN items |-> items[i].tokens]
           v == [i \in DOMAIN more |-> more[i].tokens]
<1>1. /\ n \in Nat /\ DOMAIN items = 1..n /\ more \in Seq(Items) /\ DOMAIN more = 1..(n + 1)
      /\ more[n + 1] = item /\ \A i \in 1..n : more[i] = items[i]
  <2>1. n \in Nat /\ DOMAIN items = 1..n
    BY SeqFacts
  <2>2. more \in Seq(Items) /\ DOMAIN more = DOMAIN items \cup {n + 1} /\ more[n + 1] = item
        /\ \A i \in DOMAIN items : more[i] = items[i]
    BY AppendFacts
  <2>3. (1..n) \cup {n + 1} = 1..(n + 1)
    BY <2>1
  <2> QED
    BY <2>1, <2>2, <2>3
<1> HIDE DEF n, more
<1>2. \A i \in 1..(n + 1) : more[i].tokens \in Int
  <2>1. \A i \in 1..(n + 1) : more[i] \in Items
    BY <1>1, SeqFacts
  <2>2. ASSUME NEW x \in Items
        PROVE  x.tokens \in Int
    BY DEF Items
  <2> QED
    BY <2>1, <2>2
<1>3. n + 1 \in 1..(n + 1) /\ \A i \in 1..n : i \in 1..(n + 1)
  BY <1>1
<1>4. /\ t \in [1..(n + 1) -> Int] /\ v \in [1..(n + 1) -> Int]
      /\ t[n + 1] = (IF item.role = role THEN item.tokens ELSE 0) /\ v[n + 1] = item.tokens
  BY <1>1, <1>2, <1>3
<1>5. s \in [1..n -> Int] /\ u \in [1..n -> Int] /\ \A i \in 1..n : t[i] = s[i] /\ v[i] = u[i]
  BY <1>1, <1>2, <1>3
<1>6. /\ RoleTokens(items, role) = Sum(s) /\ RoleTokens(more, role) = Sum(t)
      /\ Tokens(items) = Sum(u) /\ Tokens(more) = Sum(v)
  BY DEF RoleTokens, Tokens
<1> HIDE DEF s, t, u, v
<1>7. Sum(t) = Sum(s) + t[n + 1]
  BY <1>1, <1>4, <1>5, SumOfOneMore
<1>8. Sum(v) = Sum(u) + v[n + 1]
  BY <1>1, <1>4, <1>5, SumOfOneMore
<1>9. Sum(s) \in Int /\ Sum(u) \in Int
  BY <1>1, <1>5, SumIsInt
<1> QED
  BY <1>4, <1>6, <1>7, <1>8, <1>9 DEF more

LEMMA FrontOfAppended ==
  ASSUME NEW S, NEW s \in Seq(S), NEW e \in S
  PROVE  Front(Append(s, e)) = s
<1> DEFINE t == Append(s, e)
           f == SubSeq(t, 1, Len(t) - 1)
<1>1. Len(s) \in Nat /\ s \in [1..Len(s) -> S] /\ DOMAIN s = 1..Len(s)
  BY SeqFacts
<1>2. /\ t \in Seq(S) /\ Len(t) = Len(s) + 1 /\ \A k \in 1..Len(s) : t[k] = s[k] /\ t[k] \in S
  BY <1>1, AppendFacts
<1> HIDE DEF t
<1>3. /\ f \in Seq(S) /\ Len(f) = (IF 1 <= Len(s) THEN Len(s) - 1 + 1 ELSE 0)
      /\ \A i \in 1..(Len(s) - 1 + 1) : f[i] = t[1 + i - 1]
  <2>1. Len(t) - 1 = Len(s) /\ 1 \in Int /\ Len(s) \in Int
    BY <1>1, <1>2
  <2> QED
    BY <1>2, <2>1, SubSeqProperties
<1> HIDE DEF f
<1>4. Len(f) = Len(s) /\ \A i \in 1..Len(s) : f[i] = s[i]
  BY <1>1, <1>2, <1>3
<1>5. f \in [1..Len(s) -> S]
  BY <1>3, <1>4, SeqFacts
<1>6. f = s
  BY <1>1, <1>4, <1>5
<1> QED
  BY <1>6 DEF Front, f, t

LEMMA CapIsInt == \A role \in Roles : Cap(role) \in Int
<1>1. MaxTokens \in Int
  BY ContextAssumption
<1>2. MaxTokens * 70 \in Int /\ MaxTokens * 20 \in Int
  BY <1>1
<1>3. RootCap \in Int /\ ExtraCap \in Int
  BY <1>2, Divides DEF RootCap, ExtraCap
<1> HIDE DEF RootCap, ExtraCap
<1>4. Most(0, MaxTokens - (RootCap + ExtraCap)) \in Int
  BY <1>1, <1>3 DEF Most
<1> QED
  BY <1>3, <1>4 DEF Cap, Roles

LEMMA OneMoreInBudget ==
  ASSUME NEW items \in Seq(Items), InBudget(items), NEW item \in Items, Tokens(items) <= MaxTokens,
         \A i \in DOMAIN items : items[i].key # item.key,
         Cardinality({i \in DOMAIN items : items[i].group = item.group}) < (IF item.role = "root" THEN 2 ELSE 1),
         \A i \in DOMAIN items : items[i].role = item.role =>
             RoleTokens(items, item.role) + item.tokens <= Cap(item.role)
  PROVE  InBudget(Append(items, item))
<1> DEFINE n == Len(items)
           more == Append(items, item)
           Of(r) == {i \in DOMAIN items : items[i].role = r}
           MoreOf(r) == {i \in DOMAIN more : more[i].role = r}
<1>1. /\ n \in Nat /\ DOMAIN items = 1..n /\ DOMAIN more = DOMAIN items \cup {n + 1} /\ n + 1 \notin DOMAIN items
      /\ more[n + 1] = item /\ \A i \in DOMAIN items : more[i] = items[i]
  <2>1. n \in Nat /\ DOMAIN items = 1..n
    BY SeqFacts
  <2> QED
    BY <2>1, AppendFacts
<1>2. Front(more) = items
  BY FrontOfAppended
<1>3. \A r : RoleTokens(more, r) = RoleTokens(items, r) + (IF item.role = r THEN item.tokens ELSE 0)
             /\ RoleTokens(items, r) \in Int
  BY AppendedTokens
<1> HIDE DEF n, more
<1>4. Distinct([i \in DOMAIN more |-> more[i].key])
  <2>1. \A i, j \in DOMAIN items : items[i].key = items[j].key => i = j
    BY DEF InBudget, Distinct
  <2>2. ASSUME NEW i \in DOMAIN more, NEW j \in DOMAIN more, more[i].key = more[j].key
        PROVE  i = j
    BY <1>1, <2>1, <2>2
  <2> QED
    BY <2>2 DEF Distinct
<1>5. Tokens(Front(more)) <= MaxTokens
  BY <1>2
<1>6. ASSUME NEW r \in {"root", "extra", "expanded"}, Cardinality(MoreOf(r)) > 1
      PROVE  RoleTokens(more, r) <= Cap(r)
  <2>1. CASE item.role = r
    <3>1. Of(r) # {}
      <4>1. ASSUME Of(r) = {}
            PROVE  FALSE
        <5>1. MoreOf(r) = {n + 1}
          BY <1>1, <2>1, <4>1
        <5>2. Cardinality({n + 1}) = 1
          BY FS_Singleton
        <5> HIDE DEF MoreOf
        <5> QED
          BY <1>6, <5>1, <5>2
      <4> QED
        BY <4>1
    <3>2. PICK i \in DOMAIN items : items[i].role = item.role
      BY <2>1, <3>1
    <3>3. RoleTokens(items, item.role) + item.tokens <= Cap(item.role)
      BY <3>2
    <3> QED
      BY <1>3, <2>1, <3>3
  <2>2. CASE item.role # r
    <3>1. MoreOf(r) = Of(r)
      BY <1>1, <2>2
    <3>2. Cardinality(Of(r)) > 1
      BY <1>6, <3>1
    <3>3. RoleTokens(items, r) <= Cap(r)
      BY <3>2 DEF InBudget
    <3>4. RoleTokens(more, r) = RoleTokens(items, r)
      BY <1>3, <2>2
    <3> QED
      BY <3>3, <3>4
  <2> QED
    BY <2>1, <2>2
<1>7. ASSUME NEW i \in DOMAIN more
      PROVE  Cardinality({j \in 1..(i - 1) : more[j].group = more[i].group})
                < (IF more[i].role = "root" THEN 2 ELSE 1)
  <2>1. CASE i \in DOMAIN items
    <3>1. \A j \in 1..(i - 1) : j \in DOMAIN items
      BY <1>1, <2>1
    <3>2. {j \in 1..(i - 1) : more[j].group = more[i].group} = {j \in 1..(i - 1) : items[j].group = items[i].group}
      BY <1>1, <2>1, <3>1
    <3>3. more[i] = items[i]
      BY <1>1, <2>1
    <3>4. Cardinality({j \in 1..(i - 1) : items[j].group = items[i].group})
                < (IF items[i].role = "root" THEN 2 ELSE 1)
      BY <2>1 DEF InBudget
    <3> QED
      BY <3>2, <3>3, <3>4
  <2>2. CASE i = n + 1
    <3>1. 1..(i - 1) = DOMAIN items /\ more[i] = item
      BY <1>1, <2>2
    <3>2. {j \in 1..(i - 1) : more[j].group = more[i].group} = {j \in DOMAIN items : items[j].group = item.group}
      BY <1>1, <3>1
    <3> QED
      BY <3>1, <3>2
  <2> QED
    BY <1>1, <2>1, <2>2
<1>8. InBudget(more)
  BY <1>4, <1>5, <1>6, <1>7 DEF InBudget
<1> QED
  BY <1>8 DEF more

LEMMA SeenToo ==
  ASSUME NEW acc, acc = [used |-> acc.used, seen |-> acc.seen, items |-> acc.items, done |-> acc.done], NEW S
  PROVE  [acc EXCEPT !.seen = @ \cup S]
           = [used |-> acc.used, seen |-> acc.seen \cup S, items |-> acc.items, done |-> acc.done]
OBVIOUS

LEMMA AdmitKeepsBudget ==
  ASSUME NEW acc \in Admitted, NEW e \in Candidates, NEW query \in Texts
  PROVE  Admit(acc, e, query) \in Admitted
<1> DEFINE left == Most(0, MaxTokens - acc.used)
           short == Simplify(e.text, e.role = "root", query, left)
           tokens == Tokens(short.text) + e.doc
           group == IF e.cluster # None THEN <<"cluster", e.cluster>> ELSE <<"print", short.text>>
           alike == {i \in DOMAIN acc.items : acc.items[i].group = group}
           over == acc.used + tokens > MaxTokens
           truncated == over \/ short.simplified
           item == [key |-> e.key, role |-> e.role, tokens |-> tokens, group |-> group, truncated |-> truncated]
           Full == \/ Cardinality(alike) >= (IF e.role = "root" THEN 2 ELSE 1)
                   \/ \E i \in DOMAIN acc.items : acc.items[i].role = e.role
                                                  /\ RoleTokens(acc.items, e.role) + tokens > Cap(e.role)
           more == [used |-> IF over THEN acc.used ELSE acc.used + tokens,
                    seen |-> acc.seen \cup {e.key}, items |-> Append(acc.items, item), done |-> over]
<1>0. Admit(acc, e, query) = IF acc.done \/ e.key \in acc.seen THEN acc
                             ELSE IF Full THEN [acc EXCEPT !.seen = @ \cup {e.key}] ELSE more
  BY DEF Admit
<1>1. e.key \in Keys /\ e.role \in Roles /\ e.text \in Seq(Lines) /\ e.cluster \in Clusters /\ e.doc \in Int
  BY DEF Candidates
<1>2. /\ acc = [used |-> acc.used, seen |-> acc.seen, items |-> acc.items, done |-> acc.done]
      /\ acc.used \in Int /\ acc.seen \in SUBSET Keys /\ acc.items \in Seq(Items) /\ acc.done \in BOOLEAN
      /\ acc.used <= MaxTokens /\ (~acc.done => Tokens(acc.items) = acc.used)
      /\ \A i \in DOMAIN acc.items : acc.items[i].key \in acc.seen
      /\ InBudget(acc.items)
  BY DEF Admitted
<1>3. short.text \in Seq(Lines)
  <2>1. short \in Shortened
    BY <1>1, SimplifiedText
  <2> HIDE DEF short
  <2> QED
    BY <2>1 DEF Shortened
<1> HIDE DEF short
<1>4. tokens \in Int
  BY <1>1, <1>3, TokensAreInt
<1> HIDE DEF tokens
<1>5. group \in Groups
  BY <1>1, <1>3 DEF Groups
<1>6. over \in BOOLEAN /\ truncated \in BOOLEAN
  BY SMTT(30)
<1> HIDE DEF group, truncated
<1>7. item \in Items
  BY <1>1, <1>4, <1>5, <1>6 DEF Items
<1>8. item.key = e.key /\ item.role = e.role /\ item.tokens = tokens /\ item.group = group
  OBVIOUS
<1> HIDE DEF item
<1>9. ASSUME ~(acc.done \/ e.key \in acc.seen), ~Full
      PROVE  more \in Admitted
  <2>1. Tokens(acc.items) = acc.used /\ Tokens(acc.items) <= MaxTokens
    BY <1>2, <1>9
  <2>2. \A i \in DOMAIN acc.items : acc.items[i].key # item.key
    BY <1>2, <1>8, <1>9
  <2>3. Cardinality(alike) < (IF e.role = "root" THEN 2 ELSE 1)
    <3>1. Len(acc.items) \in Nat /\ alike \in SUBSET (1..Len(acc.items))
      BY <1>2, SeqFacts
    <3>2. Cardinality(alike) \in Nat
      <4> HIDE DEF alike
      <4> QED
        BY <3>1, PositionsFinite
    <3>3. ~(Cardinality(alike) >= (IF e.role = "root" THEN 2 ELSE 1))
      BY <1>9
    <3> HIDE DEF alike
    <3> QED
      BY <3>2, <3>3
  <2>4. ASSUME NEW i \in DOMAIN acc.items, acc.items[i].role = item.role
        PROVE  RoleTokens(acc.items, item.role) + item.tokens <= Cap(item.role)
    <3>1. ~(RoleTokens(acc.items, e.role) + tokens > Cap(e.role))
      BY <1>8, <1>9, <2>4
    <3>2. RoleTokens(acc.items, e.role) \in Int /\ Cap(e.role) \in Int
      BY <1>1, <1>2, <1>7, AppendedTokens, CapIsInt
    <3> QED
      BY <1>4, <1>8, <3>1, <3>2
  <2>5. InBudget(Append(acc.items, item))
    <3>1. Cardinality({i \in DOMAIN acc.items : acc.items[i].group = item.group})
             < (IF item.role = "root" THEN 2 ELSE 1)
      BY <1>8, <2>3
    <3> QED
      BY <1>2, <1>7, <2>1, <2>2, <2>4, <3>1, OneMoreInBudget
  <2> DEFINE items == Append(acc.items, item)
             seen == acc.seen \cup {e.key}
             used == IF over THEN acc.used ELSE acc.used + tokens
  <2>6. /\ items \in Seq(Items) /\ DOMAIN items = DOMAIN acc.items \cup {Len(acc.items) + 1}
        /\ items[Len(acc.items) + 1] = item /\ \A i \in DOMAIN acc.items : items[i] = acc.items[i]
    BY <1>2, <1>7, AppendFacts
  <2>7. Tokens(items) = acc.used + tokens
    BY <1>2, <1>7, <1>8, <2>1, AppendedTokens
  <2>8. InBudget(items)
    BY <2>5
  <2> HIDE DEF items
  <2>9. \A i \in DOMAIN items : items[i].key \in seen
    BY <1>2, <1>8, <2>6
  <2>10. used \in Int /\ used <= MaxTokens /\ (~over => Tokens(items) = used)
    <3>1. MaxTokens \in Int
      BY ContextAssumption
    <3> QED
      BY <1>2, <1>4, <2>7, <3>1
  <2>11. seen \in SUBSET Keys
    BY <1>1, <1>2
  <2>12. more = [used |-> used, seen |-> seen, items |-> items, done |-> over]
    BY DEF items
  <2> HIDE DEF seen, used, over, more
  <2> QED
    BY <1>6, <2>6, <2>8, <2>9, <2>10, <2>11, <2>12 DEF Admitted
<1>10. [acc EXCEPT !.seen = @ \cup {e.key}] \in Admitted
  <2> DEFINE seen == acc.seen \cup {e.key}
  <2>1. [acc EXCEPT !.seen = @ \cup {e.key}] = [used |-> acc.used, seen |-> seen, items |-> acc.items, done |-> acc.done]
    BY <1>2, SeenToo, Zenon
  <2>2. seen \in SUBSET Keys /\ \A i \in DOMAIN acc.items : acc.items[i].key \in seen
    BY <1>1, <1>2
  <2> HIDE DEF seen
  <2> QED
    BY <1>2, <2>1, <2>2 DEF Admitted
<1> HIDE DEF Full, more
<1> QED
  BY <1>0, <1>9, <1>10

-----------------------------------------------------------------------------
(* Candidates beyond the hits. *)

Scores == UNION {[D -> Int] : D \in SUBSET Ids}
Explored == [score : Scores, seen : SUBSET Ids, next : Seq(Ids)]

LEMMA CandidateScoreIsInt ==
  ASSUME NEW e \in Edges, NEW depth \in {1, 2}
  PROVE  CandidateScore(e, depth) \in Int
<1> DEFINE share == 100000 \div depth
           a == Percent(share, EdgeWeight(e.type))
           b == Percent(a, ResolutionPercent(e.resolution))
           c == Percent(b, ConfidencePercent(e.type))
<1>1. share \in Int
  <2>1. 100000 \in Int /\ depth \in Int /\ depth > 0
    OBVIOUS
  <2> QED
    BY <2>1, Divides
<1>2. a \in Int
  <2>1. EdgeWeight(e.type) \in Int
    BY EdgePercents
  <2> HIDE DEF share
  <2> QED
    BY <1>1, <2>1, PercentIsInt, Zenon
<1> HIDE DEF a
<1>3. b \in Int
  BY <1>2, EdgePercents, PercentIsInt
<1> HIDE DEF b
<1>4. c \in Int
  BY <1>3, EdgePercents, PercentIsInt
<1>5. CandidateScore(e, depth) = Percent(c, EvidencePercent(e.evidence))
  BY DEF CandidateScore, a, b, share
<1> HIDE DEF c
<1> QED
  BY <1>4, <1>5, EdgePercents, PercentIsInt

LEMMA VisitExplores ==
  ASSUME NEW acc \in Explored, NEW e \in Edges, NEW present, NEW depth \in {1, 2}
  PROVE  Visit(acc, e, present, depth) \in Explored
<1>1. e.to \in Ids /\ CandidateScore(e, depth) \in Int
  BY EdgesAssumption, IdsAreNumbers, CandidateScoreIsInt
<1>2. /\ acc = [score |-> acc.score, seen |-> acc.seen, next |-> acc.next]
      /\ acc.score \in Scores /\ acc.seen \in SUBSET Ids /\ acc.next \in Seq(Ids)
  BY DEF Explored
<1>3. PICK D \in SUBSET Ids : acc.score \in [D -> Int]
  BY <1>2 DEF Scores
<1>4. CASE e.to \in DOMAIN acc.score
  <2> DEFINE score == [acc.score EXCEPT ![e.to] = Most(@, CandidateScore(e, depth))]
  <2>1. acc.score[e.to] \in Int
    BY <1>3, <1>4
  <2>2. Most(acc.score[e.to], CandidateScore(e, depth)) \in Int
    BY <1>1, <2>1 DEF Most
  <2>3. score \in [D -> Int]
    BY <1>3, <2>2
  <2>4. Visit(acc, e, present, depth) = [score |-> score, seen |-> acc.seen, next |-> acc.next]
    BY <1>2, <1>4 DEF Visit
  <2> HIDE DEF score
  <2>5. score \in Scores
    BY <2>3 DEF Scores
  <2> QED
    BY <1>2, <2>4, <2>5 DEF Explored
<1>5. CASE e.to \notin DOMAIN acc.score /\ e.to \in present
  <2> DEFINE score == [x \in DOMAIN acc.score \cup {e.to} |->
                         IF x = e.to THEN CandidateScore(e, depth) ELSE acc.score[x]]
             next == IF e.to \in acc.seen THEN acc.next ELSE Append(acc.next, e.to)
  <2>1. score \in [D \cup {e.to} -> Int] /\ D \cup {e.to} \in SUBSET Ids
    BY <1>1, <1>3
  <2>2. Append(acc.next, e.to) \in Seq(Ids)
    BY <1>1, <1>2, AppendProperties
  <2>3. Visit(acc, e, present, depth) = [score |-> score, seen |-> acc.seen \cup {e.to}, next |-> next]
    BY <1>5 DEF Visit
  <2>4. next \in Seq(Ids) /\ acc.seen \cup {e.to} \in SUBSET Ids
    BY <1>1, <1>2, <2>2
  <2> HIDE DEF score, next
  <2>5. score \in Scores
    BY <2>1 DEF Scores
  <2> QED
    BY <2>3, <2>4, <2>5 DEF Explored
<1>6. CASE e.to \notin DOMAIN acc.score /\ e.to \notin present
  BY <1>6 DEF Visit
<1> QED
  BY <1>4, <1>5, <1>6

(* All edges of one symbol. *)
LEMMA ExploreTyped ==
  ASSUME NEW start \in Explored, NEW id, NEW edges, edges \subseteq Edges, NEW present, NEW depth \in {1, 2}
  PROVE  Explore(start, id, edges, present, depth) \in Explored
<1> DEFINE s == ListEdgesFrom(edges, id, 20)
           n == Len(s)
           Acc == Explored
           base == start
           Op(acc, x) == Visit(acc, x, present, depth)
           op == [p \in (1..n) \X Acc |-> Op(p[2], s[p[1]])]
           F(g) == [S \in SUBSET (1..n) |-> IF S = {} THEN base ELSE Op(g[S \ {Max(S)}], s[Max(S)])]
           iter == CHOOSE g : g = F(g)
<1>a. s \in Seq(Edges)
  <2>1. s \in Seq({e \in edges : e.from = id})
    BY EdgesFromAreEdges
  <2>2. {e \in edges : e.from = id} \subseteq Edges
    OBVIOUS
  <2> HIDE DEF s
  <2> QED
    BY <2>1, <2>2, SeqMonotonic
<1>0. n \in Nat /\ DOMAIN s = 1..n /\ \A i \in 1..n : s[i] \in Edges
  BY <1>a, SeqFacts
<1>1. Explore(start, id, edges, present, depth) = iter[1..n]
  BY <1>0 DEF Explore, FoldLeft, MapThenFoldSet
<1>2. base \in Acc
  OBVIOUS
<1>3. ASSUME NEW i \in 1..n, NEW acc \in Acc
      PROVE  Op(acc, s[i]) \in Acc
  <2>1. s[i] \in Edges
    BY <1>0
  <2> QED
    BY <2>1, VisitExplores
<1> HIDE DEF Op, base, Acc, n, s
<1>4. op \in [(1..n) \X Acc -> Acc]
  BY <1>3
<1>5. PICK g \in [SUBSET (1..n) -> Acc] : Folds(g, n, base, op)
  <2> HIDE DEF op
  <2> QED
    BY <1>0, <1>2, <1>4, FoldExists, Zenon
<1>6. ASSUME NEW S \in SUBSET (1..n), S # {}
      PROVE  op[<<Max(S), g[S \ {Max(S)}]>>] = Op(g[S \ {Max(S)}], s[Max(S)])
  <2>1. Max(S) \in 1..n /\ S \ {Max(S)} \in SUBSET (1..n)
    BY <1>0, <1>6, GreatestOf
  <2>2. g[S \ {Max(S)}] \in Acc
    BY <2>1
  <2> QED
    BY <2>1, <2>2
<1> HIDE DEF op
<1>7. g = F(g)
  BY <1>5, <1>6 DEF Folds
<1>8. iter = F(iter)
  <2> HIDE DEF F
  <2> QED
    BY <1>7
<1> HIDE DEF iter
<1> DEFINE G == {i \in 0..n : iter[1..i] \in Acc}
<1>9. 0 \in G
  <2>1. 1..0 = {} /\ 0 \in 0..n /\ {} \in SUBSET (1..n)
    BY <1>0
  <2>2. iter[{}] = base
    BY <1>8, <2>1
  <2> QED
    BY <1>2, <2>1, <2>2
<1>10. ASSUME NEW i \in 1..n, i - 1 \in G
       PROVE  i \in G
  <2>1. 1..i \in SUBSET (1..n) /\ 1..i # {} /\ Max(1..i) = i /\ (1..i) \ {i} = 1..(i - 1)
    BY <1>0, UpTo
  <2>2. \A S \in SUBSET (1..n) : S # {} => iter[S] = Op(iter[S \ {Max(S)}], s[Max(S)])
    BY <1>8
  <2>3. iter[1..i] = Op(iter[1..(i - 1)], s[i])
    BY <2>1, <2>2
  <2>4. i \in 0..n /\ iter[1..(i - 1)] \in Acc
    BY <1>0, <1>10
  <2> QED
    BY <1>3, <2>3, <2>4
<1> HIDE DEF G
<1>11. n \in G
  <2>1. \A i \in 1..n : i - 1 \in G => i \in G
    BY <1>10
  <2> QED
    BY <1>0, <1>9, <2>1, ReachedEnd, Zenon
<1> QED
  BY <1>1, <1>11 DEF G, Acc

(* All symbols of one level. *)
LEMMA LevelTyped ==
  ASSUME NEW start \in Explored, NEW edges, edges \subseteq Edges, NEW present, NEW depth \in {1, 2}
  PROVE  Level(start, edges, present, depth) \in Explored
<1> DEFINE s == start.next
           n == Len(s)
           Acc == Explored
           base == [start EXCEPT !.next = <<>>]
           Op(acc, x) == Explore(acc, x, edges, present, depth)
           op == [p \in (1..n) \X Acc |-> Op(p[2], s[p[1]])]
           F(g) == [S \in SUBSET (1..n) |-> IF S = {} THEN base ELSE Op(g[S \ {Max(S)}], s[Max(S)])]
           iter == CHOOSE g : g = F(g)
<1>0. n \in Nat /\ DOMAIN s = 1..n /\ \A i \in 1..n : s[i] \in Ids
  BY SeqFacts DEF Explored
<1>1. Level(start, edges, present, depth) = iter[1..n]
  BY <1>0 DEF Level, FoldLeft, MapThenFoldSet
<1>2. base \in Acc
  BY EmptySeq DEF Explored
<1>3. ASSUME NEW i \in 1..n, NEW acc \in Acc
      PROVE  Op(acc, s[i]) \in Acc
  <2>1. s[i] \in Ids
    BY <1>0
  <2> QED
    BY <2>1, ExploreTyped
<1> HIDE DEF Op, base, Acc, n, s
<1>4. op \in [(1..n) \X Acc -> Acc]
  BY <1>3
<1>5. PICK g \in [SUBSET (1..n) -> Acc] : Folds(g, n, base, op)
  <2> HIDE DEF op
  <2> QED
    BY <1>0, <1>2, <1>4, FoldExists, Zenon
<1>6. ASSUME NEW S \in SUBSET (1..n), S # {}
      PROVE  op[<<Max(S), g[S \ {Max(S)}]>>] = Op(g[S \ {Max(S)}], s[Max(S)])
  <2>1. Max(S) \in 1..n /\ S \ {Max(S)} \in SUBSET (1..n)
    BY <1>0, <1>6, GreatestOf
  <2>2. g[S \ {Max(S)}] \in Acc
    BY <2>1
  <2> QED
    BY <2>1, <2>2
<1> HIDE DEF op
<1>7. g = F(g)
  BY <1>5, <1>6 DEF Folds
<1>8. iter = F(iter)
  <2> HIDE DEF F
  <2> QED
    BY <1>7
<1> HIDE DEF iter
<1> DEFINE G == {i \in 0..n : iter[1..i] \in Acc}
<1>9. 0 \in G
  <2>1. 1..0 = {} /\ 0 \in 0..n /\ {} \in SUBSET (1..n)
    BY <1>0
  <2>2. iter[{}] = base
    BY <1>8, <2>1
  <2> QED
    BY <1>2, <2>1, <2>2
<1>10. ASSUME NEW i \in 1..n, i - 1 \in G
       PROVE  i \in G
  <2>1. 1..i \in SUBSET (1..n) /\ 1..i # {} /\ Max(1..i) = i /\ (1..i) \ {i} = 1..(i - 1)
    BY <1>0, UpTo
  <2>2. \A S \in SUBSET (1..n) : S # {} => iter[S] = Op(iter[S \ {Max(S)}], s[Max(S)])
    BY <1>8
  <2>3. iter[1..i] = Op(iter[1..(i - 1)], s[i])
    BY <2>1, <2>2
  <2>4. i \in 0..n /\ iter[1..(i - 1)] \in Acc
    BY <1>0, <1>10
  <2> QED
    BY <1>3, <2>3, <2>4
<1> HIDE DEF G
<1>11. n \in G
  <2>1. \A i \in 1..n : i - 1 \in G => i \in G
    BY <1>10
  <2> QED
    BY <1>0, <1>9, <2>1, ReachedEnd, Zenon
<1> QED
  BY <1>1, <1>11 DEF G, Acc

LEMMA NoTokens == Tokens(<<>>) = 0
<1> DEFINE s == [i \in DOMAIN <<>> |-> <<>>[i].tokens]
<1>1. DOMAIN <<>> = 1..0 /\ 1..0 = {}
  BY EmptySeq
<1>2. s = [i \in 1..0 |-> 0]
  BY <1>1
<1> HIDE DEF s
<1>3. Sum(s) = 0
  <2>1. s \in [1..0 -> Int] /\ 0 \in Nat
    BY <1>2
  <2>2. \E a \in [0..0 -> Int] : a[0] = 0 /\ Sum(s) = a[0]
    BY <2>1, SumRuns
  <2> QED
    BY <2>2
<1> QED
  BY <1>3 DEF Tokens, s

LEMMA NothingInBudget == InBudget(<<>>)
<1>1. DOMAIN <<>> = {}
  BY EmptySeq
<1>2. Distinct([i \in DOMAIN <<>> |-> <<>>[i].key])
  BY <1>1 DEF Distinct
<1>3. \A r \in {"root", "extra", "expanded"} : Cardinality({i \in DOMAIN <<>> : <<>>[i].role = r}) = 0
  <2>1. \A r : {i \in DOMAIN <<>> : <<>>[i].role = r} = {}
    BY <1>1
  <2> QED
    BY <2>1, FS_EmptySet
<1>4. \A r \in {"root", "extra", "expanded"} :
        Cardinality({i \in DOMAIN <<>> : <<>>[i].role = r}) > 1 => RoleTokens(<<>>, r) <= Cap(r)
  BY <1>3
<1> QED
  BY <1>1, <1>2, <1>4 DEF InBudget

(* All candidates. *)
LEMMA AssembledInBudget ==
  ASSUME NEW roots, NEW extra, NEW expanded, NEW shown, NEW cluster, NEW query \in Texts,
         Entries(roots, extra, expanded, shown, cluster) \in Seq(Candidates)
  PROVE  InBudget(Assemble(roots, extra, expanded, shown, cluster, query))
<1> DEFINE s == Entries(roots, extra, expanded, shown, cluster)
           n == Len(s)
           Acc == Admitted
           base == [used |-> 0, seen |-> {}, items |-> <<>>, done |-> FALSE]
           Op(acc, x) == Admit(acc, x, query)
           op == [p \in (1..n) \X Acc |-> Op(p[2], s[p[1]])]
           F(g) == [S \in SUBSET (1..n) |-> IF S = {} THEN base ELSE Op(g[S \ {Max(S)}], s[Max(S)])]
           iter == CHOOSE g : g = F(g)
<1>0. n \in Nat /\ DOMAIN s = 1..n /\ \A i \in 1..n : s[i] \in Candidates
  BY SeqFacts
<1>1. Assemble(roots, extra, expanded, shown, cluster, query) = iter[1..n].items
  BY <1>0 DEF Assemble, FoldLeft, MapThenFoldSet
<1>2. base \in Acc
  <2>1. <<>> \in Seq(Items) /\ DOMAIN <<>> = {} /\ Tokens(<<>>) = 0
    BY EmptySeq, NoTokens
  <2>2. InBudget(<<>>)
    BY NothingInBudget
  <2>3. 0 <= MaxTokens
    BY ContextAssumption
  <2> QED
    BY <2>1, <2>2, <2>3 DEF Admitted
<1>3. ASSUME NEW i \in 1..n, NEW acc \in Acc
      PROVE  Op(acc, s[i]) \in Acc
  <2>1. s[i] \in Candidates
    BY <1>0
  <2> QED
    BY <2>1, AdmitKeepsBudget
<1> HIDE DEF Op, base, Acc, n, s
<1>4. op \in [(1..n) \X Acc -> Acc]
  BY <1>3
<1>5. PICK g \in [SUBSET (1..n) -> Acc] : Folds(g, n, base, op)
  <2> HIDE DEF op
  <2> QED
    BY <1>0, <1>2, <1>4, FoldExists, Zenon
<1>6. ASSUME NEW S \in SUBSET (1..n), S # {}
      PROVE  op[<<Max(S), g[S \ {Max(S)}]>>] = Op(g[S \ {Max(S)}], s[Max(S)])
  <2>1. Max(S) \in 1..n /\ S \ {Max(S)} \in SUBSET (1..n)
    BY <1>0, <1>6, GreatestOf
  <2>2. g[S \ {Max(S)}] \in Acc
    BY <2>1
  <2> QED
    BY <2>1, <2>2
<1> HIDE DEF op
<1>7. g = F(g)
  BY <1>5, <1>6 DEF Folds
<1>8. iter = F(iter)
  <2> HIDE DEF F
  <2> QED
    BY <1>7
<1> HIDE DEF iter
<1> DEFINE G == {i \in 0..n : iter[1..i] \in Acc}
<1>9. 0 \in G
  <2>1. 1..0 = {} /\ 0 \in 0..n /\ {} \in SUBSET (1..n)
    BY <1>0
  <2>2. iter[{}] = base
    BY <1>8, <2>1
  <2> QED
    BY <1>2, <2>1, <2>2
<1>10. ASSUME NEW i \in 1..n, i - 1 \in G
       PROVE  i \in G
  <2>1. 1..i \in SUBSET (1..n) /\ 1..i # {} /\ Max(1..i) = i /\ (1..i) \ {i} = 1..(i - 1)
    BY <1>0, UpTo
  <2>2. \A S \in SUBSET (1..n) : S # {} => iter[S] = Op(iter[S \ {Max(S)}], s[Max(S)])
    BY <1>8
  <2>3. iter[1..i] = Op(iter[1..(i - 1)], s[i])
    BY <2>1, <2>2
  <2>4. i \in 0..n /\ iter[1..(i - 1)] \in Acc
    BY <1>0, <1>10
  <2> QED
    BY <1>3, <2>3, <2>4
<1> HIDE DEF G
<1>11. n \in G
  <2>1. \A i \in 1..n : i - 1 \in G => i \in G
    BY <1>10
  <2> QED
    BY <1>0, <1>9, <2>1, ReachedEnd, Zenon
<1>12. iter[1..n] \in Admitted
  BY <1>11 DEF G, Acc
<1> QED
  BY <1>1, <1>12 DEF Admitted

(* The candidates the edges lead to, best first. *)
LEMMA ExpandedCandidates ==
  ASSUME NEW edges, edges \subseteq Edges, NEW present, NEW seeds \in Seq(Ids), NEW ascending
  PROVE  ExpandWithScoring(edges, present, seeds, ascending) \in Seq(Ids)
<1> DEFINE seed == [score |-> [x \in {} |-> 0], seen |-> ToSet(seeds), next |-> seeds]
           end == Level(Level(seed, edges, present, 1), edges, present, 2)
           S == DOMAIN end.score
           score == end.score
           B(x, y) == BetterCandidate(x, y, score, ascending)
           R == {p \in S \X S : B(p[1], p[2])}
           before == [e \in S |-> Cardinality({d \in S : B(d, e)})]
           q == [i \in 1..Cardinality(S) |-> CHOOSE e \in S : before[e] = i - 1]
<1>1. ExpandWithScoring(edges, present, seeds, ascending) = Truncate(q, 50)
  BY DEF ExpandWithScoring, FirstRows, Sorted
<1>2. seed \in Explored
  <2>1. [x \in {} |-> 0] \in [{} -> Int] /\ {} \in SUBSET Ids
    OBVIOUS
  <2>2. [x \in {} |-> 0] \in Scores
    BY <2>1 DEF Scores
  <2>3. ToSet(seeds) \in SUBSET Ids
    BY SeqFacts DEF ToSet
  <2> QED
    BY <2>2, <2>3 DEF Explored
<1> HIDE DEF seed
<1>3. end \in Explored
  BY <1>2, LevelTyped
<1> HIDE DEF end
<1>4. PICK D \in SUBSET Ids : score \in [D -> Int]
  BY <1>3 DEF Explored, Scores
<1>5. S = D /\ S \in SUBSET Ids /\ IsFiniteSet(S) /\ \A x \in S : score[x] \in Int /\ x \in Int
  <2>1. S = D /\ S \in SUBSET Ids
    BY <1>4
  <2> QED
    BY <1>4, <2>1, IdsAreNumbers, FS_Subset
<1>6. \A x, y \in S : <<x, y>> \in R <=> B(x, y)
  OBVIOUS
<1> HIDE DEF R, S, score
<1>7. StrictOrder(R, S)
  <2>1. CASE ascending
    <3>1. \A x, y \in S : <<x, y>> \in R <=> score[x] > score[y] \/ (score[x] = score[y] /\ x < y)
      BY <1>6, <2>1 DEF BetterCandidate
    <3>2. \A x \in S : <<x, x>> \notin R
      BY <1>5, <3>1
    <3>3. \A x, y, z \in S : <<x, y>> \in R /\ <<y, z>> \in R => <<x, z>> \in R
      BY <1>5, <3>1
    <3>4. ASSUME NEW x \in S, NEW y \in S, x # y
          PROVE  <<x, y>> \in R \/ <<y, x>> \in R
      <4>1. x < y \/ y < x
        BY <1>5, <3>4
      <4>2. score[x] > score[y] \/ score[y] > score[x] \/ score[x] = score[y]
        BY <1>5
      <4>3. (x < y <=> y > x) /\ (y < x <=> x > y)
        BY <1>5
      <4> QED
        BY <3>1, <4>1, <4>2, <4>3
    <3> QED
      BY <3>2, <3>3, <3>4 DEF StrictOrder
  <2>2. CASE ~ascending
    <3>1. \A x, y \in S : <<x, y>> \in R <=> score[x] > score[y] \/ (score[x] = score[y] /\ x > y)
      BY <1>6, <2>2 DEF BetterCandidate
    <3>2. \A x \in S : <<x, x>> \notin R
      BY <1>5, <3>1
    <3>3. \A x, y, z \in S : <<x, y>> \in R /\ <<y, z>> \in R => <<x, z>> \in R
      BY <1>5, <3>1
    <3>4. ASSUME NEW x \in S, NEW y \in S, x # y
          PROVE  <<x, y>> \in R \/ <<y, x>> \in R
      <4>1. x < y \/ y < x
        BY <1>5, <3>4
      <4>2. score[x] > score[y] \/ score[y] > score[x] \/ score[x] = score[y]
        BY <1>5
      <4>3. (x < y <=> y > x) /\ (y < x <=> x > y)
        BY <1>5
      <4> QED
        BY <3>1, <4>1, <4>2, <4>3
    <3> QED
      BY <3>2, <3>3, <3>4 DEF StrictOrder
  <2> QED
    BY <2>1, <2>2
<1>8. \A e \in S : before[e] = Cardinality(BelowIn(R, S, e))
  <2>1. ASSUME NEW e \in S
        PROVE  {d \in S : B(d, e)} = BelowIn(R, S, e)
    BY <1>6 DEF BelowIn
  <2> HIDE DEF B
  <2> QED
    BY <2>1
<1> HIDE DEF before, B
<1>9. \A i \in 1..Cardinality(S) : (\E e \in S : before[e] = i - 1) => q[i] \in S /\ before[q[i]] = i - 1
  OBVIOUS
<1>10. FunctionOn(q, 1..Cardinality(S))
  BY DEF FunctionOn
<1> HIDE DEF q
<1>11. q \in Seq(S)
  BY <1>5, <1>7, <1>8, <1>9, <1>10, ChosenInOrder, Z3T(30) DEF InOrder
<1>12. q \in Seq(Ids)
  BY <1>5, <1>11, SeqMonotonic
<1> QED
  BY <1>1, <1>12, TruncateSeq

LEMMA EntryIsCandidate ==
  ASSUME NEW key \in Keys, NEW role \in Roles, NEW text \in Seq(Lines), NEW c \in Clusters, NEW extra \in Int
  PROVE  Entry(key, role, text, c, extra) \in Candidates
BY DEF Entry, Candidates

LEMMA EntriesTyped ==
  ASSUME NEW roots \in Seq(Ids), NEW extra \in Seq(Ids), NEW expanded \in Seq(Ids), NEW cluster \in [Ids -> Clusters]
  PROVE  Entries(roots, extra, expanded, TextOf, cluster) \in Seq(Candidates)
<1> DEFINE Of(ids, role) == [i \in DOMAIN ids |->
              Entry(Key(ids[i], 0), role, TextOf[ids[i]], cluster[ids[i]], IF role = "root" THEN DocTokens[ids[i]] ELSE 0)]
           usagesOf == [i \in DOMAIN roots |->
              [n \in DOMAIN UsagesOf[roots[i]] |-> Entry(Key(roots[i], n), "extra", UsagesOf[roots[i]][n], None, 0)]]
           usages == FlattenSeq(usagesOf)
<1>1. \A id \in Ids : TextOf[id] \in Seq(Lines) /\ UsagesOf[id] \in Seq(Seq(Lines)) /\ DocTokens[id] \in Int
  BY ContextAssumption, IdsAreNumbers
<1>2. None \in Clusters
  BY DEF Clusters
<1>3. ASSUME NEW ids \in Seq(Ids), NEW role \in Roles
      PROVE  Of(ids, role) \in Seq(Candidates)
  <2> DEFINE f == Of(ids, role)
  <2>1. ASSUME NEW i \in DOMAIN ids
        PROVE  f[i] \in Candidates
    <3>1. ids[i] \in Ids
      BY SeqFacts
    <3>2. Key(ids[i], 0) \in Keys
      BY <3>1 DEF Key, Keys
    <3>3. TextOf[ids[i]] \in Seq(Lines) /\ cluster[ids[i]] \in Clusters
          /\ (IF role = "root" THEN DocTokens[ids[i]] ELSE 0) \in Int
      BY <1>1, <3>1
    <3> QED
      BY <3>2, <3>3, EntryIsCandidate
  <2>2. f = [i \in DOMAIN ids |-> f[i]]
    OBVIOUS
  <2> HIDE DEF f
  <2>3. f \in Seq(Candidates)
    BY <2>1, <2>2, MappedSeq
  <2> QED
    BY <2>3 DEF f
<1>4. usages \in Seq(Candidates)
  <2>1. ASSUME NEW i \in DOMAIN roots
        PROVE  usagesOf[i] \in Seq(Candidates)
    <3> DEFINE u == UsagesOf[roots[i]]
               g == [n \in DOMAIN u |-> Entry(Key(roots[i], n), "extra", u[n], None, 0)]
    <3>1. roots[i] \in Ids
      BY SeqFacts
    <3>2. u \in Seq(Seq(Lines))
      BY <1>1, <3>1
    <3>3. usagesOf[i] = g
      OBVIOUS
    <3> HIDE DEF u, usagesOf
    <3>4. ASSUME NEW n \in DOMAIN u
          PROVE  g[n] \in Candidates
      <4>1. n \in Nat /\ u[n] \in Seq(Lines)
        BY <3>2, SeqFacts
      <4>2. Key(roots[i], n) \in Keys
        BY <3>1, <4>1 DEF Key, Keys
      <4>3. "extra" \in Roles /\ 0 \in Int
        BY DEF Roles
      <4> QED
        BY <1>2, <4>1, <4>2, <4>3, EntryIsCandidate
    <3>5. g = [n \in DOMAIN u |-> g[n]]
      OBVIOUS
    <3> HIDE DEF g
    <3>6. g \in Seq(Candidates)
      BY <3>2, <3>4, <3>5, MappedSeq
    <3> QED
      BY <3>3, <3>6
  <2>2. usagesOf = [i \in DOMAIN roots |-> usagesOf[i]]
    OBVIOUS
  <2> HIDE DEF usagesOf
  <2>3. usagesOf \in Seq(Seq(Candidates))
    BY <2>1, <2>2, MappedSeq
  <2> QED
    BY <2>3, FlattenIsSeq
<1>5. Entries(roots, extra, expanded, TextOf, cluster)
        = Of(roots, "root") \o Of(extra, "extra") \o usages \o Of(expanded, "expanded")
  BY DEF Entries
<1>6. Of(roots, "root") \in Seq(Candidates) /\ Of(extra, "extra") \in Seq(Candidates)
      /\ Of(expanded, "expanded") \in Seq(Candidates)
  BY <1>3 DEF Roles
<1> HIDE DEF Of, usages
<1>7. Of(roots, "root") \o Of(extra, "extra") \in Seq(Candidates)
  BY <1>6, ConcatProperties
<1>8. Of(roots, "root") \o Of(extra, "extra") \o usages \in Seq(Candidates)
  BY <1>4, <1>7, ConcatProperties
<1>9. Of(roots, "root") \o Of(extra, "extra") \o usages \o Of(expanded, "expanded") \in Seq(Candidates)
  BY <1>6, <1>8, ConcatProperties
<1> QED
  BY <1>5, <1>9

LEMMA ContextInBudget ==
  ASSUME NEW roots \in Seq(Ids), NEW extra \in Seq(Ids), NEW query \in Texts, NEW ascending
  PROVE  InBudget(ContextOf(roots, extra, query, ascending))
<1> DEFINE expanded == ExpandWithScoring(RowEdges, rows, roots \o extra, ascending)
<1>1. RowEdges \subseteq Edges /\ roots \o extra \in Seq(Ids)
  BY ConcatProperties DEF RowEdges
<1>2. expanded \in Seq(Ids)
  BY <1>1, ExpandedCandidates
<1>3. ClusterOf \in [Ids -> Clusters]
  BY DEF ClusterOf, Clusters
<1> HIDE DEF expanded
<1>4. Entries(roots, extra, expanded, TextOf, ClusterOf) \in Seq(Candidates)
  BY <1>2, <1>3, EntriesTyped
<1>5. InBudget(Assemble(roots, extra, expanded, TextOf, ClusterOf, query))
  BY <1>4, AssembledInBudget
<1> QED
  BY <1>5 DEF ContextOf, expanded

LEMMA CachedInBudget ==
  ASSUME NEW roots \in Seq(Ids), NEW extra \in Seq(Ids), NEW query \in Texts,
         \A k \in DOMAIN contexts : InBudget(contexts[k]), NEW items \in CachedContext(roots, extra, query)
  PROVE  InBudget(items)
<1> DEFINE key == ContextKey(roots, extra, query)
<1>1. CASE key \in DOMAIN contexts
  BY <1>1 DEF CachedContext
<1>2. CASE key \notin DOMAIN contexts
  <2>1. PICK ascending \in BOOLEAN : items = ContextOf(roots, extra, query, ascending)
    BY <1>2 DEF CachedContext
  <2> QED
    BY <2>1, ContextInBudget
<1> QED
  BY <1>1, <1>2

-----------------------------------------------------------------------------
(* Every step keeps the invariant. *)

LEMMA SameRequest ==
  ASSUME search'.request = search.request
  PROVE  Request' = Request /\ SubQueries' = SubQueries
BY DEF SubQueries, Expanded, Parsed, Request

LEMMA NoHits ==
  /\ <<>> \in Seq(Hits) /\ IsHits(<<>>)
  /\ NoAnswer.hits = <<>> /\ NoAnswer.items = <<>> /\ NoAnswer.path = "none"
  /\ \A r \in Requests : AnswerOK(r, [NoAnswer EXCEPT !.path = "id"])
<1>1. <<>> \in Seq(Hits) /\ Len(<<>>) = 0 /\ DOMAIN <<>> = {}
  BY EmptySeq
<1>2. OncePerId(<<>>) /\ Descending(<<>>) /\ IsHits(<<>>)
  BY <1>1 DEF OncePerId, Descending, IsHits
<1>3. NoAnswer.hits = <<>> /\ NoAnswer.items = <<>> /\ NoAnswer.path = "none"
  BY DEF NoAnswer
<1>4. ASSUME NEW r \in Requests
      PROVE  AnswerOK(r, [NoAnswer EXCEPT !.path = "id"])
  <2> DEFINE a == [NoAnswer EXCEPT !.path = "id"]
  <2>1. a.hits = <<>> /\ a.items = <<>> /\ a.path = "id"
    BY DEF NoAnswer
  <2>2. 0 <= r.limit
    BY RequestsAssumption
  <2> HIDE DEF a
  <2>3. AnswerOK(r, a)
    BY <1>1, <1>2, <2>1, <2>2, NothingInBudget DEF AnswerOK
  <2> QED
    BY <2>3 DEF a
<1> QED
  BY <1>1, <1>2, <1>3, <1>4

LEMMA EndedFacts ==
  ASSUME NEW pc, NEW answer
  PROVE  /\ DOMAIN Ended(pc, answer) = Fields
         /\ Ended(pc, answer).pc = pc /\ Ended(pc, answer).request = search.request
         /\ Ended(pc, answer).keyword = <<>> /\ Ended(pc, answer).vector = <<>>
         /\ Ended(pc, answer).hits = <<>>
         /\ Ended(pc, answer).answer = answer
<1>1. /\ DOMAIN Idle = Fields /\ Idle.keyword = <<>> /\ Idle.vector = <<>> /\ Idle.hits = <<>>
  BY DEF Idle, Fields
<1> QED
  BY <1>1 DEF Ended, Request, Fields

(* A search that ends with an answer that is right, or with none. *)
LEMMA EndedWell ==
  ASSUME Inv, Request \in Requests, NEW pc \in {"answered", "panicked", "failed"}, NEW answer,
         search' = Ended(pc, answer),
         pc = "answered" => AnswerOK(Request, answer), pc # "answered" => answer = NoAnswer
  PROVE  SearchOK' /\ StageOK'
<1>2. /\ search'.pc = pc /\ search'.request = search.request /\ search'.keyword = <<>> /\ search'.vector = <<>>
      /\ search'.hits = <<>> /\ search'.answer = answer /\ DOMAIN search' = Fields
  BY EndedFacts
<1>3. Request' = Request /\ search.request \in Requests
  BY <1>2, SameRequest DEF Request
<1>4. SearchOK'
  BY <1>2, <1>3, NoHits DEF SearchOK, Labels
<1>5. StageOK'
  BY <1>2, <1>3 DEF StageOK, At, Understood
<1> QED
  BY <1>4, <1>5

LEMMA ResponsesWith ==
  ASSUME NEW cache, \A r \in DOMAIN cache : r \in Requests /\ AnswerOK(r, cache[r]),
         NEW q \in Requests, NEW answer, AnswerOK(q, answer)
  PROVE  \A r \in DOMAIN With(cache, q, answer) : r \in Requests /\ AnswerOK(r, With(cache, q, answer)[r])
BY DEF With

LEMMA ContextsWith ==
  ASSUME NEW cache, \A k \in DOMAIN cache : InBudget(cache[k]), NEW key, NEW items, InBudget(items)
  PROVE  \A k \in DOMAIN With(cache, key, items) : InBudget(With(cache, key, items)[k])
BY DEF With

LEMMA AnsweredWell ==
  ASSUME Inv, Request \in Requests, NEW path, NEW hits, NEW expanded, NEW roots \in Seq(Ids), NEW extra \in Seq(Ids),
         NEW query \in Texts, AnswerWithContext(path, hits, expanded, roots, extra, query),
         \A items : InBudget(items) =>
            AnswerOK(Request, [path |-> path, hits |-> hits, expanded |-> expanded, items |-> items])
  PROVE  Inv'
<1>1. PICK items \in CachedContext(roots, extra, query) :
        /\ contexts' = With(contexts, ContextKey(roots, extra, query), items)
        /\ Answer(path, hits, expanded, items)
        /\ UNCHANGED <<stores, stamps, searches, rrf>>
  BY DEF AnswerWithContext
<1> DEFINE answer == [path |-> path, hits |-> hits, expanded |-> expanded, items |-> items]
<1>2. InBudget(items)
  BY <1>1, CachedInBudget DEF Inv, StoresOK
<1>3. AnswerOK(Request, answer)
  BY <1>2
<1> HIDE DEF answer
<1>4. \/ search' = Ended("panicked", NoAnswer) /\ responses' = responses
      \/ search' = Ended("answered", answer) /\ responses' = With(responses, Request, answer)
  BY <1>1 DEF Answer, answer
<1>5. SearchOK' /\ StageOK'
  <2>1. CASE search' = Ended("panicked", NoAnswer)
    BY <2>1, EndedWell
  <2>2. CASE search' = Ended("answered", answer)
    BY <1>3, <2>2, EndedWell
  <2> QED
    BY <1>4, <2>1, <2>2
<1>6. \A r \in DOMAIN responses' : r \in Requests /\ AnswerOK(r, responses'[r])
  BY <1>3, <1>4, ResponsesWith DEF Inv, StoresOK
<1>7. \A k \in DOMAIN contexts' : InBudget(contexts'[k])
  BY <1>1, <1>2, ContextsWith DEF Inv, StoresOK
<1>8. rows' = rows /\ docs' = docs /\ vecs' = vecs /\ searches' = searches
  BY <1>1 DEF stores
<1>9. StoresOK'
  BY <1>6, <1>7, <1>8 DEF Inv, StoresOK
<1> QED
  BY <1>5, <1>9 DEF Inv

LEMMA StoresKept ==
  ASSUME Inv, UNCHANGED <<stores, caches, searches, rrf>>
  PROVE  StoresOK'
BY DEF Inv, StoresOK, stores, caches

(* A step of the search from one stage to the next. *)
LEMMA Going ==
  ASSUME Inv, search.pc \notin {"idle", "answered"}, search'.pc \in Labels \ {"idle", "answered"},
         DOMAIN search' = Fields, search'.request = search.request, search'.answer = search.answer,
         search'.keyword \in Seq(Hits), search'.vector \in Seq(Hits),
         search'.hits \in Seq(Hits)
  PROVE  /\ SearchOK'
         /\ Request \in Requests /\ Request' = Request /\ SubQueries' = SubQueries
<1>1. Request \in Requests /\ search.request \in Requests /\ search.answer = NoAnswer
  BY DEF Inv, SearchOK, Request
<1>2. SearchOK'
  BY <1>1 DEF SearchOK
<1> QED
  BY <1>1, <1>2, SameRequest

LEMMA InSearch ==
  ASSUME Inv, search.pc \notin {"idle", "answered"}
  PROVE  /\ DOMAIN search = Fields /\ Request \in Requests /\ search.answer = NoAnswer
         /\ search.keyword \in Seq(Hits) /\ search.vector \in Seq(Hits)
         /\ search.hits \in Seq(Hits)
         /\ search.pc \in Understood => SubQueries # <<>>
BY DEF Inv, SearchOK, StageOK, Request, Labels

LEMMA AskKeeps ==
  ASSUME Inv, Ask
  PROVE  Inv'
<1>1. PICK r \in Requests : search' = [Idle EXCEPT !.pc = "lookup", !.request = r]
  BY DEF Ask
<1>2. /\ DOMAIN search' = Fields /\ search'.pc = "lookup" /\ search'.request = r
      /\ search'.keyword = <<>> /\ search'.vector = <<>> /\ search'.hits = <<>>
      /\ search'.answer = NoAnswer
  BY <1>1 DEF Idle, Fields
<1>3. SearchOK'
  BY <1>2, NoHits DEF SearchOK, Labels
<1>4. StageOK'
  BY <1>2 DEF StageOK, At, Understood
<1>5. searches' \in 0..MaxSearches
  <2>1. searches \in 0..MaxSearches /\ searches < MaxSearches /\ searches' = searches + 1 /\ MaxSearches \in Nat
    BY StoresAssumption DEF Inv, StoresOK, Ask
  <2> QED
    BY <2>1
<1>6. StoresOK'
  BY <1>5 DEF Ask, Inv, StoresOK, stores, caches
<1> QED
  BY <1>3, <1>4, <1>6 DEF Inv

LEMMA LookupKeeps ==
  ASSUME Inv, Lookup
  PROVE  Inv'
<1> DEFINE kept == IF stamps = IndexStamps THEN responses ELSE EmptyCache
<1>1. search.pc = "lookup"
  BY DEF Lookup, At
<1>2. DOMAIN search = Fields /\ Request \in Requests
  BY <1>1, InSearch
<1>3. /\ \A r \in DOMAIN kept : r \in Requests /\ AnswerOK(r, kept[r])
      /\ responses' \in {responses, kept}
  BY DEF Lookup, Inv, StoresOK, EmptyCache, caches
<1>4. \A k \in DOMAIN contexts' : InBudget(contexts'[k])
  BY DEF Lookup, Inv, StoresOK, EmptyCache, caches
<1>5. \/ search' = Ended("panicked", NoAnswer)
      \/ Request \in DOMAIN kept /\ search' = Ended("answered", kept[Request])
      \/ search' = [search EXCEPT !.pc = "byId"]
  BY DEF Lookup
<1> HIDE DEF kept
<1>6. StoresOK'
  BY <1>3, <1>4 DEF Lookup, Inv, StoresOK, stores
<1>7. SearchOK' /\ StageOK'
  <2>1. CASE search' = Ended("panicked", NoAnswer)
    BY <1>2, <2>1, EndedWell
  <2>2. CASE Request \in DOMAIN kept /\ search' = Ended("answered", kept[Request])
    BY <1>2, <1>3, <2>2, EndedWell
  <2>3. CASE search' = [search EXCEPT !.pc = "byId"]
    <3>1. /\ DOMAIN search' = Fields /\ search'.pc = "byId" /\ search'.request = search.request
          /\ search'.answer = search.answer /\ search'.keyword = search.keyword
          /\ search'.vector = search.vector /\ search'.hits = search.hits
      BY <1>2, <2>3 DEF Fields
    <3>2. SearchOK'
      BY <1>1, <3>1, Going, InSearch DEF Labels
    <3>3. StageOK'
      BY <3>1 DEF StageOK, At, Understood
    <3> QED
      BY <3>2, <3>3
  <2> QED
    BY <1>5, <2>1, <2>2, <2>3
<1> QED
  BY <1>6, <1>7 DEF Inv

LEMMA AnswerByIdKeeps ==
  ASSUME Inv, AnswerById
  PROVE  Inv'
<1> DEFINE id == WantedId
           hits == <<Hit(id, Unit, Sym[id].lang)>>
<1>1. search.pc = "byId" /\ id \in rows
  BY DEF AnswerById, At
<1>2. Request \in Requests
  BY <1>1, InSearch
<1>3. id \in Ids
  BY <1>1 DEF Inv, StoresOK
<1>4. CASE Request.exported /\ ~Sym[id].exported
  <2>1. /\ search' = Ended("answered", [NoAnswer EXCEPT !.path = "id"])
        /\ UNCHANGED <<stores, caches, searches, rrf>>
    BY <1>4 DEF AnswerById
  <2>2. SearchOK' /\ StageOK'
    BY <1>2, <2>1, NoHits, EndedWell
  <2> QED
    BY <2>1, <2>2, StoresKept DEF Inv
<1>5. CASE ~(Request.exported /\ ~Sym[id].exported)
  <2>1. AnswerWithContext("id", hits, {}, <<id>>, <<>>, Parsed.text)
    BY <1>5 DEF AnswerById
  <2>2. Hit(id, Unit, Sym[id].lang) \in Hits /\ Hit(id, Unit, Sym[id].lang).id = id
    <3>1. Unit \in Int
      BY RankingAssumption
    <3> QED
      BY <1>3, <3>1, HitIsHit
  <2> HIDE DEF id
  <2>3. <<id>> \in Seq(Ids) /\ <<>> \in Seq(Ids) /\ Parsed.text \in Texts
    BY <1>2, <1>3, EmptySeq, RequestFacts
  <2>4. hits \in Seq(Hits) /\ Len(hits) = 1 /\ DOMAIN hits = {1} /\ hits[1].id = id
    BY <2>2
  <2> HIDE DEF hits
  <2>5. OncePerId(hits) /\ Descending(hits) /\ Len(hits) <= Request.limit
    <3>1. OncePerId(hits)
      BY <2>4 DEF OncePerId
    <3>2. Request.limit \in Nat \ {0}
      BY <1>2, RequestFacts
    <3>3. Descending(hits)
      BY <2>4 DEF Descending
    <3> QED
      BY <2>4, <3>1, <3>2, <3>3
  <2>6. \A i \in DOMAIN hits : Request.exported => Sym[hits[i].id].exported
    BY <1>5, <2>4
  <2>7. ASSUME NEW items, InBudget(items)
        PROVE  AnswerOK(Request, [path |-> "id", hits |-> hits, expanded |-> {}, items |-> items])
    BY <2>4, <2>5, <2>6, <2>7 DEF AnswerOK
  <2> QED
    BY <1>2, <2>1, <2>3, <2>7, AnsweredWell
<1> QED
  BY <1>4, <1>5

LEMMA UnderstandKeeps ==
  ASSUME Inv, Understand
  PROVE  Inv'
<1>1. search.pc = "byId" /\ UNCHANGED <<stores, caches, searches, rrf>>
  BY DEF Understand, At
<1>2. DOMAIN search = Fields /\ Request \in Requests
  BY <1>1, InSearch
<1>3. /\ DOMAIN search' = Fields /\ search'.request = search.request /\ search'.answer = search.answer
      /\ search'.keyword = search.keyword /\ search'.vector = search.vector
      /\ search'.hits = search.hits /\ search'.sub = 1
      /\ search'.pc = IF SubQueries = <<>> THEN "panicked"
                      ELSE IF Intent.class = "Callers" THEN "callers" ELSE "retrieve"
  BY <1>2 DEF Understand, Fields
<1>4. search'.pc \in {"panicked", "callers", "retrieve"} /\ (search'.pc # "panicked" => SubQueries # <<>>)
  BY <1>3
<1>5. SearchOK' /\ SubQueries' = SubQueries
  BY <1>1, <1>3, <1>4, Going, InSearch DEF Labels
<1>6. SubQueries # <<>> => 1 \in DOMAIN SubQueries
  <2>1. SubQueries \in Seq(Texts)
    BY <1>2, RequestFacts
  <2> QED
    BY <2>1, SeqFacts
<1>7. StageOK'
  BY <1>3, <1>4, <1>5, <1>6 DEF StageOK, At, Understood
<1> QED
  BY <1>1, <1>5, <1>7, StoresKept DEF Inv

LEMMA AnswerCallersKeeps ==
  ASSUME Inv, AnswerCallers
  PROVE  Inv'
<1> DEFINE hits == CallersOf(Intent.name)
           roots == [i \in DOMAIN hits |-> hits[i].id]
<1>1. search.pc = "callers" /\ AnswerWithContext("callers", hits, {}, roots, <<>>, Parsed.text)
  BY DEF AnswerCallers, At
<1>2. Request \in Requests
  BY <1>1, InSearch
<1>3. /\ hits \in Seq(Hits) /\ Len(hits) <= Request.limit /\ OncePerId(hits) /\ Descending(hits)
      /\ \A i \in DOMAIN hits : Request.exported => Sym[hits[i].id].exported
  BY <1>2, CallersList
<1> HIDE DEF hits
<1>4. \A i \in DOMAIN hits : hits[i].id \in Ids
  BY <1>3, SeqFacts, HitFacts
<1>5. roots = [i \in DOMAIN hits |-> roots[i]] /\ \A i \in DOMAIN hits : roots[i] \in Ids
  BY <1>4
<1> HIDE DEF roots
<1>6. roots \in Seq(Ids) /\ <<>> \in Seq(Ids) /\ Parsed.text \in Texts
  BY <1>2, <1>3, <1>5, MappedSeq, EmptySeq, RequestFacts
<1>7. ASSUME NEW items, InBudget(items)
      PROVE  AnswerOK(Request, [path |-> "callers", hits |-> hits, expanded |-> {}, items |-> items])
  BY <1>3, <1>7 DEF AnswerOK
<1> QED
  BY <1>1, <1>2, <1>6, <1>7, AnsweredWell

LEMMA NoCallersKeeps ==
  ASSUME Inv, NoCallers
  PROVE  Inv'
<1>1. search.pc = "callers" /\ UNCHANGED <<stores, caches, searches, rrf>>
  BY DEF NoCallers, At
<1>2. DOMAIN search = Fields /\ SubQueries # <<>>
  BY <1>1, InSearch DEF Understood
<1>3. /\ DOMAIN search' = Fields /\ search'.request = search.request /\ search'.answer = search.answer
      /\ search'.keyword = search.keyword /\ search'.vector = search.vector
      /\ search'.hits = search.hits /\ search'.sub = search.sub
      /\ search'.pc = "retrieve"
  BY <1>2 DEF NoCallers, Fields
<1>4. SearchOK' /\ SubQueries' = SubQueries
  BY <1>1, <1>3, Going, InSearch DEF Labels
<1>5. search.sub \in DOMAIN SubQueries
  BY <1>1 DEF Inv, StageOK, At
<1>6. StageOK'
  BY <1>2, <1>3, <1>4, <1>5 DEF StageOK, At, Understood
<1> QED
  BY <1>1, <1>4, <1>6, StoresKept DEF Inv

LEMMA RetrieveKeywordKeeps ==
  ASSUME Inv, RetrieveKeyword
  PROVE  Inv'
<1> DEFINE found == KeywordHits(SubQueries[search.sub])
<1>1. search.pc = "retrieve" /\ UNCHANGED <<stores, caches, searches, rrf>>
  BY DEF RetrieveKeyword, At
<1>2. /\ DOMAIN search = Fields /\ SubQueries # <<>> /\ Request \in Requests
      /\ search.keyword \in Seq(Hits)
  BY <1>1, InSearch DEF Understood
<1>3. /\ DOMAIN search' = Fields /\ search'.request = search.request /\ search'.answer = search.answer
      /\ search'.keyword = search.keyword \o Truncate(found, Pool) /\ search'.vector = search.vector
      /\ search'.hits = search.hits /\ search'.sub = search.sub
      /\ search'.pc = "vectors"
  BY <1>2 DEF RetrieveKeyword, Fields
<1>4. search.sub \in DOMAIN SubQueries
  BY <1>1 DEF Inv, StageOK, At
<1>5. found \in Seq(Hits)
  <2>1. SubQueries[search.sub] \in Seq(Vocabulary)
    BY <1>2, <1>4, RequestFacts, SeqFacts DEF Texts
  <2>2. docs \in SUBSET Ids
    BY DEF Inv, StoresOK
  <2> QED
    BY <2>1, <2>2, KeywordHitsList, ListFacts
<1> HIDE DEF found
<1>6. search'.keyword \in Seq(Hits)
  <2>1. Truncate(found, Pool) \in Seq(Hits)
    BY <1>2, <1>5, RequestFacts, TruncateSeq
  <2> QED
    BY <1>2, <1>3, <2>1, ConcatProperties
<1>7. SearchOK' /\ SubQueries' = SubQueries
  BY <1>1, <1>3, <1>6, Going, InSearch DEF Labels
<1>8. StageOK'
  BY <1>2, <1>3, <1>4, <1>7 DEF StageOK, At, Understood
<1> QED
  BY <1>1, <1>7, <1>8, StoresKept DEF Inv

LEMMA RetrievedVectorsKeeps ==
  ASSUME Inv, NEW hits \in Seq(Hits), RetrievedVectors(hits)
  PROVE  Inv'
<1>1. search.pc = "vectors" /\ UNCHANGED <<stores, caches, searches, rrf>>
  BY DEF RetrievedVectors, At
<1>2. /\ DOMAIN search = Fields /\ SubQueries # <<>> /\ Request \in Requests
      /\ search.vector \in Seq(Hits)
  BY <1>1, InSearch DEF Understood
<1>3. /\ DOMAIN search' = Fields /\ search'.request = search.request /\ search'.answer = search.answer
      /\ search'.keyword = search.keyword /\ search'.vector = search.vector \o hits
      /\ search'.hits = search.hits /\ search'.sub = search.sub + 1
      /\ search'.pc = IF search.sub < Len(SubQueries) THEN "retrieve" ELSE "fuse"
  BY <1>2 DEF RetrievedVectors, Fields
<1>4. search'.pc \in {"retrieve", "fuse"}
  BY <1>3
<1>5. search'.pc = "retrieve" => search.sub + 1 \in DOMAIN SubQueries
  <2>1. search.sub \in DOMAIN SubQueries
    BY <1>1 DEF Inv, StageOK, At
  <2>2. DOMAIN SubQueries = 1..Len(SubQueries) /\ Len(SubQueries) \in Nat
    BY <1>2, RequestFacts, SeqFacts
  <2>3. search.sub < Len(SubQueries) => search.sub + 1 \in DOMAIN SubQueries
    BY <2>1, <2>2
  <2> QED
    BY <1>3, <2>3
<1>6. search'.vector \in Seq(Hits)
  BY <1>2, <1>3, ConcatProperties
<1>7. SearchOK' /\ SubQueries' = SubQueries
  BY <1>1, <1>3, <1>4, <1>6, Going, InSearch DEF Labels
<1>8. StageOK'
  BY <1>2, <1>3, <1>4, <1>5, <1>7 DEF StageOK, At, Understood
<1> QED
  BY <1>1, <1>7, <1>8, StoresKept DEF Inv

LEMMA RetrieveVectorsKeeps ==
  ASSUME Inv, RetrieveVectors \/ VectorsFail
  PROVE  Inv'
<1>1. CASE RetrieveVectors
  <2>1. PICK order \in VectorOrders : RetrievedVectors(VectorHits(order))
    BY <1>1 DEF RetrieveVectors
  <2>2. Request \in Requests
    BY <2>1, InSearch DEF RetrievedVectors, At
  <2> QED
    BY <2>1, <2>2, VectorHitsSeq, RetrievedVectorsKeeps
<1>2. CASE VectorsFail
  BY <1>2, NoHits, RetrievedVectorsKeeps DEF VectorsFail
<1> QED
  BY <1>1, <1>2

(* A step that only makes another list of the hits. *)
LEMMA HitsChanged ==
  ASSUME Inv, search.pc \in Understood, NEW pc, pc \in Understood \ {"callers", "retrieve", "vectors"},
         UNCHANGED <<stores, caches, searches, rrf>>,
         DOMAIN search' = Fields, search'.pc = pc, search'.request = search.request, search'.answer = search.answer,
         search'.keyword \in Seq(Hits), search'.vector \in Seq(Hits),
         search'.hits \in Seq(Hits),
         pc \in {"boost", "rerank", "diversify", "expand"} => search'.hits \in ListsOf(Passing(Request)),
         pc = "assemble" => /\ search'.hits \in ListsOf(AnswerIds(Request, search'.expanded))
                            /\ Len(search'.hits) <= Request.limit /\ Descending(search'.hits)
  PROVE  Inv'
<1>1. search.pc \notin {"idle", "answered"} /\ search'.pc \in Labels \ {"idle", "answered"}
  BY DEF Understood, Labels
<1>2. SubQueries # <<>>
  BY <1>1, InSearch
<1>3. SearchOK' /\ Request' = Request /\ SubQueries' = SubQueries
  BY <1>1, Going
<1>4. search'.pc \notin {"callers", "retrieve", "vectors", "answered"}
  BY <1>1
<1>5. StageOK'
  BY <1>2, <1>3, <1>4 DEF StageOK, At
<1> QED
  BY <1>3, <1>5, StoresKept DEF Inv

LEMMA FuseKeeps ==
  ASSUME Inv, Fuse
  PROVE  Inv'
<1> DEFINE hits == Select(FilterHitsByControls(Fused, Parsed.controls),
                          LAMBDA h : Request.exported => Sym[h.id].exported)
<1>1. /\ search.pc = "fuse" /\ search' = Ranks(hits) /\ UNCHANGED <<stores, caches, searches, rrf>>
  BY DEF Fuse, At
<1>2. /\ DOMAIN search = Fields /\ SubQueries # <<>> /\ Request \in Requests
      /\ search.keyword \in Seq(Hits) /\ search.vector \in Seq(Hits)
  BY <1>1, InSearch DEF Understood
<1>3. hits \in ListsOf(Passing(Request))
  <2>1. Fused \in ListsOf(Ids)
    BY <1>2, FusedIsList
  <2> QED
    BY <1>2, <2>1, FilteredList
<1> HIDE DEF hits
<1>4. /\ DOMAIN search' = Fields /\ search'.pc = "boost" /\ search'.request = search.request
      /\ search'.answer = search.answer /\ search'.keyword = <<>> /\ search'.vector = <<>>
      /\ search'.hits = hits
  BY <1>1, <1>2 DEF Ranks, Fields
<1>5. hits \in Seq(Hits) /\ <<>> \in Seq(Hits)
  BY <1>3, ListFacts, EmptySeq
<1> QED
  BY <1>1, <1>2, <1>3, <1>4, <1>5, HitsChanged DEF Understood

LEMMA BoostKeeps ==
  ASSUME Inv, Boost
  PROVE  Inv'
<1> DEFINE P == Passing(Request)
           popular == PopularityBoost(search.hits, RankOf)
           documented == DocstringBoost(popular, Documented \cap rows)
           selected == SelectionBoost(documented, {}, Expanded)
           zero == [f \in DOMAIN File |-> 0]
           near == AffinityBoost(selected, zero)
           hits == PackageBoost(near, Packages, Paths, Parsed.controls["package"], Intent.class)
<1>1. /\ search.pc = "boost" /\ search' = [search EXCEPT !.pc = "rerank", !.hits = hits]
      /\ UNCHANGED <<stores, caches, searches, rrf>>
  BY DEF Boost, At
<1>2. /\ DOMAIN search = Fields
      /\ search.keyword \in Seq(Hits) /\ search.vector \in Seq(Hits)
  BY <1>1, InSearch
<1>3. search.hits \in ListsOf(P)
  BY <1>1 DEF Inv, StageOK, At
<1> HIDE DEF P
<1>4. popular \in ListsOf(P)
  BY <1>3, RanksAreInts, PopularList
<1> HIDE DEF popular
<1>5. documented \in ListsOf(P)
  BY <1>4, DocumentedList
<1> HIDE DEF documented
<1>6. selected \in ListsOf(P)
  BY <1>5, SelectedList
<1> HIDE DEF selected
<1>7. zero \in [DOMAIN File -> Int]
  OBVIOUS
<1> HIDE DEF zero
<1>8. near \in ListsOf(P)
  BY <1>6, <1>7, NearList
<1> HIDE DEF near
<1>9. hits \in ListsOf(P)
  BY <1>8, PackageList
<1> HIDE DEF hits
<1>10. /\ DOMAIN search' = Fields /\ search'.pc = "rerank" /\ search'.request = search.request
       /\ search'.answer = search.answer /\ search'.keyword = search.keyword /\ search'.vector = search.vector
       /\ search'.hits = hits
  BY <1>1, <1>2 DEF Fields
<1>11. hits \in Seq(Hits)
  BY <1>9, ListFacts
<1> QED
  BY <1>1, <1>2, <1>9, <1>10, <1>11, HitsChanged DEF Understood, P

LEMMA RerankKeeps ==
  ASSUME Inv, Rerank
  PROVE  Inv'
<1> DEFINE P == Passing(Request)
           docsOf == RerankDocs(search.hits)
           Scored(s) == [i \in DOMAIN docsOf |-> s[docsOf[i].id]]
<1>1. search.pc = "rerank" /\ UNCHANGED <<stores, caches, searches, rrf>>
  BY DEF Rerank, At
<1>2. PICK hits : /\ \/ hits = search.hits
                     \/ \E s \in RerankScores : hits = ApplyRerankerScores(search.hits, Scored(s))
                  /\ search' = [search EXCEPT !.pc = "diversify", !.hits = hits]
  BY DEF Rerank
<1>3. /\ DOMAIN search = Fields
      /\ search.keyword \in Seq(Hits) /\ search.vector \in Seq(Hits)
  BY <1>1, InSearch
<1>4. search.hits \in ListsOf(P)
  BY <1>1 DEF Inv, StageOK, At
<1> HIDE DEF P
<1>5. ASSUME NEW s \in RerankScores
      PROVE  ApplyRerankerScores(search.hits, Scored(s)) \in ListsOf(P)
  <2>1. docsOf \in Seq(Hits)
    BY <1>4, ListFacts, TruncateSeq DEF RerankDocs
  <2> HIDE DEF docsOf
  <2>2. s \in [Ids -> Int]
    BY StoresAssumption, IdsAreNumbers
  <2>3. \A i \in DOMAIN docsOf : s[docsOf[i].id] \in Int
    BY <2>1, <2>2, SeqFacts, HitFacts
  <2> DEFINE scores == Scored(s)
  <2>4. \A i \in DOMAIN search.hits \cap DOMAIN scores : scores[i] \in Int
    BY <2>3
  <2> HIDE DEF scores
  <2>5. ApplyRerankerScores(search.hits, scores) \in ListsOf(P)
    BY <1>4, <2>4, RerankedList
  <2> QED
    BY <2>5 DEF scores
<1>6. hits \in ListsOf(P)
  BY <1>2, <1>4, <1>5
<1>7. /\ DOMAIN search' = Fields /\ search'.pc = "diversify" /\ search'.request = search.request
      /\ search'.answer = search.answer /\ search'.keyword = search.keyword /\ search'.vector = search.vector
      /\ search'.hits = hits
  BY <1>2, <1>3 DEF Fields
<1>8. hits \in Seq(Hits)
  BY <1>6, ListFacts
<1> QED
  BY <1>1, <1>3, <1>6, <1>7, <1>8, HitsChanged DEF Understood, P

LEMMA DiversifyKeeps ==
  ASSUME Inv, DiversifyHits
  PROVE  Inv'
<1> DEFINE P == Passing(Request)
           hits == Diversify(search.hits, Request.limit, ClusterOf)
<1>1. /\ search.pc = "diversify" /\ UNCHANGED <<stores, caches, searches, rrf>>
      /\ search' = [search EXCEPT !.pc = "expand", !.hits = hits]
  BY DEF DiversifyHits, At
<1>2. /\ DOMAIN search = Fields /\ Request \in Requests
      /\ search.keyword \in Seq(Hits) /\ search.vector \in Seq(Hits) /\ search.hits \in Seq(Hits)
  BY <1>1, InSearch
<1>3. search.hits \in ListsOf(P)
  BY <1>1 DEF Inv, StageOK, At
<1> HIDE DEF P
<1>4. Request.limit \in Nat \ {0}
  BY <1>2, RequestFacts
<1>6. hits \in ListsOf(P)
  BY <1>3, <1>4, DiversifiedList
<1> HIDE DEF hits
<1>7. /\ DOMAIN search' = Fields /\ search'.pc = "expand" /\ search'.request = search.request
      /\ search'.answer = search.answer /\ search'.keyword = search.keyword /\ search'.vector = search.vector
      /\ search'.hits = hits
  BY <1>1, <1>2 DEF Fields
<1>8. hits \in Seq(Hits)
  BY <1>6, ListFacts
<1> QED
  BY <1>1, <1>2, <1>6, <1>7, <1>8, HitsChanged DEF Understood, P

LEMMA ExpandKeeps ==
  ASSUME Inv, ExpandHits
  PROVE  Inv'
<1> DEFINE e == ExpandWithEdges(search.hits, Request.limit, RowEdges, rows)
<1>1. /\ search.pc = "expand" /\ UNCHANGED <<stores, caches, searches, rrf>>
      /\ search' = [search EXCEPT !.pc = "assemble", !.hits = e.hits, !.expanded = e.ids]
  BY DEF ExpandHits, At
<1>2. /\ DOMAIN search = Fields /\ Request \in Requests
      /\ search.keyword \in Seq(Hits) /\ search.vector \in Seq(Hits)
  BY <1>1, InSearch
<1>3. search.hits \in ListsOf(Passing(Request))
  BY <1>1 DEF Inv, StageOK, At
<1>4. Request.limit \in Nat /\ RowEdges \subseteq Edges
  BY <1>2, RequestFacts DEF RowEdges
<1>5. e.hits \in ListsOf(AnswerIds(Request, e.ids)) /\ Len(e.hits) <= Request.limit /\ Descending(e.hits)
  BY <1>3, <1>4, ExpandedList
<1> HIDE DEF e
<1>6. /\ DOMAIN search' = Fields /\ search'.pc = "assemble" /\ search'.request = search.request
      /\ search'.answer = search.answer /\ search'.keyword = search.keyword /\ search'.vector = search.vector
      /\ search'.hits = e.hits /\ search'.expanded = e.ids
  BY <1>1, <1>2 DEF Fields
<1>7. e.hits \in Seq(Hits) /\ <<>> \in Seq(Hits)
  BY <1>5, ListFacts, EmptySeq
<1> QED
  BY <1>1, <1>2, <1>5, <1>6, <1>7, HitsChanged DEF Understood

LEMMA AssembleKeeps ==
  ASSUME Inv, AssembleAnswer
  PROVE  Inv'
<1> DEFINE ids == [i \in DOMAIN search.hits |-> search.hits[i].id]
           found == Taken(ids, {i \in DOMAIN ids : ids[i] \in rows})
           roots == Taken(found, {i \in DOMAIN found : found[i] \notin search.expanded})
           extra == Taken(found, {i \in DOMAIN found : found[i] \in search.expanded})
<1>1. /\ search.pc = "assemble"
      /\ AnswerWithContext("ranked", search.hits, search.expanded, roots, extra, TruncationQuery)
  BY DEF AssembleAnswer, At, Select, Taken
<1>2. /\ Request \in Requests /\ SubQueries # <<>> /\ search.hits \in Seq(Hits)
  BY <1>1, InSearch DEF Understood
<1>3. /\ search.hits \in ListsOf(AnswerIds(Request, search.expanded))
      /\ Len(search.hits) <= Request.limit /\ Descending(search.hits)
  BY <1>1 DEF Inv, StageOK, At
<1>4. \A i \in DOMAIN search.hits : search.hits[i].id \in Ids
  BY <1>2, SeqFacts, HitFacts
<1>5. ids = [i \in DOMAIN search.hits |-> ids[i]] /\ \A i \in DOMAIN search.hits : ids[i] \in Ids
  BY <1>4
<1> HIDE DEF ids
<1>6. ids \in Seq(Ids)
  BY <1>2, <1>5, MappedSeq
<1>7. found \in Seq(Ids)
  BY <1>6, TakenPicks
<1> HIDE DEF found
<1>8. roots \in Seq(Ids) /\ extra \in Seq(Ids)
  BY <1>7, TakenPicks
<1>9. TruncationQuery \in Texts
  <2>1. SubQueries \in Seq(Texts) /\ Parsed.text \in Texts
    BY <1>2, RequestFacts
  <2>2. SubQueries[1] \in Texts
    BY <1>2, <2>1, SeqFacts
  <2> QED
    BY <2>1, <2>2 DEF TruncationQuery
<1>10. ASSUME NEW items, InBudget(items)
       PROVE  AnswerOK(Request, [path |-> "ranked", hits |-> search.hits, expanded |-> search.expanded, items |-> items])
  BY <1>2, <1>3, <1>10, ListFacts DEF AnswerOK
<1> HIDE DEF roots, extra
<1> QED
  BY <1>1, <1>2, <1>8, <1>9, <1>10, AnsweredWell

LEMMA FailKeeps ==
  ASSUME Inv, Fail
  PROVE  Inv'
<1>1. search.pc \notin {"idle", "answered"} /\ search' = Ended("failed", NoAnswer)
      /\ UNCHANGED <<stores, caches, searches, rrf>>
  BY DEF Fail
<1>2. Request \in Requests
  BY <1>1, InSearch
<1> QED
  BY <1>1, <1>2, EndedWell, StoresKept DEF Inv

(* The steps of others leave the search alone; a restart forgets it. *)
LEMMA SearchKept ==
  ASSUME Inv, UNCHANGED search
  PROVE  SearchOK' /\ StageOK'
<1>1. Request' = Request /\ SubQueries' = SubQueries
  BY SameRequest
<1>2. SearchOK'
  BY DEF Inv, SearchOK
<1>3. StageOK'
  BY <1>1 DEF Inv, StageOK, At
<1> QED
  BY <1>2, <1>3

LEMMA OthersKeep ==
  ASSUME Inv, CleanFile \/ DeleteVectors \/ CommitRun
  PROVE  Inv'
<1>1. UNCHANGED <<caches, search, searches>>
  BY DEF CleanFile, DeleteVectors, CommitRun
<1>2. rows' \in SUBSET Ids /\ docs' \in SUBSET Ids /\ vecs' \in SUBSET Ids
  BY DEF CleanFile, DeleteVectors, CommitRun, Inv, StoresOK
<1>3. StoresOK'
  BY <1>1, <1>2 DEF Inv, StoresOK, caches
<1> QED
  BY <1>1, <1>3, SearchKept DEF Inv

LEMMA IdleIsWell ==
  /\ DOMAIN Idle = Fields /\ Idle.pc = "idle" /\ Idle.request = None
  /\ Idle.keyword = <<>> /\ Idle.vector = <<>> /\ Idle.hits = <<>>
  /\ Idle.answer = NoAnswer
BY DEF Idle, Fields

LEMMA RestartKeeps ==
  ASSUME Inv, Restart
  PROVE  Inv'
<1>1. /\ search' = Idle /\ responses' = EmptyCache /\ contexts' = EmptyCache /\ searches' = 0
      /\ UNCHANGED stores
  BY DEF Restart
<1>2. SearchOK'
  BY <1>1, IdleIsWell, NoHits DEF SearchOK, Labels
<1>3. StageOK'
  BY <1>1, IdleIsWell DEF StageOK, At, Understood
<1>4. MaxSearches \in Nat
  BY StoresAssumption
<1>5. StoresOK'
  BY <1>1, <1>4 DEF Inv, StoresOK, stores, EmptyCache
<1> QED
  BY <1>2, <1>3, <1>5 DEF Inv

(* The invariant holds at the start and is kept by every step. *)
THEOREM SearchInvariant == Spec => []Inv
<1>1. Init => Inv
  <2> SUFFICES ASSUME Init PROVE Inv
    OBVIOUS
  <2>1. /\ rows = Ids /\ docs = Ids /\ vecs = Ids /\ responses = EmptyCache /\ contexts = EmptyCache
        /\ search = Idle /\ searches = 0
    BY DEF Init
  <2>2. StoresOK
    BY <2>1, StoresAssumption DEF StoresOK, EmptyCache
  <2>3. SearchOK
    BY <2>1, IdleIsWell, NoHits DEF SearchOK, Labels
  <2>4. StageOK
    BY <2>1, IdleIsWell DEF StageOK, At, Understood
  <2> QED
    BY <2>2, <2>3, <2>4 DEF Inv
<1>2. Inv /\ [Next]_vars => Inv'
  <2> SUFFICES ASSUME Inv, [Next]_vars PROVE Inv'
    OBVIOUS
  <2>1. CASE Ask
    BY <2>1, AskKeeps
  <2>2. CASE Lookup
    BY <2>2, LookupKeeps
  <2>3. CASE AnswerById
    BY <2>3, AnswerByIdKeeps
  <2>4. CASE Understand
    BY <2>4, UnderstandKeeps
  <2>5. CASE AnswerCallers
    BY <2>5, AnswerCallersKeeps
  <2>6. CASE NoCallers
    BY <2>6, NoCallersKeeps
  <2>7. CASE RetrieveKeyword
    BY <2>7, RetrieveKeywordKeeps
  <2>8. CASE RetrieveVectors \/ VectorsFail
    BY <2>8, RetrieveVectorsKeeps
  <2>9. CASE Fuse
    BY <2>9, FuseKeeps
  <2>10. CASE Boost
    BY <2>10, BoostKeeps
  <2>11. CASE Rerank
    BY <2>11, RerankKeeps
  <2>12. CASE DiversifyHits
    BY <2>12, DiversifyKeeps
  <2>13. CASE ExpandHits
    BY <2>13, ExpandKeeps
  <2>14. CASE AssembleAnswer
    BY <2>14, AssembleKeeps
  <2>15. CASE CleanFile \/ DeleteVectors \/ CommitRun
    BY <2>15, OthersKeep
  <2>18. CASE Fail
    BY <2>18, FailKeeps
  <2>16. CASE Restart
    BY <2>16, RestartKeeps
  <2>17. CASE UNCHANGED vars
    <3>1. UNCHANGED <<stores, caches, searches, rrf>> /\ UNCHANGED search
      BY <2>17 DEF vars
    <3> QED
      BY <3>1, StoresKept, SearchKept DEF Inv
  <2> QED
    BY <2>1, <2>2, <2>3, <2>4, <2>5, <2>6, <2>7, <2>8, <2>9, <2>10, <2>11, <2>12, <2>13, <2>14,
       <2>15, <2>16, <2>17, <2>18 DEF Next, Step
<1> QED
  BY <1>1, <1>2, PTL DEF Spec

-----------------------------------------------------------------------------
(* What the invariant says of an answer. *)

LEMMA Answered ==
  ASSUME Inv, At("answered")
  PROVE  AnswerOK(Request, search.answer) /\ Request \in Requests
BY DEF Inv, SearchOK, StageOK, At, Request

LEMMA HitsAreHits ==
  ASSUME NEW s \in Seq(Hits)
  PROVE  IsHits(s)
BY SeqFacts, HitFacts DEF IsHits

(* The state of a search keeps the shape the code gives it, and a store is    *)
(* asked for a sub-query only while there is one (search indexes the list of  *)
(* sub-queries by the loop's counter).                                        *)
THEOREM SearchTypes == Spec => []TypeOK
<1>1. Inv => TypeOK
  <2> SUFFICES ASSUME Inv PROVE TypeOK
    OBVIOUS
  <2>1. IsHits(search.keyword) /\ IsHits(search.vector) /\ IsHits(search.hits)
    BY HitsAreHits DEF Inv, SearchOK
  <2>2. IsHits(search.answer.hits)
    <3>1. CASE At("answered")
      BY <3>1, Answered, HitsAreHits DEF AnswerOK
    <3>2. CASE ~At("answered")
      <4>1. search.answer = NoAnswer
        BY <3>2 DEF Inv, SearchOK, At
      <4> QED
        BY <4>1, NoHits
    <3> QED
      BY <3>1, <3>2
  <2>3. {rows, docs, vecs} \subseteq SUBSET Ids /\ DOMAIN responses \subseteq Requests /\ searches \in 0..MaxSearches
    BY DEF Inv, StoresOK
  <2>4. search.pc \in Labels /\ search.request \in Requests \cup {None}
    BY DEF Inv, SearchOK
  <2>5. search.pc \in {"retrieve", "vectors"} => search.sub \in DOMAIN SubQueries
    BY DEF Inv, StageOK, At
  <2> QED
    BY <2>1, <2>2, <2>3, <2>4, <2>5 DEF TypeOK
<1> QED
  BY <1>1, SearchInvariant, PTL

(* Whatever the stores hold, the reranker says and an index run removes while *)
(* a search is under way, its answer names every symbol once, no more than    *)
(* the limit of the request, and the better before the worse; so does one     *)
(* from the cache (search, from the fusion to expand_with_edges).             *)
THEOREM AnswersRanked == Spec => []AnswersAreRanked
<1>1. Inv => AnswersAreRanked
  <2> SUFFICES ASSUME Inv, At("answered")
               PROVE  LET hits == search.answer.hits
                      IN  /\ Len(hits) <= Request.limit
                          /\ Distinct([i \in DOMAIN hits |-> hits[i].id])
                          /\ \A i \in 1..(Len(hits) - 1) : hits[i].score >= hits[i + 1].score
    BY DEF AnswersAreRanked
  <2> DEFINE hits == search.answer.hits
  <2>1. Len(hits) <= Request.limit /\ OncePerId(hits) /\ Descending(hits)
    BY Answered DEF AnswerOK
  <2> HIDE DEF hits
  <2>2. Distinct([i \in DOMAIN hits |-> hits[i].id])
    BY <2>1 DEF Distinct, OncePerId
  <2>3. \A i \in 1..(Len(hits) - 1) : hits[i].score >= hits[i + 1].score
    BY <2>1 DEF Descending
  <2> QED
    BY <2>1, <2>2, <2>3 DEF hits
<1> QED
  BY <1>1, SearchInvariant, PTL

(* What the request rules out (exported_only, the controls lang:, kind:,      *)
(* path: and file:) is not answered, but for the neighbours the answer was    *)
(* expanded with, and each of those is linked by an edge to a symbol that     *)
(* passes (filter_hits_by_controls, the filter of search, expand_with_edges). *)
THEOREM FiltersAreHeld == Spec => []FiltersHold
<1>1. Inv => FiltersHold
  <2> SUFFICES ASSUME Inv, At("answered"), NEW i \in DOMAIN search.answer.hits
               PROVE  LET a == search.answer
                          controls == Parsed.controls
                          id == a.hits[i].id
                      IN  IF a.path # "ranked" THEN Request.exported => Sym[id].exported
                          ELSE IF id \notin a.expanded THEN PassesFilters(id, controls)
                          ELSE \E e \in Edges : id \in {e.from, e.to}
                                  /\ \E other \in {e.from, e.to} \ {id} : PassesFilters(other, controls)
    BY DEF FiltersHold
  <2> DEFINE a == search.answer
             id == a.hits[i].id
  <2>1. AnswerOK(Request, a)
    BY Answered
  <2>2. \A x : Passes(Request, x) <=> PassesFilters(x, Parsed.controls)
    BY DEF Passes, PassesFilters, Parsed
  <2> HIDE DEF a
  <2>3. i \in DOMAIN a.hits
    BY DEF a
  <2>4. CASE a.path # "ranked"
    BY <2>1, <2>3, <2>4 DEF AnswerOK, a
  <2>5. CASE a.path = "ranked"
    <3>1. id \in AnswerIds(Request, a.expanded)
      BY <2>1, <2>3, <2>5, ListFacts DEF AnswerOK
    <3> HIDE DEF id
    <3>2. CASE id \notin a.expanded
      <4>1. PassesFilters(id, Parsed.controls)
        BY <2>2, <3>1, <3>2 DEF AnswerIds, Passing
      <4> QED
        BY <2>5, <3>2, <4>1 DEF a, id
    <3>3. CASE id \in a.expanded
      <4>1. \E e \in Edges : id \in {e.from, e.to}
               /\ \E other \in {e.from, e.to} \ {id} : PassesFilters(other, Parsed.controls)
        BY <2>2, <3>1, <3>3, Zenon DEF AnswerIds, Linked, Passing
      <4> QED
        BY <2>5, <3>3, <4>1, Zenon DEF a, id
    <3> QED
      BY <3>2, <3>3
  <2> QED
    BY <2>4, <2>5
<1> QED
  BY <1>1, SearchInvariant, PTL

(* Diversification fills every place there is a hit for, and which hits it    *)
(* chooses is settled by the similarity clusters and the order of the list:   *)
(* first, best first, those with fewer than two better ones of their cluster  *)
(* chosen, then the others (diversify_by_cluster, its two neighbours, search).*)
THEOREM SelectionDiverse == Spec => SelectionIsDiverse
<1>1. ASSUME Inv, [Next]_vars, At("diversify"), search'.pc = "expand"
      PROVE  LET all == search.hits
                 chosen == IdsOf(search'.hits)
             IN  /\ Len(search'.hits) = Least(Request.limit, Len(all))
                 /\ \A i, j \in DOMAIN all :
                       all[i].id \notin chosen /\ all[j].id \in chosen =>
                         \/ Crowded(all, chosen, i) /\ ~Crowded(all, chosen, j)
                         \/ (Crowded(all, chosen, i) <=> Crowded(all, chosen, j)) /\ j < i
  <2> DEFINE all == search.hits
             hits == Diversify(all, Request.limit, ClusterOf)
  <2>0. search.pc = "diversify" /\ search' # search
    BY <1>1 DEF At
  <2>1. DiversifyHits
    <3>1. Next
      BY <1>1, <2>0 DEF vars
    <3>2. ~Ask /\ ~Restart
      BY <2>0 DEF Ask, Restart
    <3>3. ~CleanFile /\ ~DeleteVectors /\ ~CommitRun
      BY <2>0 DEF CleanFile, DeleteVectors, CommitRun
    <3>4. ~Lookup /\ ~AnswerById /\ ~Understand
      BY <2>0 DEF Lookup, AnswerById, Understand, At
    <3>5. ~AnswerCallers /\ ~NoCallers
      BY <2>0 DEF AnswerCallers, NoCallers, At
    <3>6. ~RetrieveKeyword /\ ~RetrieveVectors /\ ~VectorsFail
      BY <2>0 DEF RetrieveKeyword, RetrieveVectors, VectorsFail, RetrievedVectors, At
    <3>7. ~Fuse /\ ~Boost /\ ~Rerank
      BY <2>0 DEF Fuse, Boost, Rerank, At
    <3>8. ~ExpandHits /\ ~AssembleAnswer /\ ~Fail
      BY <2>0 DEF ExpandHits, AssembleAnswer, Fail, At
    <3> QED
      BY <3>1, <3>2, <3>3, <3>4, <3>5, <3>6, <3>7, <3>8, Zenon DEF Next, Step
  <2>2. DOMAIN search = Fields /\ Request.limit \in Nat \ {0} /\ all \in ListsOf(Passing(Request))
    <3>1. DOMAIN search = Fields /\ Request \in Requests
      BY <1>1, <2>0, InSearch
    <3> QED
      BY <1>1, <2>0, <3>1, RequestFacts DEF Inv, StageOK, At
  <2>3. search'.hits = hits
    BY <2>1, <2>2 DEF DiversifyHits, Fields
  <2>4. ChosenFrom(Request.limit, all, hits, ClusterOf)
    BY <2>2, DiversifiedList
  <2>5. \A i : Crowded(all, IdsOf(hits), i) <=> FullIn(all, IdsOf(hits), ClusterOf, 2, i)
    BY DEF Crowded, FullIn
  <2> HIDE DEF all, hits
  <2>6. /\ Len(hits) = Least(Request.limit, Len(all))
        /\ \A i, j \in DOMAIN all :
              all[i].id \notin IdsOf(hits) /\ all[j].id \in IdsOf(hits) =>
                \/ Crowded(all, IdsOf(hits), i) /\ ~Crowded(all, IdsOf(hits), j)
                \/ (Crowded(all, IdsOf(hits), i) <=> Crowded(all, IdsOf(hits), j)) /\ j < i
    BY <2>4, <2>5, Zenon DEF ChosenFrom, Preferred
  <2> QED
    BY <2>3, <2>6, Zenon DEF all
<1>2. Inv /\ [Next]_vars => [At("diversify") /\ search'.pc = "expand" =>
         LET all == search.hits
             chosen == IdsOf(search'.hits)
         IN  /\ Len(search'.hits) = Least(Request.limit, Len(all))
             /\ \A i, j \in DOMAIN all :
                   all[i].id \notin chosen /\ all[j].id \in chosen =>
                     \/ Crowded(all, chosen, i) /\ ~Crowded(all, chosen, j)
                     \/ (Crowded(all, chosen, i) <=> Crowded(all, chosen, j)) /\ j < i]_vars
  BY <1>1, Zenon
<1> QED
  BY <1>2, SearchInvariant, PTL DEF Spec, SelectionIsDiverse

(* The context of an answer, assembled for it or kept, keeps to its budget:   *)
(* without its last item it fits max_context_tokens, a role with several      *)
(* items keeps to its share of it, and nothing is shown a third time, or a    *)
(* second one for anything but a root (assemble_context, admit).              *)
THEOREM ContextKeepsBudget == Spec => []ContextWithinBudget
<1>1. Inv => ContextWithinBudget
  <2> SUFFICES ASSUME Inv, At("answered") PROVE ContextWithinBudget
    BY DEF ContextWithinBudget
  <2>1. InBudget(search.answer.items)
    BY Answered DEF AnswerOK
  <2> QED
    BY <2>1, Zenon DEF InBudget, ContextWithinBudget
<1> QED
  BY <1>1, SearchInvariant, PTL

=============================================================================
