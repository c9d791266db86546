--------------------------- MODULE LruCacheProofs ---------------------------
(***************************************************************************)
(* Theorems about LruCache: types, lim and accounting, and which keys   *)
(* are kept, for any keys, values, sizes and lim.                       *)
(***************************************************************************)
EXTENDS LruCache, FiniteSetTheorems, SequenceTheorems, TLAPS

-----------------------------------------------------------------------------
(* The operations of LruCaches on caches of any keys and values: what they *)
(* return, and that the queue, the table and the number of bytes keep      *)
(* telling the same.                                                       *)

CacheOf(K, V) ==
    [order   : Seq(K),
     entries : UNION {[D -> [value : V, size : Nat]] : D \in SUBSET K},
     used    : Nat]

(* The queue and the table hold the same keys, each once, and the number   *)
(* of bytes is that of the values.                                         *)
Sound(c, K, V) ==
    /\ c \in CacheOf(K, V)
    /\ ToSet(c.order) = Keys(c)
    /\ IsInjective(c.order)
    /\ c.used = TotalSize(c)

-----------------------------------------------------------------------------
(* Naturals and queues. *)

LEMMA MinOfNaturals ==
  ASSUME NEW S \in SUBSET Nat, S # {}
  PROVE  Min(S) \in S /\ \A x \in S : Min(S) <= x
<1> DEFINE R == OpToRel(<, Nat)
<1>1. \A x, y \in Nat : x < y => <<x, y>> \in R
  BY DEF OpToRel
<1>2. IsWellFoundedOn(R, Nat)
  BY NatLessThanWellFounded
<1> HIDE DEF R
<1>3. \E x \in S : \A y \in S : ~ (<<y, x>> \in R)
  BY <1>2, WFMin
<1>4. PICK x \in S : \A y \in S : ~ (<<y, x>> \in R)
  BY <1>3
<1>5. \A y \in S : ~(y < x)
  BY <1>1, <1>4
<1>6. \A y \in S : x <= y
  BY <1>5
<1> QED
  BY <1>6 DEF Min

LEMMA RemoveAtProperties ==
  ASSUME NEW K, NEW s \in Seq(K), NEW p \in 1 .. Len(s)
  PROVE  /\ RemoveAt(s, p) \in Seq(K)
         /\ Len(RemoveAt(s, p)) = Len(s) - 1
         /\ \A i \in 1 .. Len(s) - 1 : RemoveAt(s, p)[i] = IF i < p THEN s[i] ELSE s[i + 1]
<1> DEFINE front == SubSeq(s, 1, p - 1)
           back == SubSeq(s, p + 1, Len(s))
<1>1. Len(s) \in Nat /\ \A i \in 1 .. Len(s) : s[i] \in K
  BY LenProperties, ElementOfSeq
<1>2. front \in Seq(K) /\ Len(front) = p - 1 /\ \A i \in 1 .. p - 1 : front[i] = s[i]
  BY <1>1, SubSeqProperties, 1 \in Int, p - 1 \in Int
<1>3. /\ back \in Seq(K) /\ Len(back) = Len(s) - p
      /\ \A i \in 1 .. Len(s) - p : back[i] = s[p + i]
  BY <1>1, SubSeqProperties, p + 1 \in Int, Len(s) \in Int
<1>4. RemoveAt(s, p) = front \o back
  BY DEF RemoveAt
<1> HIDE DEF front, back
<1>5. /\ front \o back \in Seq(K) /\ Len(front \o back) = Len(front) + Len(back)
      /\ \A i \in 1 .. Len(front) + Len(back) :
            (front \o back)[i] = IF i <= Len(front) THEN front[i] ELSE back[i - Len(front)]
  BY <1>2, <1>3, ConcatProperties
<1>6. \A i \in 1 .. Len(s) - 1 : i <= p - 1 <=> i < p
  BY <1>1
<1>7. \A i \in 1 .. Len(s) - 1 : ~(i < p) => i - (p - 1) \in 1 .. Len(s) - p /\ p + (i - (p - 1)) = i + 1
  BY <1>1
<1>8. Len(front) + Len(back) = Len(s) - 1
  BY <1>1, <1>2, <1>3
<1>9. ASSUME NEW i \in 1 .. Len(s) - 1
      PROVE  (front \o back)[i] = IF i < p THEN s[i] ELSE s[i + 1]
  <2>1. CASE i < p
    <3>1. i \in 1 .. p - 1
      BY <1>1, <2>1
    <3> QED
      BY <1>2, <1>5, <1>6, <1>8, <2>1, <3>1
  <2>2. CASE ~(i < p)
    <3>1. (front \o back)[i] = back[i - (p - 1)]
      BY <1>2, <1>5, <1>6, <1>8, <2>2
    <3> QED
      BY <1>3, <1>7, <2>2, <3>1
  <2> QED
    BY <2>1, <2>2
<1> QED
  BY <1>4, <1>5, <1>8, <1>9

(* The queue after a use: the key is its last, the other keys are those    *)
(* that were there, in their order.                                        *)
LEMMA TouchProperties ==
  ASSUME NEW K, NEW order \in Seq(K), IsInjective(order), NEW key \in K
  PROVE  LET t == Touch(order, key)
         IN  /\ t \in Seq(K) /\ IsInjective(t)
             /\ ToSet(t) = ToSet(order) \cup {key}
             /\ Len(t) = IF key \in ToSet(order) THEN Len(order) ELSE Len(order) + 1
             /\ t[Len(t)] = key
             /\ \A i, j \in DOMAIN t : i < j /\ t[j] # key =>
                  \E a, b \in DOMAIN order : a < b /\ order[a] = t[i] /\ order[b] = t[j]
<1> DEFINE t == Touch(order, key)
           places == {i \in DOMAIN order : order[i] = key}
           rest == IF places = {} THEN order ELSE RemoveAt(order, Min(places))
<1>1. /\ Len(order) \in Nat /\ DOMAIN order = 1 .. Len(order)
      /\ \A i \in 1 .. Len(order) : order[i] \in K
  BY LenProperties, ElementOfSeq
<1>2. t = Append(rest, key)
  BY DEF Touch
<1>3. CASE places = {}
  <2>1. rest = order /\ key \notin ToSet(order)
    BY <1>3 DEF ToSet
  <2>2. /\ t \in Seq(K) /\ Len(t) = Len(order) + 1
        /\ \A i \in 1 .. Len(order) : t[i] = order[i]
        /\ t[Len(order) + 1] = key
        /\ DOMAIN t = 1 .. Len(order) + 1
    <3>1. t = Append(order, key)
      BY <1>2, <2>1
    <3> HIDE DEF t
    <3>2. /\ t \in Seq(K) /\ Len(t) = Len(order) + 1
          /\ \A i \in 1 .. Len(order) : t[i] = order[i]
          /\ t[Len(order) + 1] = key
      BY <3>1, AppendProperties
    <3> QED
      BY <3>2, LenProperties
  <2>3. ToSet(t) = ToSet(order) \cup {key}
    BY <1>1, <2>2 DEF ToSet
  <2>4. IsInjective(t)
    BY <1>1, <2>1, <2>2 DEF IsInjective, ToSet
  <2>5. \A i, j \in DOMAIN t : i < j /\ t[j] # key =>
          \E a, b \in DOMAIN order : a < b /\ order[a] = t[i] /\ order[b] = t[j]
    BY <1>1, <2>2
  <2> QED
    BY <1>1, <2>1, <2>2, <2>3, <2>4, <2>5
<1>4. CASE places # {}
  <2> DEFINE p == Min(places)
  <2>1. p \in 1 .. Len(order) /\ order[p] = key
    <3>1. places \in SUBSET Nat
      BY <1>1
    <3>2. p \in places
      BY <1>4, <3>1, MinOfNaturals
    <3> QED
      BY <1>1, <3>2
  <2>2. key \in ToSet(order)
    BY <1>1, <2>1 DEF ToSet
  <2>3. rest = RemoveAt(order, p)
    BY <1>4
  <2> HIDE DEF p, rest
  <2>4. /\ rest \in Seq(K) /\ Len(rest) = Len(order) - 1
        /\ \A i \in 1 .. Len(order) - 1 :
              rest[i] = IF i < p THEN order[i] ELSE order[i + 1]
    BY <2>1, <2>3, RemoveAtProperties
  <2>5. /\ t \in Seq(K) /\ Len(t) = Len(order)
        /\ DOMAIN t = 1 .. Len(order)
        /\ \A i \in 1 .. Len(order) - 1 : t[i] = IF i < p THEN order[i] ELSE order[i + 1]
        /\ t[Len(order)] = key
    <3> HIDE DEF t
    <3>1. Len(rest) + 1 = Len(order)
      BY <1>1, <2>1, <2>4
    <3>2. /\ t \in Seq(K) /\ Len(t) = Len(rest) + 1
          /\ \A i \in 1 .. Len(rest) : t[i] = rest[i]
          /\ t[Len(rest) + 1] = key
      BY <1>2, <2>4, AppendProperties
    <3>3. DOMAIN t = 1 .. Len(t)
      BY <3>2, LenProperties
    <3> QED
      BY <2>4, <3>1, <3>2, <3>3
  <2> HIDE DEF t
  <2>6. \A i \in 1 .. Len(order) - 1 : t[i] # key
    BY <1>1, <2>1, <2>5 DEF IsInjective
  <2>7. \A a \in DOMAIN order : \E i \in DOMAIN t : t[i] = order[a]
    <3> SUFFICES ASSUME NEW a \in DOMAIN order PROVE \E i \in DOMAIN t : t[i] = order[a]
      OBVIOUS
    <3>1. CASE a < p
      BY <1>1, <2>1, <2>5, <3>1
    <3>2. CASE a = p
      BY <1>1, <2>1, <2>5, <3>2
    <3>3. CASE a > p
      <4>1. a - 1 \in 1 .. Len(order) - 1 /\ ~(a - 1 < p) /\ (a - 1) + 1 = a
        BY <1>1, <2>1, <3>3
      <4> QED
        BY <1>1, <2>5, <4>1
    <3> QED
      BY <1>1, <2>1, <3>1, <3>2, <3>3
  <2>8. \A i \in DOMAIN t : \E a \in DOMAIN order : t[i] = order[a]
    BY <1>1, <2>1, <2>5
  <2>9. ToSet(t) = ToSet(order) \cup {key}
    BY <2>2, <2>7, <2>8 DEF ToSet
  <2>10. IsInjective(t)
    <3> DEFINE from(i) == IF i < p THEN i ELSE i + 1
    <3>1. \A i, j \in 1 .. Len(order) - 1 :
            from(i) \in DOMAIN order /\ (from(i) = from(j) => i = j) /\ t[i] = order[from(i)]
      BY <1>1, <2>1, <2>5
    <3> HIDE DEF from
    <3>2. \A i, j \in 1 .. Len(order) - 1 : t[i] = t[j] => i = j
      BY <3>1 DEF IsInjective
    <3>3. \A i \in 1 .. Len(order) : i \in 1 .. Len(order) - 1 \/ i = Len(order)
      <4>1. Len(order) \in Nat
        BY <1>1
      <4> QED
        BY ONLY <4>1
    <3>4. \A i, j \in 1 .. Len(order) : t[i] = t[j] => i = j
      <4> SUFFICES ASSUME NEW i \in 1 .. Len(order), NEW j \in 1 .. Len(order), t[i] = t[j]
                   PROVE  i = j
        OBVIOUS
      <4>1. t[Len(order)] = key
        BY <2>5
      <4> QED
        BY <2>6, <3>2, <3>3, <4>1
    <3>5. DOMAIN t = 1 .. Len(order)
      BY <2>5
    <3> QED
      BY ONLY <3>4, <3>5 DEF IsInjective
  <2>11. ASSUME NEW i \in DOMAIN t, NEW j \in DOMAIN t, i < j, t[j] # key
         PROVE  \E a, b \in DOMAIN order : a < b /\ order[a] = t[i] /\ order[b] = t[j]
    <3>1. i \in 1 .. Len(order) - 1 /\ j \in 1 .. Len(order) - 1
      BY <1>1, <2>5, <2>11
    <3> DEFINE a == IF i < p THEN i ELSE i + 1
               b == IF j < p THEN j ELSE j + 1
    <3>2. a \in DOMAIN order /\ b \in DOMAIN order /\ a < b
      BY <1>1, <2>1, <2>11, <3>1
    <3>3. order[a] = t[i] /\ order[b] = t[j]
      BY <2>1, <2>5, <3>1
    <3> QED
      BY <3>2, <3>3
  <2> QED
    BY <2>2, <2>5, <2>9, <2>10, <2>11 DEF t
<1> QED
  BY <1>3, <1>4

-----------------------------------------------------------------------------
(* Sizes. *)

Bytes(c, keys) == UNION {{k} \X (1 .. c.entries[k].size) : k \in keys}

HasSizes(c, keys) == IsFiniteSet(keys) /\ \A k \in keys : c.entries[k].size \in Nat

LEMMA BytesAreFinite ==
  ASSUME NEW c, NEW S, HasSizes(c, S)
  PROVE  IsFiniteSet(Bytes(c, S))
<1> DEFINE f == [k \in S |-> {k} \X (1 .. c.entries[k].size)]
           T == {{k} \X (1 .. c.entries[k].size) : k \in S}
<1>1. f \in [S -> T] /\ \A t \in T : \E k \in S : f[k] = t
  OBVIOUS
<1>2. f \in Surjection(S, T)
  BY <1>1 DEF Surjection
<1>3. IsFiniteSet(T)
  BY <1>2, FS_Surjection DEF HasSizes
<1>4. ASSUME NEW k \in S PROVE IsFiniteSet({k} \X (1 .. c.entries[k].size))
  <2>1. IsFiniteSet({k}) /\ IsFiniteSet(1 .. c.entries[k].size)
    <3>1. 1 \in Int /\ c.entries[k].size \in Int
      BY DEF HasSizes
    <3> QED
      BY <3>1, FS_Singleton, FS_Interval
  <2> QED
    BY <2>1, FS_Product
<1>5. \A t \in T : IsFiniteSet(t)
  BY <1>4
<1> QED
  BY <1>3, <1>5, FS_UNION DEF Bytes

LEMMA SizeIsNatural ==
  ASSUME NEW c, NEW S, HasSizes(c, S)
  PROVE  SizeOf(c, S) \in Nat
  BY BytesAreFinite, FS_CardinalityType DEF SizeOf, Bytes

LEMMA SizeOfNone ==
  ASSUME NEW c
  PROVE  SizeOf(c, {}) = 0
<1>1. Bytes(c, {}) = {}
  BY DEF Bytes
<1> QED
  BY <1>1, FS_EmptySet DEF SizeOf, Bytes

LEMMA SizeOfOne ==
  ASSUME NEW c, NEW k, c.entries[k].size \in Nat
  PROVE  SizeOf(c, {k}) = c.entries[k].size
<1> DEFINE n == c.entries[k].size
<1>1. Bytes(c, {k}) = {k} \X (1 .. n)
  <2>1. {{o} \X (1 .. c.entries[o].size) : o \in {k}} = {{k} \X (1 .. n)}
    OBVIOUS
  <2> QED
    BY <2>1, Zenon DEF Bytes
<1>2. IsFiniteSet({k}) /\ Cardinality({k}) = 1
  BY FS_Singleton
<1>3. IsFiniteSet(1 .. n) /\ Cardinality(1 .. n) = n
  <2>1. 1 \in Int /\ n \in Int /\ n \in Nat
    OBVIOUS
  <2> HIDE DEF n
  <2>2. IsFiniteSet(1 .. n) /\ Cardinality(1 .. n) = IF 1 > n THEN 0 ELSE n - 1 + 1
    BY <2>1, FS_Interval
  <2> QED
    BY <2>1, <2>2
<1>4. Cardinality({k} \X (1 .. n)) = 1 * n
  <2>1. Cardinality({k} \X (1 .. n)) = Cardinality({k}) * Cardinality(1 .. n)
    BY <1>2, <1>3, FS_Product, Zenon
  <2> QED
    BY <1>2, <1>3, <2>1, Zenon
<1>5. SizeOf(c, {k}) = Cardinality({k} \X (1 .. n))
  BY <1>1, Zenon DEF SizeOf, Bytes
<1>6. n \in Nat
  OBVIOUS
<1> HIDE DEF n
<1>7. SizeOf(c, {k}) = n
  BY <1>4, <1>5, <1>6
<1> QED
  BY <1>7 DEF n

(* The bytes of two sets without a key in common add up.                   *)
LEMMA SizesAdd ==
  ASSUME NEW c, NEW S, NEW T, HasSizes(c, S), HasSizes(c, T), S \cap T = {}
  PROVE  SizeOf(c, S \cup T) = SizeOf(c, S) + SizeOf(c, T)
<1> DEFINE A == Bytes(c, S)
           B == Bytes(c, T)
<1>1. IsFiniteSet(A) /\ IsFiniteSet(B)
  BY BytesAreFinite
<1>2. Bytes(c, S \cup T) = A \cup B
  BY DEF Bytes
<1>3. A \cap B = {}
  <2>1. \A b \in A : b[1] \in S
    BY DEF Bytes
  <2>2. \A b \in B : b[1] \in T
    BY DEF Bytes
  <2> QED
    BY <2>1, <2>2
<1>4. SizeOf(c, S) = Cardinality(A) /\ SizeOf(c, T) = Cardinality(B)
  BY DEF SizeOf, Bytes
<1>5. SizeOf(c, S \cup T) = Cardinality(A \cup B)
  BY <1>2 DEF SizeOf, Bytes
<1> HIDE DEF A, B
<1>6. Cardinality(A \cup B) = Cardinality(A) + Cardinality(B) - 0
  BY <1>1, <1>3, FS_Union, FS_EmptySet
<1>7. Cardinality(A) \in Nat /\ Cardinality(B) \in Nat
  BY <1>1, FS_CardinalityType
<1> QED
  BY <1>4, <1>5, <1>6, <1>7

(* And depend on nothing but the entries counted.                          *)
LEMMA SizeOfSame ==
  ASSUME NEW c, NEW d, NEW S, \A k \in S : c.entries[k] = d.entries[k]
  PROVE  SizeOf(c, S) = SizeOf(d, S)
<1>1. {{k} \X (1 .. c.entries[k].size) : k \in S} = {{k} \X (1 .. d.entries[k].size) : k \in S}
  OBVIOUS
<1> QED
  BY <1>1 DEF SizeOf

-----------------------------------------------------------------------------
(* The operations on sound caches. *)

LEMMA SoundFacts ==
  ASSUME NEW K, NEW V, NEW c, Sound(c, K, V)
  PROVE  /\ c.order \in Seq(K) /\ Len(c.order) \in Nat /\ DOMAIN c.order = 1 .. Len(c.order)
         /\ Keys(c) \subseteq K /\ c.entries \in [Keys(c) -> [value : V, size : Nat]]
         /\ \A S \in SUBSET Keys(c) : HasSizes(c, S)
<1>1. c.order \in Seq(K) /\ c.entries \in UNION {[D -> [value : V, size : Nat]] : D \in SUBSET K}
  BY DEF Sound, CacheOf
<1>2. Len(c.order) \in Nat /\ DOMAIN c.order = 1 .. Len(c.order)
  BY <1>1, LenProperties
<1>3. PICK D \in SUBSET K : c.entries \in [D -> [value : V, size : Nat]]
  BY <1>1
<1>4. Keys(c) \subseteq K /\ c.entries \in [Keys(c) -> [value : V, size : Nat]]
  BY <1>3 DEF Keys
<1>5. \A k \in Keys(c) : c.entries[k].size \in Nat
  BY <1>4
<1>6. IsFiniteSet(Keys(c))
  <2>1. c.order \in [1 .. Len(c.order) -> K]
    BY <1>1, LenProperties
  <2>2. c.order \in Surjection(1 .. Len(c.order), Keys(c))
    BY <1>2, <2>1 DEF Surjection, Sound, ToSet
  <2>3. 1 \in Int /\ Len(c.order) \in Int
    BY <1>2
  <2>4. IsFiniteSet(1 .. Len(c.order))
    BY <2>3, FS_Interval
  <2> QED
    BY <2>2, <2>4, FS_Surjection
<1>7. \A S \in SUBSET Keys(c) : HasSizes(c, S)
  BY <1>5, <1>6, FS_Subset DEF HasSizes
<1> QED
  BY <1>1, <1>2, <1>4, <1>7

LEMMA EmptyIsSound ==
  ASSUME NEW K, NEW V
  PROVE  Sound(EmptyCache, K, V)
<1>1. EmptyCache.order = <<>> /\ EmptyCache.entries = <<>> /\ EmptyCache.used = 0
  BY DEF EmptyCache
<1>2. Keys(EmptyCache) = {} /\ ToSet(EmptyCache.order) = {} /\ IsInjective(EmptyCache.order)
  BY <1>1 DEF Keys, ToSet, IsInjective
<1>3. EmptyCache.entries \in [{} -> [value : V, size : Nat]]
  BY <1>1
<1>4. EmptyCache \in CacheOf(K, V)
  BY <1>1, <1>3 DEF EmptyCache, CacheOf
<1>5. EmptyCache.used = TotalSize(EmptyCache)
  BY <1>1, <1>2, SizeOfNone DEF TotalSize
<1> QED
  BY <1>2, <1>4, <1>5 DEF Sound

(* The cache made of a queue, a table and the size of what is in it.       *)
LEMMA MadeSound ==
  ASSUME NEW K, NEW V, NEW c, NEW order \in Seq(K), NEW D \in SUBSET K,
         NEW entries \in [D -> [value : V, size : Nat]], NEW used \in Nat,
         c = [order |-> order, entries |-> entries, used |-> used],
         ToSet(order) = D, IsInjective(order), used = SizeOf(c, D)
  PROVE  Sound(c, K, V) /\ Keys(c) = D
<1>1. c.order = order /\ c.entries = entries /\ c.used = used
  OBVIOUS
<1>2. c \in CacheOf(K, V)
  BY DEF CacheOf
<1>3. Keys(c) = D
  BY <1>1 DEF Keys
<1> QED
  BY <1>1, <1>2, <1>3 DEF Sound, TotalSize

LEMMA GetIsSound ==
  ASSUME NEW K, NEW V, NEW c, Sound(c, K, V), NEW key \in Keys(c)
  PROVE  /\ Sound(Get(c, key), K, V)
         /\ Get(c, key).order = Touch(c.order, key)
         /\ Get(c, key).entries = c.entries
         /\ Keys(Get(c, key)) = Keys(c)
         /\ Len(Get(c, key).order) = Len(c.order)
<1> DEFINE d == Get(c, key)
<1>1. c \in CacheOf(K, V)
  BY DEF Sound
<1>2. d = [order |-> Touch(c.order, key), entries |-> c.entries, used |-> c.used]
  BY <1>1 DEF Get, CacheOf
<1>3. d.order = Touch(c.order, key) /\ d.entries = c.entries /\ d.used = c.used
  BY <1>2
<1>4. c.order \in Seq(K) /\ key \in K /\ key \in ToSet(c.order) /\ IsInjective(c.order)
  BY SoundFacts DEF Sound
<1>5. /\ Touch(c.order, key) \in Seq(K) /\ IsInjective(Touch(c.order, key))
      /\ ToSet(Touch(c.order, key)) = ToSet(c.order)
      /\ Len(Touch(c.order, key)) = Len(c.order)
  <2> DEFINE t == Touch(c.order, key)
  <2>1. /\ t \in Seq(K) /\ IsInjective(t)
        /\ ToSet(t) = ToSet(c.order) \cup {key}
        /\ Len(t) = IF key \in ToSet(c.order) THEN Len(c.order) ELSE Len(c.order) + 1
    BY <1>4, TouchProperties
  <2> HIDE DEF t
  <2>2. ToSet(t) = ToSet(c.order) /\ Len(t) = Len(c.order)
    BY <1>4, <2>1
  <2> QED
    BY <2>1, <2>2 DEF t
<1>6. Keys(c) \in SUBSET K /\ c.entries \in [Keys(c) -> [value : V, size : Nat]]
  BY SoundFacts
<1>7. c.used = SizeOf(c, Keys(c)) /\ c.used \in Nat
  BY <1>1 DEF Sound, TotalSize, CacheOf
<1>8. SizeOf(d, Keys(c)) = SizeOf(c, Keys(c))
  BY <1>3, SizeOfSame
<1>9. ToSet(c.order) = Keys(c)
  BY DEF Sound
<1> HIDE DEF d
<1>10. Sound(d, K, V) /\ Keys(d) = Keys(c)
  BY <1>2, <1>5, <1>6, <1>7, <1>8, <1>9, MadeSound
<1> QED
  BY <1>3, <1>5, <1>10 DEF d

LEMMA PutIsSound ==
  ASSUME NEW K, NEW V, NEW c, Sound(c, K, V), NEW key \in K, NEW value \in V,
         NEW size \in Nat
  PROVE  LET d == Put(c, key, value, size)
         IN  /\ Sound(d, K, V)
             /\ d.order = Touch(c.order, key)
             /\ Keys(d) = Keys(c) \cup {key}
             /\ d.entries[key] = [value |-> value, size |-> size]
             /\ \A k \in Keys(c) \ {key} : d.entries[k] = c.entries[k]
<1> DEFINE d == Put(c, key, value, size)
           D == Keys(c) \cup {key}
           others == Keys(c) \ {key}
           entry == [value |-> value, size |-> size]
           order == Touch(c.order, key)
           entries == [k \in D |-> IF k = key THEN entry ELSE c.entries[k]]
           used == (IF key \in Keys(c) THEN Less(c.used, c.entries[key].size) ELSE c.used) + size
<1>1. d = [order |-> order, entries |-> entries, used |-> used]
  BY DEF Put
<1>2. d.order = order /\ d.entries = entries /\ d.used = used
  BY <1>1
<1>3. /\ c.order \in Seq(K) /\ Keys(c) \in SUBSET K
      /\ c.entries \in [Keys(c) -> [value : V, size : Nat]]
      /\ \A S \in SUBSET Keys(c) : HasSizes(c, S)
  BY SoundFacts
<1>4. order \in Seq(K) /\ IsInjective(order) /\ ToSet(order) = D
  BY <1>3, TouchProperties DEF Sound
<1>5. entries \in [D -> [value : V, size : Nat]]
  BY <1>3
<1>6. entries[key] = entry /\ \A k \in others : entries[k] = c.entries[k]
  OBVIOUS
<1>7. c.used = SizeOf(c, Keys(c)) /\ SizeOf(c, others) \in Nat
  BY <1>3, SizeIsNatural DEF Sound, TotalSize
<1>8. used = SizeOf(c, others) + size
  <2>1. CASE key \in Keys(c)
    <3>1. HasSizes(c, others) /\ HasSizes(c, {key}) /\ c.entries[key].size \in Nat
      BY <1>3, <2>1
    <3>2. Keys(c) = others \cup {key} /\ others \cap {key} = {}
      BY <2>1
    <3>3. SizeOf(c, others \cup {key}) = SizeOf(c, others) + SizeOf(c, {key})
      BY <3>1, <3>2, SizesAdd
    <3>4. c.used = SizeOf(c, others) + c.entries[key].size
      BY <1>7, <3>1, <3>2, <3>3, SizeOfOne
    <3> QED
      BY <1>7, <2>1, <3>1, <3>4 DEF Less
  <2>2. CASE key \notin Keys(c)
    <3>1. others = Keys(c)
      BY <2>2
    <3> QED
      BY <1>7, <2>2, <3>1
  <2> QED
    BY <2>1, <2>2
<1> HIDE DEF d, entries, used, order
<1>9. used = SizeOf(d, D)
  <2>1. SizeOf(d, others) = SizeOf(c, others)
    BY <1>2, <1>6, SizeOfSame
  <2>2. d.entries[key].size = size
    BY <1>2, <1>6
  <2>3. SizeOf(d, {key}) = size
    BY <2>2, SizeOfOne
  <2>4. IsFiniteSet(others) /\ IsFiniteSet({key})
    BY <1>3, FS_Singleton DEF HasSizes
  <2>5. HasSizes(d, others) /\ HasSizes(d, {key})
    BY <1>2, <1>3, <1>6, <2>2, <2>4 DEF HasSizes
  <2>6. SizeOf(d, others \cup {key}) = SizeOf(d, others) + SizeOf(d, {key})
    BY <2>5, SizesAdd
  <2>7. D = others \cup {key}
    OBVIOUS
  <2> QED
    BY <1>8, <2>1, <2>3, <2>6, <2>7
<1>10. used \in Nat
  BY <1>7, <1>8
<1>11. D \in SUBSET K
  BY <1>3
<1> HIDE DEF D
<1>12. Sound(d, K, V) /\ Keys(d) = D
  BY <1>1, <1>4, <1>5, <1>9, <1>10, <1>11, MadeSound
<1> QED
  BY <1>2, <1>6, <1>12 DEF d, D, order

(* After n rounds the queue is without its first n keys and the table      *)
(* without their values.                                                   *)
IsWithoutFirst(d, c, n) ==
    /\ Len(d.order) = Len(c.order) - n
    /\ \A i \in 1 .. Len(c.order) - n : d.order[i] = c.order[n + i]
    /\ Keys(d) = Keys(c) \ {c.order[i] : i \in 1 .. n}
    /\ \A k \in Keys(d) : d.entries[k] = c.entries[k]

LEMMA PoppedIsSound ==
  ASSUME NEW K, NEW V, NEW c, Sound(c, K, V), NEW n \in 0 .. Len(c.order)
  PROVE  Sound(Popped(c, n), K, V) /\ IsWithoutFirst(Popped(c, n), c, n)
<1> DEFINE d == Popped(c, n)
           gone == {c.order[i] : i \in 1 .. n}
           D == Keys(c) \ gone
           order == SubSeq(c.order, n + 1, Len(c.order))
           entries == [k \in D |-> c.entries[k]]
           used == Less(c.used, SizeOf(c, gone \cap Keys(c)))
<1>1. d = [order |-> order, entries |-> entries, used |-> used]
  BY DEF Popped
<1>2. d.order = order /\ d.entries = entries /\ d.used = used
  BY <1>1
<1>3. /\ c.order \in Seq(K) /\ Len(c.order) \in Nat /\ DOMAIN c.order = 1 .. Len(c.order)
      /\ Keys(c) \in SUBSET K /\ c.entries \in [Keys(c) -> [value : V, size : Nat]]
      /\ \A S \in SUBSET Keys(c) : HasSizes(c, S)
  BY SoundFacts
<1>4. /\ ToSet(c.order) = Keys(c) /\ IsInjective(c.order)
      /\ c.used = SizeOf(c, Keys(c))
  BY DEF Sound, TotalSize
<1>5. /\ order \in Seq(K) /\ Len(order) = Len(c.order) - n
      /\ \A i \in 1 .. Len(c.order) - n : order[i] = c.order[n + i]
  <2>1. \A i \in n + 1 .. Len(c.order) : c.order[i] \in K
    BY <1>3, ElementOfSeq
  <2>2. n + 1 \in Int /\ Len(c.order) \in Int
    BY <1>3
  <2>3. /\ order \in Seq(K)
        /\ Len(order) = IF n + 1 <= Len(c.order) THEN Len(c.order) - (n + 1) + 1 ELSE 0
        /\ \A i \in 1 .. Len(c.order) - (n + 1) + 1 : order[i] = c.order[n + 1 + i - 1]
    BY <2>1, <2>2, SubSeqProperties
  <2>4. Len(c.order) - (n + 1) + 1 = Len(c.order) - n
    BY <1>3
  <2>5. \A i \in 1 .. Len(c.order) - n : n + 1 + i - 1 = n + i
    BY <1>3
  <2> HIDE DEF order
  <2>6. Len(order) = Len(c.order) - n
    BY <1>3, <2>3
  <2> QED
    BY <2>3, <2>4, <2>5, <2>6
<1> HIDE DEF order
<1>6. DOMAIN order = 1 .. Len(c.order) - n
  BY <1>5, LenProperties
<1>7. gone \subseteq Keys(c)
  BY <1>3, <1>4 DEF ToSet
<1>8. ToSet(order) = D
  <2>1. ASSUME NEW k \in ToSet(order) PROVE k \in D
    <3>1. PICK i \in 1 .. Len(c.order) - n : k = c.order[n + i]
      BY <1>5, <1>6 DEF ToSet
    <3>2. n + i \in 1 .. Len(c.order) /\ n + i > n
      BY <1>3
    <3>3. k \in Keys(c)
      BY <1>3, <1>4, <3>1, <3>2 DEF ToSet
    <3>4. \A j \in 1 .. n : c.order[j] # k
      BY <1>3, <1>4, <3>1, <3>2 DEF IsInjective
    <3> QED
      BY <3>3, <3>4
  <2>2. ASSUME NEW k \in D PROVE k \in ToSet(order)
    <3>1. PICK j \in 1 .. Len(c.order) : k = c.order[j]
      BY <1>3, <1>4 DEF ToSet
    <3>2. ~(j \in 1 .. n)
      BY <3>1
    <3>3. j - n \in 1 .. Len(c.order) - n /\ n + (j - n) = j
      BY <1>3, <3>2
    <3> QED
      BY <1>5, <1>6, <3>1, <3>3 DEF ToSet
  <2> QED
    BY <2>1, <2>2
<1>9. IsInjective(order)
  <2>1. \A i, j \in 1 .. Len(c.order) - n : order[i] = order[j] => i = j
    <3> SUFFICES ASSUME NEW i \in 1 .. Len(c.order) - n, NEW j \in 1 .. Len(c.order) - n,
                        order[i] = order[j]
                 PROVE  i = j
      OBVIOUS
    <3>1. n + i \in DOMAIN c.order /\ n + j \in DOMAIN c.order
      BY <1>3
    <3>2. c.order[n + i] = c.order[n + j]
      BY <1>5
    <3>3. n + i = n + j
      BY <1>4, <3>1, <3>2 DEF IsInjective
    <3> QED
      BY <3>3
  <2> QED
    BY ONLY <1>6, <2>1 DEF IsInjective
<1>10. entries \in [D -> [value : V, size : Nat]] /\ \A k \in D : entries[k] = c.entries[k]
  BY <1>3
<1>11. used = SizeOf(c, D) /\ used \in Nat
  <2>1. HasSizes(c, D) /\ HasSizes(c, gone)
    BY <1>3, <1>7
  <2>2. D \cup gone = Keys(c) /\ D \cap gone = {} /\ gone \cap Keys(c) = gone
    BY <1>7
  <2>3. SizeOf(c, D) \in Nat /\ SizeOf(c, gone) \in Nat
    BY <2>1, SizeIsNatural
  <2>4. SizeOf(c, D \cup gone) = SizeOf(c, D) + SizeOf(c, gone)
    BY <2>1, <2>2, SizesAdd
  <2>5. c.used = SizeOf(c, D) + SizeOf(c, gone)
    BY <1>4, <2>2, <2>4
  <2>6. used = Less(c.used, SizeOf(c, gone))
    BY <2>2
  <2> HIDE DEF used, D, gone
  <2> QED
    BY <2>3, <2>5, <2>6 DEF Less
<1> HIDE DEF entries, used, D, d, gone
<1>12. used = SizeOf(d, D)
  BY <1>2, <1>10, <1>11, SizeOfSame
<1>13. D \in SUBSET K
  BY <1>3 DEF D
<1>14. order \in Seq(K) /\ entries \in [D -> [value : V, size : Nat]] /\ used \in Nat
  BY <1>5, <1>10, <1>11
<1>15. Sound(d, K, V) /\ Keys(d) = D
  BY <1>1, <1>8, <1>9, <1>12, <1>13, <1>14, MadeSound
<1> QED
  BY <1>2, <1>5, <1>10, <1>15 DEF d, D, gone, IsWithoutFirst

(* Both loops stop, at the first number of rounds after which the lim   *)
(* hold.                                                                   *)
LEMMA EvictStops ==
  ASSUME NEW K, NEW V, NEW c, Sound(c, K, V), NEW lim, lim.entries \in Nat
  PROVE  \E n \in 0 .. Len(c.order) :
            /\ Evict(c, lim) = Popped(c, n)
            /\ Fits(Popped(c, n), lim)
            /\ \A m \in 0 .. n - 1 : ~Fits(Popped(c, m), lim)
<1> DEFINE S == {n \in 0 .. Len(c.order) : Fits(Popped(c, n), lim)}
<1>1. Len(c.order) \in Nat
  BY SoundFacts
<1>2. Len(c.order) \in S
  <2> DEFINE d == Popped(c, Len(c.order))
  <2>1. Sound(d, K, V) /\ Len(d.order) = 0
    BY <1>1, PoppedIsSound DEF IsWithoutFirst
  <2>2. d.order = <<>>
    <3>1. d.order \in Seq(K)
      BY <2>1, SoundFacts
    <3> HIDE DEF d
    <3> QED
      BY <2>1, <3>1, EmptySeq
  <2> HIDE DEF d
  <2>3. Fits(d, lim)
    BY <2>1, <2>2 DEF Fits
  <2> QED
    BY <1>1, <2>3 DEF d
<1>3. S \in SUBSET Nat
  BY <1>1
<1> DEFINE n == Min(S)
<1>4. Evict(c, lim) = Popped(c, n)
  BY DEF Evict
<1>5. n \in S /\ \A m \in S : n <= m
  BY <1>2, <1>3, MinOfNaturals
<1> HIDE DEF n
<1>6. n \in 0 .. Len(c.order) /\ Fits(Popped(c, n), lim)
  BY <1>5
<1>7. \A m \in 0 .. n - 1 : ~Fits(Popped(c, m), lim)
  BY <1>1, <1>5, <1>6
<1> QED
  BY <1>4, <1>6, <1>7

(* An insert keeps the cache sound and within its lim; what it keeps    *)
(* has the value it had, but for the key inserted.                         *)
LEMMA InsertIsSound ==
  ASSUME NEW K, NEW V, NEW c, Sound(c, K, V), NEW key \in K, NEW value \in V,
         NEW size \in Nat, NEW lim, lim.entries \in Nat
  PROVE  LET d == Insert(c, key, value, size, lim)
         IN  /\ Sound(d, K, V) /\ Fits(d, lim)
             /\ Keys(d) \subseteq Keys(c) \cup {key}
             /\ \A k \in Keys(d) : d.entries[k] = IF k = key THEN [value |-> value, size |-> size]
                                                             ELSE c.entries[k]
<1> DEFINE p == Put(c, key, value, size)
           d == Insert(c, key, value, size, lim)
<1>1. /\ Sound(p, K, V) /\ Keys(p) = Keys(c) \cup {key}
      /\ p.entries[key] = [value |-> value, size |-> size]
      /\ \A k \in Keys(c) \ {key} : p.entries[k] = c.entries[k]
  BY PutIsSound
<1>2. d = Evict(p, lim)
  BY DEF Insert
<1> HIDE DEF p, d
<1>3. PICK n \in 0 .. Len(p.order) : d = Popped(p, n) /\ Fits(Popped(p, n), lim)
  BY <1>1, <1>2, EvictStops
<1>4. /\ Sound(d, K, V) /\ Keys(d) \subseteq Keys(p)
      /\ \A k \in Keys(d) : d.entries[k] = p.entries[k]
  BY <1>1, <1>3, PoppedIsSound DEF IsWithoutFirst
<1> QED
  BY <1>1, <1>3, <1>4 DEF d

-----------------------------------------------------------------------------
(* The cache in use. *)

(* The keys of the queue were used in its order.                           *)
Sorted(order, after) ==
    \A i, j \in DOMAIN order : i < j => <<order[j], order[i]>> \in after

(* Every key inserted since the last clear has its last value.             *)
LatestTypes == \A k \in DOMAIN latest : latest[k] \in [value : Value, size : Sizes]

(* What is kept was used after what is not.                                *)
KeptUsedLast == Keys(cache) \X (DOMAIN latest \ Keys(cache)) \subseteq usedAfter

LruInv ==
    /\ Sound(cache, Key, Value)
    /\ Fits(cache, limits)
    /\ DOMAIN latest \subseteq Key /\ LatestTypes
    /\ Keys(cache) \subseteq DOMAIN latest
    /\ \A k \in Keys(cache) : cache.entries[k] = latest[k]
    /\ usedAfter \subseteq (DOMAIN latest) \X (DOMAIN latest)
    /\ Sorted(cache.order, usedAfter)
    /\ KeptUsedLast

LEMMA LimitsTypes == limits.entries = MaxEntries /\ limits.bytes = MaxBytes /\ MaxEntries \in Nat
  BY LimitsAssumption DEF limits

(* A use takes the key to the end of the queue and of the history alike.   *)
LEMMA UseKeepsSorted ==
  ASSUME NEW order \in Seq(Key), IsInjective(order), Sorted(order, usedAfter),
         NEW k \in Key, ToSet(order) \cup {k} \subseteq DOMAIN latest', Use(k)
  PROVE  Sorted(Touch(order, k), usedAfter')
<1> DEFINE t == Touch(order, k)
<1>1. /\ t \in Seq(Key) /\ IsInjective(t) /\ ToSet(t) = ToSet(order) \cup {k} /\ t[Len(t)] = k
      /\ \A i, j \in DOMAIN t : i < j /\ t[j] # k =>
           \E a, b \in DOMAIN order : a < b /\ order[a] = t[i] /\ order[b] = t[j]
  BY TouchProperties
<1> HIDE DEF t
<1>2. Len(t) \in Nat /\ DOMAIN t = 1 .. Len(t)
  BY <1>1, LenProperties
<1>3. ASSUME NEW i \in DOMAIN t, NEW j \in DOMAIN t, i < j
      PROVE  <<t[j], t[i]>> \in usedAfter'
  <2>1. t[i] \in DOMAIN latest'
    BY <1>1 DEF ToSet
  <2>2. t[i] # k
    <3>1. i # Len(t) /\ Len(t) \in DOMAIN t
      BY <1>2, <1>3
    <3> QED
      BY <1>1, <3>1 DEF IsInjective
  <2>3. CASE t[j] = k
    BY <2>1, <2>2, <2>3 DEF Use
  <2>4. CASE t[j] # k
    <3>1. PICK a, b \in DOMAIN order : a < b /\ order[a] = t[i] /\ order[b] = t[j]
      BY <1>1, <1>3, <2>4
    <3>2. <<t[j], t[i]>> \in usedAfter
      BY <3>1 DEF Sorted
    <3> QED
      BY <2>2, <2>4, <3>2 DEF Use
  <2> QED
    BY <2>3, <2>4
<1> QED
  BY <1>3 DEF t, Sorted

LEMMA GetHitKeeps ==
  ASSUME LruInv, NEW k \in Key, GetHit(k)
  PROVE  LruInv'
<1>1. /\ Sound(cache, Key, Value) /\ k \in Keys(cache) /\ cache' = Get(cache, k)
      /\ latest' = latest /\ Use(k)
  BY DEF LruInv, GetHit
<1>2. /\ Sound(cache', Key, Value) /\ cache'.order = Touch(cache.order, k)
      /\ cache'.entries = cache.entries /\ Keys(cache') = Keys(cache)
      /\ Len(cache'.order) = Len(cache.order)
  BY <1>1, GetIsSound
<1>3. /\ cache.order \in Seq(Key) /\ IsInjective(cache.order) /\ ToSet(cache.order) = Keys(cache)
      /\ cache.used = TotalSize(cache) /\ cache'.used = TotalSize(cache')
  BY <1>1, <1>2 DEF Sound, CacheOf
<1>4. Fits(cache', limits)
  <2>1. cache'.used = cache.used
    BY <1>2, <1>3, SizeOfSame DEF TotalSize
  <2>2. cache.order = <<>> <=> cache'.order = <<>>
    <3>1. cache'.order \in Seq(Key)
      BY <1>2, SoundFacts
    <3> QED
      BY <1>2, <1>3, <3>1, EmptySeq
  <2> QED
    BY <1>2, <2>1, <2>2 DEF LruInv, Fits
<1>6. Sorted(cache'.order, usedAfter')
  BY <1>1, <1>2, <1>3, UseKeepsSorted DEF LruInv
<1>7. KeptUsedLast'
  BY <1>1, <1>2 DEF LruInv, KeptUsedLast, Use
<1>8. usedAfter' \subseteq (DOMAIN latest) \X (DOMAIN latest)
  BY <1>1 DEF LruInv, Use
<1> QED
  BY <1>1, <1>2, <1>4, <1>6, <1>7, <1>8 DEF LruInv, LatestTypes, limits

(* What an insert does: the key goes to the end, then the first n keys go, *)
(* n the least number with which the limits hold.                          *)
InsertSteps(p, n, k, v, size) ==
    /\ p = Put(cache, k, v, size)
    /\ n \in 0 .. Len(p.order)
    /\ cache' = Popped(p, n)
    /\ \A m \in 0 .. n - 1 : ~Fits(Popped(p, m), limits)

LEMMA InsertDoesSteps ==
  ASSUME LruInv, NEW k \in Key, NEW v \in Value, NEW size \in Sizes, InsertValue(k, v, size)
  PROVE  /\ \E p, n : InsertSteps(p, n, k, v, size)
         /\ Fits(cache', limits)
<1> DEFINE p == Put(cache, k, v, size)
<1>1. Sound(cache, Key, Value) /\ size \in Nat /\ limits.entries \in Nat
  BY SizesAssumption, LimitsTypes DEF LruInv
<1>2. Sound(p, Key, Value)
  BY <1>1, PutIsSound
<1>3. cache' = Evict(p, limits)
  BY DEF InsertValue, Insert
<1> HIDE DEF p
<1>4. \E n \in 0 .. Len(p.order) :
         /\ Evict(p, limits) = Popped(p, n)
         /\ Fits(Popped(p, n), limits)
         /\ \A m \in 0 .. n - 1 : ~Fits(Popped(p, m), limits)
  BY <1>1, <1>2, EvictStops
<1> QED
  BY <1>3, <1>4 DEF InsertSteps, p

(* The queue, the table and the history before anything is popped.         *)
LEMMA PutFacts ==
  ASSUME LruInv, NEW k \in Key, NEW v \in Value, NEW size \in Sizes, InsertValue(k, v, size),
         NEW p, p = Put(cache, k, v, size)
  PROVE  /\ Sound(p, Key, Value)
         /\ Keys(p) = Keys(cache) \cup {k} /\ Keys(p) \subseteq DOMAIN latest'
         /\ \A o \in Keys(p) : p.entries[o] = latest'[o]
         /\ Sorted(p.order, usedAfter')
         /\ Keys(p) \X (DOMAIN latest' \ Keys(p)) \subseteq usedAfter'
<1>1. Sound(cache, Key, Value) /\ size \in Nat
  BY SizesAssumption DEF LruInv
<1>2. /\ Sound(p, Key, Value) /\ Keys(p) = Keys(cache) \cup {k}
      /\ p.order = Touch(cache.order, k)
      /\ p.entries[k] = [value |-> v, size |-> size]
      /\ \A o \in Keys(cache) \ {k} : p.entries[o] = cache.entries[o]
  BY <1>1, PutIsSound
<1>3. /\ DOMAIN latest' = DOMAIN latest \cup {k}
      /\ latest'[k] = [value |-> v, size |-> size]
      /\ \A o \in DOMAIN latest \ {k} : latest'[o] = latest[o]
      /\ Use(k)
  BY DEF InsertValue
<1>4. Keys(cache) \subseteq DOMAIN latest /\ \A o \in Keys(cache) : cache.entries[o] = latest[o]
  BY DEF LruInv
<1>5. Keys(p) \subseteq DOMAIN latest' /\ \A o \in Keys(p) : p.entries[o] = latest'[o]
  BY <1>2, <1>3, <1>4
<1>6. cache.order \in Seq(Key) /\ IsInjective(cache.order) /\ ToSet(cache.order) = Keys(cache)
  BY <1>1, SoundFacts DEF Sound
<1>7. Sorted(p.order, usedAfter')
  BY <1>2, <1>3, <1>4, <1>6, UseKeepsSorted DEF LruInv
<1>8. ASSUME NEW a \in Keys(p), NEW o \in DOMAIN latest' \ Keys(p) PROVE <<a, o>> \in usedAfter'
  <2>1. o # k /\ o \in DOMAIN latest \ Keys(cache)
    BY <1>2, <1>3
  <2>2. CASE a = k
    BY <1>3, <2>1, <2>2 DEF Use
  <2>3. CASE a # k
    BY <1>2, <1>3, <2>1, <2>3 DEF Use, LruInv, KeptUsedLast
  <2> QED
    BY <2>2, <2>3
<1> QED
  BY <1>2, <1>5, <1>7, <1>8

LEMMA InsertValueKeeps ==
  ASSUME LruInv, NEW k \in Key, NEW v \in Value, NEW size \in Sizes, InsertValue(k, v, size)
  PROVE  LruInv'
<1>1. PICK p, n : InsertSteps(p, n, k, v, size)
  BY InsertDoesSteps
<1>2. Fits(cache', limits)
  BY InsertDoesSteps
<1>3. /\ Sound(p, Key, Value)
      /\ Keys(p) = Keys(cache) \cup {k} /\ Keys(p) \subseteq DOMAIN latest'
      /\ \A o \in Keys(p) : p.entries[o] = latest'[o]
      /\ Sorted(p.order, usedAfter')
      /\ Keys(p) \X (DOMAIN latest' \ Keys(p)) \subseteq usedAfter'
  BY <1>1, PutFacts DEF InsertSteps
<1>4. n \in 0 .. Len(p.order) /\ cache' = Popped(p, n)
  BY <1>1 DEF InsertSteps
<1>5. /\ Sound(cache', Key, Value)
      /\ Len(cache'.order) = Len(p.order) - n
      /\ \A i \in 1 .. Len(p.order) - n : cache'.order[i] = p.order[n + i]
      /\ Keys(cache') = Keys(p) \ {p.order[i] : i \in 1 .. n}
      /\ \A o \in Keys(cache') : cache'.entries[o] = p.entries[o]
  <2>1. Sound(cache', Key, Value) /\ IsWithoutFirst(cache', p, n)
    BY <1>3, <1>4, PoppedIsSound
  <2> QED
    BY <2>1 DEF IsWithoutFirst
<1>6. /\ Len(p.order) \in Nat /\ DOMAIN p.order = 1 .. Len(p.order)
      /\ DOMAIN cache'.order = 1 .. Len(p.order) - n
      /\ ToSet(p.order) = Keys(p)
  BY <1>3, <1>5, SoundFacts DEF Sound
<1>7. Sorted(cache'.order, usedAfter')
  <2> SUFFICES ASSUME NEW i \in 1 .. Len(p.order) - n, NEW j \in 1 .. Len(p.order) - n, i < j
               PROVE  <<cache'.order[j], cache'.order[i]>> \in usedAfter'
    BY <1>6 DEF Sorted
  <2>1. n + i \in DOMAIN p.order /\ n + j \in DOMAIN p.order /\ n + i < n + j
    BY <1>4, <1>6
  <2>2. <<p.order[n + j], p.order[n + i]>> \in usedAfter'
    BY <1>3, <2>1 DEF Sorted
  <2> QED
    BY <1>5, <2>2
<1>8. KeptUsedLast'
  <2> SUFFICES ASSUME NEW a \in Keys(cache'), NEW o \in DOMAIN latest' \ Keys(cache')
               PROVE  <<a, o>> \in usedAfter'
    BY DEF KeptUsedLast
  <2>1. CASE o \notin Keys(p)
    BY <1>3, <1>5, <2>1
  <2>2. CASE o \in Keys(p)
    <3>1. PICK i \in 1 .. n : o = p.order[i]
      BY <1>5, <2>2
    <3>2. PICK j \in 1 .. Len(p.order) : a = p.order[j]
      BY <1>5, <1>6 DEF ToSet
    <3>3. ~(j \in 1 .. n)
      BY <1>5, <3>2
    <3>4. i \in DOMAIN p.order /\ j \in DOMAIN p.order /\ i < j
      BY <1>4, <1>6, <3>3
    <3> QED
      BY <1>3, <3>1, <3>2, <3>4 DEF Sorted
  <2> QED
    BY <2>1, <2>2
<1>9. /\ DOMAIN latest' = DOMAIN latest \cup {k}
      /\ latest'[k] = [value |-> v, size |-> size]
      /\ \A o \in DOMAIN latest \ {k} : latest'[o] = latest[o]
      /\ Use(k)
  BY DEF InsertValue
<1>10. DOMAIN latest' \subseteq Key /\ LatestTypes'
  BY <1>9 DEF LruInv, LatestTypes
<1>11. usedAfter' \subseteq (DOMAIN latest') \X (DOMAIN latest')
  BY <1>9 DEF LruInv, Use
<1>12. Keys(cache') \subseteq DOMAIN latest' /\ \A o \in Keys(cache') : cache'.entries[o] = latest'[o]
  BY <1>3, <1>5
<1>13. limits' = limits
  BY DEF limits
<1> QED
  BY <1>2, <1>5, <1>7, <1>8, <1>10, <1>11, <1>12, <1>13 DEF LruInv

LEMMA EmptyKeeps ==
  ASSUME NEW c, c = EmptyCache
  PROVE  /\ Sound(c, Key, Value) /\ Fits(c, limits) /\ Keys(c) = {} /\ DOMAIN c.order = {}
<1>1. c.order = <<>> /\ c.entries = <<>>
  BY DEF EmptyCache
<1>2. Fits(c, limits)
  BY <1>1, LimitsTypes DEF Fits
<1> QED
  BY <1>1, <1>2, EmptyIsSound DEF Keys

LEMMA InitLruInv == Init => LruInv
<1> HAVE Init
<1>1. cache = EmptyCache /\ latest = <<>> /\ usedAfter = {}
  BY DEF Init
<1>2. DOMAIN latest = {}
  BY <1>1
<1> QED
  BY <1>1, <1>2, EmptyKeeps DEF LruInv, LatestTypes, Sorted, KeptUsedLast

LEMMA ClearAllKeeps ==
  ASSUME ClearAll
  PROVE  LruInv'
<1>1. cache' = EmptyCache /\ latest' = <<>> /\ usedAfter' = {}
  BY DEF ClearAll
<1>2. DOMAIN latest' = {} /\ limits' = limits
  BY <1>1 DEF limits
<1>3. Sound(cache', Key, Value) /\ Fits(cache', limits) /\ Keys(cache') = {} /\ DOMAIN cache'.order = {}
  BY <1>1, EmptyKeeps
<1> QED
  BY <1>1, <1>2, <1>3 DEF LruInv, LatestTypes, Sorted, KeptUsedLast

LEMMA LruInvKept == LruInv /\ [Next]_vars => LruInv'
<1> SUFFICES ASSUME LruInv, [Next]_vars PROVE LruInv'
  OBVIOUS
<1>1. CASE UNCHANGED vars
  BY <1>1 DEF vars, LruInv, LatestTypes, KeptUsedLast, limits
<1> QED
  BY <1>1, GetHitKeeps, InsertValueKeeps, ClearAllKeeps DEF Next

(* The last key that was popped is the last used of those that went, and   *)
(* with it the limits would not have held.                                 *)
LEMMA EvictionsAreNeeded ==
  ASSUME LruInv, NEW k \in Key, NEW v \in Value, NEW size \in Sizes, InsertValue(k, v, size),
         Evicted # {}
  PROVE  \E last \in Evicted :
            /\ IsLast(last, Evicted, usedAfter')
            /\ \/ Len(cache'.order) + 1 > MaxEntries
               \/ /\ MaxBytes # NoLimit
                  /\ TotalSize(cache') + latest'[last].size > MaxBytes
<1>1. PICK p, n : InsertSteps(p, n, k, v, size)
  BY InsertDoesSteps
<1>2. /\ n \in 0 .. Len(p.order) /\ cache' = Popped(p, n)
      /\ \A m \in 0 .. n - 1 : ~Fits(Popped(p, m), limits)
  BY <1>1 DEF InsertSteps
<1>3. /\ Sound(p, Key, Value)
      /\ Keys(p) = Keys(cache) \cup {k} /\ Keys(p) \subseteq DOMAIN latest'
      /\ \A o \in Keys(p) : p.entries[o] = latest'[o]
      /\ Sorted(p.order, usedAfter')
  BY <1>1, PutFacts DEF InsertSteps
<1>4. /\ Len(p.order) \in Nat /\ DOMAIN p.order = 1 .. Len(p.order)
      /\ ToSet(p.order) = Keys(p) /\ IsInjective(p.order)
  BY <1>3, SoundFacts DEF Sound
<1>5. /\ Sound(cache', Key, Value)
      /\ Len(cache'.order) = Len(p.order) - n
      /\ \A i \in 1 .. Len(p.order) - n : cache'.order[i] = p.order[n + i]
      /\ Keys(cache') = Keys(p) \ {p.order[i] : i \in 1 .. n}
      /\ \A o \in Keys(cache') : cache'.entries[o] = p.entries[o]
  <2>1. Sound(cache', Key, Value) /\ IsWithoutFirst(cache', p, n)
    BY <1>2, <1>3, PoppedIsSound
  <2> QED
    BY <2>1 DEF IsWithoutFirst
<1>6. \A o \in Evicted : \E i \in 1 .. n : o = p.order[i]
  <2> SUFFICES ASSUME NEW o \in Evicted PROVE o \in Keys(p)
    BY <1>5 DEF Evicted
  <2>1. CASE o \in Keys(cache)
    BY <1>3, <2>1
  <2>2. CASE IsLast(o, DOMAIN latest', usedAfter')
    <3>1. o = k \/ <<o, k>> \in usedAfter'
      BY <2>2 DEF IsLast, InsertValue
    <3>2. o # k => <<o, k>> \notin usedAfter'
      BY DEF InsertValue, Use
    <3> QED
      BY <1>3, <3>1, <3>2
  <2> QED
    BY <2>1, <2>2 DEF Evicted
<1> DEFINE last == p.order[n]
<1>7. n \in 1 .. Len(p.order) /\ n \in 1 .. n
  BY <1>2, <1>4, <1>6
<1>8. last \in Keys(p) /\ last \notin Keys(cache')
  BY <1>4, <1>5, <1>7 DEF ToSet
<1>9. last \in Evicted
  <2>1. CASE last \in Keys(cache)
    BY <1>3, <1>8, <2>1 DEF Evicted
  <2>2. CASE last = k
    <3>1. DOMAIN latest' = DOMAIN latest \cup {k} /\ Use(k)
      BY DEF InsertValue
    <3>2. IsLast(k, DOMAIN latest', usedAfter')
      BY <3>1 DEF IsLast, Use
    <3> QED
      BY <1>3, <1>8, <2>2, <3>2 DEF Evicted
  <2> QED
    BY <1>3, <1>8, <2>1, <2>2
<1>10. IsLast(last, Evicted, usedAfter')
  <2> SUFFICES ASSUME NEW o \in Evicted, o # last PROVE <<last, o>> \in usedAfter'
    BY DEF IsLast
  <2>1. PICK i \in 1 .. n : o = p.order[i]
    BY <1>6
  <2>2. i \in DOMAIN p.order /\ n \in DOMAIN p.order /\ i < n
    BY <1>4, <1>7, <2>1
  <2> QED
    BY <1>3, <2>1, <2>2 DEF Sorted
<1> HIDE DEF last
<1> DEFINE m == n - 1
           d == Popped(p, m)
<1>11. m \in 0 .. Len(p.order) /\ m \in 0 .. n - 1 /\ m = n - 1
  BY <1>4, <1>7
<1> HIDE DEF m
<1>12. /\ Sound(d, Key, Value)
       /\ Len(d.order) = Len(p.order) - m
       /\ Keys(d) = Keys(p) \ {p.order[i] : i \in 1 .. m}
       /\ \A o \in Keys(d) : d.entries[o] = p.entries[o]
  <2>1. Sound(d, Key, Value) /\ IsWithoutFirst(d, p, m)
    BY <1>3, <1>11, PoppedIsSound
  <2> HIDE DEF d
  <2> QED
    BY <2>1 DEF IsWithoutFirst
<1>13. ~Fits(d, limits)
  BY <1>2, <1>11
<1> HIDE DEF d
<1>14. Keys(d) = Keys(cache') \cup {last}
  <2>1. last \in Keys(d)
    <3>1. \A i \in 1 .. m : p.order[i] # last
      BY <1>4, <1>7, <1>11 DEF IsInjective, last
    <3> QED
      BY <1>8, <1>12, <3>1
  <2>2. \A i \in 1 .. n : i = n \/ i \in 1 .. m
    BY <1>7, <1>11
  <2>3. \A i \in 1 .. m : i \in 1 .. n
    BY <1>7, <1>11
  <2>4. {p.order[i] : i \in 1 .. n} = {p.order[i] : i \in 1 .. m} \cup {last}
    BY <1>7, <2>2, <2>3 DEF last
  <2> QED
    BY <1>5, <1>12, <2>1, <2>4
<1>15. d.used = TotalSize(cache') + latest'[last].size
  <2>1. HasSizes(d, Keys(cache')) /\ HasSizes(d, {last})
    BY <1>12, <1>14, SoundFacts
  <2>2. Keys(cache') \cap {last} = {}
    BY <1>8
  <2>3. SizeOf(d, Keys(cache') \cup {last}) = SizeOf(d, Keys(cache')) + SizeOf(d, {last})
    BY <2>1, <2>2, SizesAdd
  <2>4. \A o \in Keys(cache') : d.entries[o] = cache'.entries[o]
    BY <1>5, <1>12, <1>14
  <2>5. SizeOf(d, Keys(cache')) = SizeOf(cache', Keys(cache'))
    BY <2>4, SizeOfSame
  <2>6. SizeOf(d, {last}) = d.entries[last].size
    BY <2>1, SizeOfOne DEF HasSizes
  <2>7. d.entries[last] = latest'[last]
    BY <1>3, <1>8, <1>12, <1>14
  <2>8. d.used = SizeOf(d, Keys(cache') \cup {last})
    BY <1>12, <1>14 DEF Sound, TotalSize
  <2> QED
    BY <2>3, <2>5, <2>6, <2>7, <2>8 DEF TotalSize
<1>16. Len(d.order) = Len(cache'.order) + 1
  BY <1>4, <1>5, <1>7, <1>11, <1>12
<1>17. \/ Len(cache'.order) + 1 > MaxEntries
       \/ /\ MaxBytes # NoLimit
          /\ TotalSize(cache') + latest'[last].size > MaxBytes
  <2>1. Len(cache'.order) \in Nat /\ d.used \in Nat
    BY <1>5, <1>12, SoundFacts DEF Sound, CacheOf
  <2>2. ~(Len(d.order) <= MaxEntries) \/ ~(MaxBytes = NoLimit \/ d.used <= MaxBytes)
    BY <1>13, LimitsTypes DEF Fits
  <2> QED
    BY <1>15, <1>16, <2>1, <2>2, LimitsAssumption
<1> QED
  BY <1>9, <1>10, <1>17

(* The types of the cache and of the history of its uses.                  *)
THEOREM TypeCorrect == Spec => []TypeOK
<1>1. LruInv => TypeOK
  <2> HAVE LruInv
  <2>1. Sound(cache, Key, Value)
    BY DEF LruInv
  <2> QED
    BY <2>1, SoundFacts DEF LruInv, TypeOK, LatestTypes, Sound, CacheOf
<1> QED
  BY <1>1, InitLruInv, LruInvKept, PTL DEF Spec

(* For every number of keys and values, every size and both limits, after  *)
(* any calls: queue and table agree, the bytes are counted right and the   *)
(* limits hold (LruCache::get, insert and clear in retrieval/cache.rs).    *)
THEOREM LimitsHold == Spec => []WithinLimits
<1>1. LruInv => WithinLimits
  <2> HAVE LruInv
  <2>1. Sound(cache, Key, Value) /\ Fits(cache, limits)
    BY DEF LruInv
  <2>2. cache.order = <<>> => TotalSize(cache) = 0
    <3>1. cache.order = <<>> => ToSet(cache.order) = {}
      BY DEF ToSet
    <3> QED
      BY <2>1, <3>1, SizeOfNone DEF Sound, TotalSize
  <2> QED
    BY <2>1, <2>2, LimitsTypes, LimitsAssumption DEF WithinLimits, Sound, Fits
<1> QED
  BY <1>1, InitLruInv, LruInvKept, PTL DEF Spec

(* What stays are the keys used last, in the order of use, with the values *)
(* they were given last.                                                   *)
THEOREM MostRecentAreKept == Spec => []KeepsMostRecent
<1>1. LruInv => KeepsMostRecent
  BY DEF LruInv, KeepsMostRecent, Sorted, KeptUsedLast
<1> QED
  BY <1>1, InitLruInv, LruInvKept, PTL DEF Spec

(* No insert evicts a key that could have stayed, the inserted one         *)
(* included (the loops of LruCache::insert).                               *)
THEOREM NothingElseIsEvicted == Spec => EvictsOnlyWhatDoesNotFit
<1>1. LruInv /\ [Next]_vars =>
        [Evicted # {} =>
          \E last \in Evicted :
              /\ IsLast(last, Evicted, usedAfter')
              /\ \/ Len(cache'.order) + 1 > MaxEntries
                 \/ /\ MaxBytes # NoLimit
                    /\ TotalSize(cache') + latest'[last].size > MaxBytes]_vars
  <2> SUFFICES ASSUME LruInv, Next, Evicted # {}
               PROVE  \E last \in Evicted :
                        /\ IsLast(last, Evicted, usedAfter')
                        /\ \/ Len(cache'.order) + 1 > MaxEntries
                           \/ /\ MaxBytes # NoLimit
                              /\ TotalSize(cache') + latest'[last].size > MaxBytes
    OBVIOUS
  <2>1. ASSUME NEW k \in Key, GetHit(k) PROVE Evicted = {}
    <3>1. Sound(cache, Key, Value) /\ k \in Keys(cache) /\ Keys(cache) \subseteq DOMAIN latest
      BY <2>1 DEF LruInv, GetHit
    <3>2. Keys(cache') = Keys(cache)
      BY <2>1, <3>1, GetIsSound DEF GetHit
    <3>3. \A o \in DOMAIN latest' \ Keys(cache') : o # k /\ <<o, k>> \notin usedAfter'
      BY <2>1, <3>1, <3>2 DEF GetHit, Use
    <3>4. k \in DOMAIN latest'
      BY <2>1, <3>1 DEF GetHit
    <3> QED
      BY <3>2, <3>3, <3>4 DEF Evicted, IsLast
  <2>2. ClearAll => Evicted = {}
    <3> HAVE ClearAll
    <3>1. DOMAIN latest' = {}
      BY DEF ClearAll
    <3> QED
      BY <3>1 DEF Evicted
  <2> QED
    BY <2>1, <2>2, EvictionsAreNeeded DEF Next
<1> QED
  BY <1>1, InitLruInv, LruInvKept, PTL DEF Spec, EvictsOnlyWhatDoesNotFit
=============================================================================
