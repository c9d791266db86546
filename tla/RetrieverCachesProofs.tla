------------------------ MODULE RetrieverCachesProofs ------------------------
(***************************************************************************)
(* The caches of a retriever keep their types and limits under any number  *)
(* of searchers, and with one searcher and at most one index run a second  *)
(* what they answer is fresh.                                              *)
(***************************************************************************)
EXTENDS RetrieverCaches, FiniteSetTheorems, SequenceTheorems, TLAPS

-----------------------------------------------------------------------------
(* The operations of LruCaches, as far as the searches need them: keys and *)
(* values stay what they are, every key has a place in the queue, and an   *)
(* insertion leaves no more places than the limit.                         *)

Typed(c, K, V) ==
    /\ c = [order |-> c.order, entries |-> c.entries, used |-> c.used]
    /\ c.order \in Seq(K)
    /\ Keys(c) \subseteq K
    /\ c.entries \in [Keys(c) -> [value : V, size : Nat]]
    /\ Keys(c) \subseteq ToSet(c.order)

LEMMA MinOfNaturals ==
  ASSUME NEW S \in SUBSET Nat, S # {}
  PROVE  Min(S) \in S /\ \A x \in S : Min(S) <= x
<1> DEFINE R == OpToRel(<, Nat)
<1>1. \A x, y \in Nat : x < y => <<x, y>> \in R
  BY DEF OpToRel
<1>2. IsWellFoundedOn(R, Nat)
  BY NatLessThanWellFounded
<1> HIDE DEF R
<1>3. PICK x \in S : \A y \in S : ~ (<<y, x>> \in R)
  BY <1>2, WFMin
<1>4. \A y \in S : x <= y
  <2>1. \A y \in S : ~(y < x)
    BY <1>1, <1>3
  <2> QED
    BY <2>1
<1> QED
  BY <1>4 DEF Min

(* One place goes, at most one value with it.                              *)
LEMMA RemoveAtLeaves ==
  ASSUME NEW K, NEW s \in Seq(K), NEW p \in 1 .. Len(s)
  PROVE  /\ RemoveAt(s, p) \in Seq(K) /\ Len(RemoveAt(s, p)) = Len(s) - 1
         /\ \A x \in ToSet(s) : x = s[p] \/ x \in ToSet(RemoveAt(s, p))
<1> DEFINE front == SubSeq(s, 1, p - 1)
           back == SubSeq(s, p + 1, Len(s))
           r == front \o back
<1>0. Len(s) \in Nat
  BY LenProperties
<1>1. Len(s) \in Nat /\ DOMAIN s = 1 .. Len(s) /\ \A i \in 1 .. Len(s) : s[i] \in K
  BY LenProperties, ElementOfSeq
<1>2. front \in Seq(K) /\ Len(front) = p - 1 /\ \A i \in 1 .. p - 1 : front[i] = s[i]
  BY <1>1, SubSeqProperties, 1 \in Int, p - 1 \in Int
<1>3. /\ back \in Seq(K) /\ Len(back) = Len(s) - p
      /\ \A i \in 1 .. Len(s) - p : back[i] = s[p + i]
  <2>1. p + 1 \in Int /\ Len(s) \in Int /\ \A i \in p + 1 .. Len(s) : s[i] \in K
    BY <1>1
  <2>2. /\ back \in Seq(K) /\ Len(back) = IF p + 1 <= Len(s) THEN Len(s) - (p + 1) + 1 ELSE 0
        /\ \A i \in 1 .. Len(s) - (p + 1) + 1 : back[i] = s[p + 1 + i - 1]
    BY <2>1, SubSeqProperties
  <2>3. Len(s) - (p + 1) + 1 = Len(s) - p /\ \A i \in 1 .. Len(s) - p : p + 1 + i - 1 = p + i
    BY <1>0
  <2>4. (IF p + 1 <= Len(s) THEN Len(s) - (p + 1) + 1 ELSE 0) = Len(s) - p
    BY <1>0
  <2>5. \A i \in 1 .. Len(s) - p : back[i] = s[p + i]
    BY <2>2, <2>3
  <2> HIDE DEF back
  <2> QED
    BY <2>2, <2>4, <2>5
<1>4. RemoveAt(s, p) = r
  BY DEF RemoveAt
<1> HIDE DEF front, back
<1>5. /\ r \in Seq(K) /\ Len(r) = Len(front) + Len(back)
      /\ \A i \in 1 .. Len(front) + Len(back) :
            r[i] = IF i <= Len(front) THEN front[i] ELSE back[i - Len(front)]
  BY <1>2, <1>3, ConcatProperties
<1> HIDE DEF r
<1>6. Len(r) = Len(s) - 1 /\ DOMAIN r = 1 .. Len(s) - 1
  BY <1>1, <1>2, <1>3, <1>5, LenProperties
<1>7. ASSUME NEW i \in DOMAIN s, i # p
      PROVE  \E j \in DOMAIN r : r[j] = s[i]
  <2>1. CASE i < p
    <3>1. i \in 1 .. p - 1 /\ i \in 1 .. Len(s) - 1
      BY <1>1, <2>1
    <3>2. i \in 1 .. Len(front) + Len(back) /\ i <= Len(front)
      BY <1>1, <1>2, <1>3, <3>1
    <3>3. r[i] = front[i]
      BY <1>5, <3>2
    <3> QED
      BY <1>2, <1>6, <3>1, <3>3
  <2>2. CASE i > p
    <3>1. i - 1 \in 1 .. Len(s) - 1 /\ i - p \in 1 .. Len(s) - p /\ p + (i - p) = i
      BY <1>1, <2>2
    <3>2. /\ i - 1 \in 1 .. Len(front) + Len(back) /\ ~(i - 1 <= Len(front))
          /\ i - 1 - Len(front) = i - p
      <4>1. i \in Nat /\ Len(front) = p - 1 /\ Len(back) = Len(s) - p
        BY <1>1, <1>2, <1>3
      <4>2. p - 1 + (Len(s) - p) = Len(s) - 1 /\ ~(i - 1 <= p - 1) /\ i - 1 - (p - 1) = i - p
        BY <1>1, <2>2, <4>1
      <4> QED
        BY <3>1, <4>1, <4>2
    <3>3. r[i - 1] = back[i - p]
      BY <1>5, <3>2
    <3> QED
      BY <1>3, <1>6, <3>1, <3>3
  <2> QED
    BY <1>1, <1>7, <2>1, <2>2
<1> QED
  BY <1>4, <1>5, <1>6, <1>7 DEF ToSet

(* The queue after a use.                                                  *)
LEMMA TouchLeaves ==
  ASSUME NEW K, NEW order \in Seq(K), NEW key \in K
  PROVE  /\ Touch(order, key) \in Seq(K)
         /\ ToSet(order) \cup {key} \subseteq ToSet(Touch(order, key))
         /\ key \in ToSet(order) => Len(Touch(order, key)) = Len(order)
<1> DEFINE places == {i \in DOMAIN order : order[i] = key}
           rest == IF places = {} THEN order ELSE RemoveAt(order, Min(places))
           t == Append(rest, key)
<1>1. Len(order) \in Nat /\ DOMAIN order = 1 .. Len(order)
  BY LenProperties
<1>2. Touch(order, key) = t
  BY DEF Touch
<1>3. /\ rest \in Seq(K)
      /\ \A x \in ToSet(order) : x = key \/ x \in ToSet(rest)
      /\ key \in ToSet(order) => Len(rest) = Len(order) - 1
  <2>1. CASE places = {}
    BY <2>1 DEF ToSet
  <2>2. CASE places # {}
    <3>1. places \in SUBSET Nat
      BY <1>1
    <3>2. Min(places) \in places
      <4> HIDE DEF places
      <4> QED
        BY <2>2, <3>1, MinOfNaturals
    <3>3. rest = RemoveAt(order, Min(places))
      BY <2>2
    <3>4. Min(places) \in 1 .. Len(order) /\ order[Min(places)] = key
      BY <1>1, <3>2
    <3> HIDE DEF places, rest
    <3> QED
      BY <3>3, <3>4, RemoveAtLeaves
  <2> QED
    BY <2>1, <2>2
<1> HIDE DEF rest
<1>4. /\ t \in Seq(K) /\ Len(t) = Len(rest) + 1
      /\ \A i \in 1 .. Len(rest) : t[i] = rest[i]
      /\ t[Len(rest) + 1] = key
  BY <1>3, AppendProperties
<1>5. Len(rest) \in Nat /\ DOMAIN rest = 1 .. Len(rest)
  BY <1>3, LenProperties
<1>6. DOMAIN t = 1 .. Len(rest) + 1
  BY <1>4, LenProperties
<1> HIDE DEF t
<1>7. \A x \in ToSet(rest) : x \in ToSet(t)
  BY <1>4, <1>5, <1>6 DEF ToSet
<1>8. key \in ToSet(t)
  BY <1>4, <1>5, <1>6 DEF ToSet
<1>9. key \in ToSet(order) => Len(t) = Len(order)
  <2> SUFFICES ASSUME key \in ToSet(order)
               PROVE  Len(t) = Len(order)
    OBVIOUS
  <2>1. Len(rest) = Len(order) - 1
    BY <1>3
  <2> QED
    BY <1>1, <1>4, <1>5, <2>1
<1> QED
  BY <1>2, <1>3, <1>4, <1>7, <1>8, <1>9

LEMMA EmptyIsTyped ==
  ASSUME NEW K, NEW V
  PROVE  Typed(EmptyCache, K, V)
<1>1. /\ EmptyCache.order = <<>> /\ EmptyCache.entries = <<>>
      /\ EmptyCache = [order |-> EmptyCache.order, entries |-> EmptyCache.entries, used |-> EmptyCache.used]
  BY DEF EmptyCache
<1>2. Keys(EmptyCache) = {}
  BY <1>1 DEF Keys
<1>3. EmptyCache.entries \in [{} -> [value : V, size : Nat]]
  BY <1>1
<1> QED
  BY <1>1, <1>2, <1>3 DEF Typed

LEMMA GetIsTyped ==
  ASSUME NEW K, NEW V, NEW c, Typed(c, K, V), NEW key \in Keys(c)
  PROVE  /\ Typed(Get(c, key), K, V)
         /\ Get(c, key).entries = c.entries
         /\ Keys(Get(c, key)) = Keys(c)
         /\ Len(Get(c, key).order) = Len(c.order)
<1> DEFINE d == Get(c, key)
           t == Touch(c.order, key)
<1>1. /\ c = [order |-> c.order, entries |-> c.entries, used |-> c.used]
      /\ c.order \in Seq(K) /\ Keys(c) \subseteq K /\ Keys(c) \subseteq ToSet(c.order)
      /\ c.entries \in [Keys(c) -> [value : V, size : Nat]]
  BY DEF Typed
<1>2. d = [c EXCEPT !.order = t]
  BY DEF Get
<1>3. t \in Seq(K) /\ ToSet(c.order) \subseteq ToSet(t) /\ Len(t) = Len(c.order)
  BY <1>1, TouchLeaves
<1> HIDE DEF d, t
<1>4. d = [order |-> t, entries |-> c.entries, used |-> c.used]
  BY <1>1, <1>2
<1>5. d.order = t /\ d.entries = c.entries /\ d.used = c.used /\ Keys(d) = Keys(c)
  BY <1>4 DEF Keys
<1>6. d = [order |-> d.order, entries |-> d.entries, used |-> d.used]
  BY <1>4, <1>5
<1>7. Typed(d, K, V)
  BY <1>1, <1>3, <1>5, <1>6 DEF Typed
<1> QED
  BY <1>3, <1>5, <1>7 DEF d

(* What is popped leaves the table as well.                                *)
LEMMA PoppedIsTyped ==
  ASSUME NEW K, NEW V, NEW c, Typed(c, K, V), NEW n \in 0 .. Len(c.order)
  PROVE  /\ Typed(Popped(c, n), K, V)
         /\ Len(Popped(c, n).order) = Len(c.order) - n
         /\ Keys(Popped(c, n)) \subseteq Keys(c)
         /\ \A k \in Keys(Popped(c, n)) : Popped(c, n).entries[k] = c.entries[k]
<1> DEFINE d == Popped(c, n)
           gone == {c.order[i] : i \in 1 .. n}
           rest == SubSeq(c.order, n + 1, Len(c.order))
<1>1. /\ c.order \in Seq(K) /\ Keys(c) \subseteq K /\ Keys(c) \subseteq ToSet(c.order)
      /\ c.entries \in [Keys(c) -> [value : V, size : Nat]]
  BY DEF Typed
<1>2. Len(c.order) \in Nat /\ DOMAIN c.order = 1 .. Len(c.order)
  BY <1>1, LenProperties
<1>3. d = [order |-> rest, entries |-> [k \in Keys(c) \ gone |-> c.entries[k]],
           used |-> Less(c.used, SizeOf(c, gone \cap Keys(c)))]
  BY DEF Popped
<1>4. /\ d = [order |-> d.order, entries |-> d.entries, used |-> d.used]
      /\ d.order = rest /\ d.entries = [k \in Keys(c) \ gone |-> c.entries[k]]
  <2> HIDE DEF gone, rest, d
  <2> QED
    BY <1>3
<1>5. Keys(d) = Keys(c) \ gone
  BY <1>4 DEF Keys
<1>6. /\ rest \in Seq(K) /\ Len(rest) = Len(c.order) - n
      /\ \A i \in 1 .. Len(c.order) - n : rest[i] = c.order[n + i]
  BY <1>1, <1>2, SubSeqProperties, n + 1 \in Int, Len(c.order) \in Int
<1>7. DOMAIN rest = 1 .. Len(c.order) - n
  BY <1>6, LenProperties
<1> HIDE DEF d, rest
<1>8. ASSUME NEW k \in Keys(c) \ gone
      PROVE  k \in ToSet(rest)
  <2>1. PICK i \in 1 .. Len(c.order) : k = c.order[i]
    BY <1>1, <1>2 DEF ToSet
  <2>2. ~(i \in 1 .. n)
    BY <2>1
  <2>3. i - n \in 1 .. Len(c.order) - n /\ n + (i - n) = i
    BY <1>2, <2>2
  <2> QED
    BY <1>6, <1>7, <2>1, <2>3 DEF ToSet
<1> HIDE DEF gone
<1>9. d.entries \in [Keys(d) -> [value : V, size : Nat]]
  BY <1>1, <1>4, <1>5
<1>10. Typed(d, K, V)
  BY <1>1, <1>4, <1>5, <1>6, <1>8, <1>9 DEF Typed
<1> QED
  BY <1>4, <1>5, <1>6, <1>10 DEF d

LEMMA PutIsTyped ==
  ASSUME NEW K, NEW V, NEW c, Typed(c, K, V), NEW key \in K, NEW value \in V, NEW size \in Nat
  PROVE  /\ Typed(Put(c, key, value, size), K, V)
         /\ Keys(Put(c, key, value, size)) = Keys(c) \cup {key}
         /\ \A k \in Keys(c) \cup {key} : Put(c, key, value, size).entries[k] =
               IF k = key THEN [value |-> value, size |-> size] ELSE c.entries[k]
<1> DEFINE d == Put(c, key, value, size)
           t == Touch(c.order, key)
           table == [k \in Keys(c) \cup {key} |->
                        IF k = key THEN [value |-> value, size |-> size] ELSE c.entries[k]]
           bytes == (IF key \in Keys(c) THEN Less(c.used, c.entries[key].size) ELSE c.used) + size
<1>1. /\ c.order \in Seq(K) /\ Keys(c) \subseteq K /\ Keys(c) \subseteq ToSet(c.order)
      /\ c.entries \in [Keys(c) -> [value : V, size : Nat]]
  BY DEF Typed
<1>2. d = [order |-> t, entries |-> table, used |-> bytes]
  BY DEF Put
<1>3. t \in Seq(K) /\ ToSet(c.order) \cup {key} \subseteq ToSet(t)
  BY <1>1, TouchLeaves
<1>4. table \in [Keys(c) \cup {key} -> [value : V, size : Nat]]
  BY <1>1
<1>5. \A k \in Keys(c) \cup {key} : table[k] =
         IF k = key THEN [value |-> value, size |-> size] ELSE c.entries[k]
  OBVIOUS
<1> HIDE DEF d, t, table, bytes
<1>6. /\ d = [order |-> d.order, entries |-> d.entries, used |-> d.used]
      /\ d.order = t /\ d.entries = table /\ Keys(d) = Keys(c) \cup {key}
  BY <1>2, <1>4 DEF Keys
<1>7. Typed(d, K, V)
  BY <1>1, <1>3, <1>4, <1>6 DEF Typed
<1> QED
  BY <1>5, <1>6, <1>7 DEF d

LEMMA InsertIsTyped ==
  ASSUME NEW K, NEW V, NEW c, Typed(c, K, V), NEW key \in K, NEW value \in V,
         NEW size \in Nat, NEW lim, lim.entries \in Nat, lim.bytes = NoLimit
  PROVE  LET d == Insert(c, key, value, size, lim)
         IN  /\ Typed(d, K, V) /\ Fits(d, lim)
             /\ Keys(d) \subseteq Keys(c) \cup {key}
             /\ \A k \in Keys(d) : d.entries[k] = IF k = key THEN [value |-> value, size |-> size]
                                                             ELSE c.entries[k]
<1> DEFINE p == Put(c, key, value, size)
           d == Insert(c, key, value, size, lim)
           S == {n \in 0 .. Len(p.order) : Fits(Popped(p, n), lim)}
<1>1. /\ Typed(p, K, V) /\ Keys(p) = Keys(c) \cup {key}
      /\ \A k \in Keys(c) \cup {key} : p.entries[k] =
            IF k = key THEN [value |-> value, size |-> size] ELSE c.entries[k]
  BY PutIsTyped
<1>2. d = Popped(p, Min(S))
  BY DEF Insert, Evict
<1> HIDE DEF p, d
<1>3. Len(p.order) \in Nat
  BY <1>1, LenProperties DEF Typed
<1>4. Len(p.order) \in S
  <2>1. Len(p.order) \in 0 .. Len(p.order)
    BY <1>3
  <2>2. \A n \in 0 .. Len(p.order) : Len(Popped(p, n).order) = Len(p.order) - n
    BY <1>1, PoppedIsTyped
  <2>3. Len(Popped(p, Len(p.order)).order) = 0
    BY <1>3, <2>1, <2>2
  <2> QED
    BY <2>1, <2>3 DEF Fits
<1>5. S \in SUBSET Nat
  BY <1>3
<1>6. Min(S) \in 0 .. Len(p.order) /\ Fits(Popped(p, Min(S)), lim)
  <2>1. Min(S) \in S
    <3> HIDE DEF S
    <3> QED
      BY <1>4, <1>5, MinOfNaturals
  <2> QED
    BY <2>1
<1> HIDE DEF S
<1>7. /\ Typed(d, K, V) /\ Keys(d) \subseteq Keys(p)
      /\ \A k \in Keys(d) : d.entries[k] = p.entries[k]
  BY <1>1, <1>2, <1>6, PoppedIsTyped
<1> QED
  BY <1>1, <1>2, <1>6, <1>7 DEF d

-----------------------------------------------------------------------------
(* Invariants. *)

(* Without this HitsAreFresh does not hold: a second searcher inserts what *)
(* it read before a run into caches that were emptied after it, and a      *)
(* second run in a second leaves the stamps of the first.                  *)
OneSearcherOneRunPerSecond ==
    /\ \A s, t \in Searchers : s = t
    /\ RunsPerSecond = "one"

Response == [hits : Snapshot, context : Snapshot]
Stamp == Time \cup {None}

CachesAreTyped ==
    /\ Typed(responses, Queries, Response) /\ Len(responses.order) <= Capacity
    /\ Typed(contexts, Queries \X SUBSET Files, Snapshot) /\ Len(contexts.order) <= Capacity

SearchersAsk == \A s \in Searchers : ~At(s, "idle") => search[s].query \in Queries

IndexTypes ==
    /\ clock \in Time
    /\ index \in [Files -> [content : Content \cup {None}, updated : Time \cup {None}]]
    /\ writes \in 0 .. MaxWrites
    /\ indexRun \in [state : {"none", "done", "active", "failed"}, started : Time \cup {None}]
    /\ runStarted \in Time \cup {None}
    /\ faults \in 0 .. MaxFaults

SearchTypes ==
    /\ search \in [Searchers -> SearchState]
    /\ stamps \in Stamp \X Stamp

TypeInv == IndexTypes /\ SearchTypes /\ CachesAreTyped /\ SearchersAsk

LEMMA TypeInvImpliesTypeOK == TypeInv => TypeOK
<1>1. CachesAreTyped => Keys(responses) \subseteq Queries
  BY DEF CachesAreTyped, Typed
<1> QED
  BY <1>1 DEF TypeInv, TypeOK, IndexTypes, SearchTypes, CachesAreTyped, Stamp

-----------------------------------------------------------------------------
(* Why hits are fresh. *)

(* A run that is under way or has failed started after the last one that   *)
(* succeeded; no stamp in use is later than that of the latest.            *)
StampsArePast ==
    /\ indexRun.started <= clock
    /\ indexRun.state \in {"active", "failed"} => runStarted < indexRun.started
    /\ indexRun.state = "done" => runStarted = indexRun.started
    /\ indexRun.state = "none" => runStarted = None /\ indexRun.started = None
    /\ stamps[2] <= runStarted
    /\ \A s \in Searchers : search[s].seen[2] <= runStarted

Past == {"query", "context", "assemble", "insertContext", "insertResponse"}
Read == Past \ {"query"}
Assembled == {"insertContext", "insertResponse"}

(* Nobody else changes the stamps between the look-up and the insertion.   *)
KeepsTheStamps == \A s \in Searchers : search[s].pc \in Past => stamps = search[s].seen

(* A search that has seen the stamp of the run that is over has read the   *)
(* index after it.                                                         *)
ReadsAreFresh ==
    indexRun.state = "done" =>
        \A s \in Searchers : search[s].seen[2] = runStarted =>
            /\ search[s].pc \in Read => search[s].hits = Contents
            /\ search[s].pc \in Assembled => search[s].context = Contents

(* The same of what is cached, whatever the other stamp is.                *)
CachesAreFresh ==
    indexRun.state = "done" /\ stamps[2] = runStarted =>
        /\ \A q \in Keys(responses) :
              responses.entries[q].value = [hits |-> Contents, context |-> Contents]
        /\ \A k \in Keys(contexts) : contexts.entries[k].value = Contents

FreshInv == StampsArePast /\ KeepsTheStamps /\ ReadsAreFresh /\ CachesAreFresh
Inv == TypeInv /\ FreshInv

-----------------------------------------------------------------------------
(* Operators. *)

LEMMA IndexFacts ==
  ASSUME TypeOK
  PROVE  /\ LastUpdate \in Stamp /\ runStarted \in Stamp /\ None \in Stamp
         /\ Contents \in Snapshot /\ Nothing \in Snapshot
         /\ clock \in Nat /\ indexRun.started \in Nat /\ runStarted \in Nat
<1>1. MaxClock \in Nat /\ MaxClock >= 1
  BY RetrieverBoundsAssumption
<1>2. Stamp = 0 .. MaxClock
  BY <1>1 DEF Stamp, Time, None
<1> DEFINE S == {index[f].updated : f \in Files} \cup {None}
           R == {MaxClock - x : x \in S}
<1>3. S \subseteq 0 .. MaxClock
  BY <1>1, <1>2 DEF TypeOK, Stamp, None
<1>4. R \in SUBSET Nat /\ MaxClock - None \in R
  <2>1. \A x \in 0 .. MaxClock : MaxClock - x \in Nat
    BY <1>1
  <2>2. None \in S
    OBVIOUS
  <2> HIDE DEF S
  <2> QED
    BY <1>3, <2>1, <2>2
<1> HIDE DEF S
<1>5. Min(R) \in R /\ \A x \in R : Min(R) <= x
  <2> HIDE DEF R
  <2> QED
    BY <1>4, MinOfNaturals
<1>6. PICK m \in S : Min(R) = MaxClock - m
  BY <1>5
<1>7. \A x \in S : m >= x
  <2>1. \A x \in S : MaxClock - x \in R
    OBVIOUS
  <2> HIDE DEF R
  <2>2. \A x \in S : MaxClock - m <= MaxClock - x
    BY <1>5, <1>6, <2>1
  <2>3. \A x \in S : x \in Nat /\ x <= MaxClock
    BY <1>1, <1>3
  <2> QED
    BY ONLY <1>1, <2>2, <2>3, m \in S
<1>8. Max(S) \in S
  BY <1>6, <1>7 DEF Max
<1>9. LastUpdate \in Stamp
  <2>1. LastUpdate = Max(S)
    BY DEF LastUpdate, S
  <2> QED
    BY <1>2, <1>3, <1>8, <2>1
<1>10. Contents \in Snapshot /\ Nothing \in Snapshot
  BY DEF Contents, Snapshot, Nothing, TypeOK
<1> QED
  BY <1>1, <1>2, <1>9, <1>10 DEF TypeOK, Stamp, None, Time

(* What a step of a searcher does to the state of the searchers.           *)
SetTo(s, pc, query, seen, hits, context) ==
    /\ search' \in [Searchers -> SearchState]
    /\ \A t \in Searchers \ {s} : search'[t] = search[t]
    /\ search'[s].pc = pc /\ search'[s].query = query /\ search'[s].seen = seen
    /\ search'[s].hits = hits /\ search'[s].context = context

LEMMA StateSet ==
  ASSUME search \in [Searchers -> SearchState], NEW s \in Searchers, NEW next \in SearchState,
         search' = [search EXCEPT ![s] = next]
  PROVE  SetTo(s, next.pc, next.query, next.seen, next.hits, next.context)
  BY DEF SetTo

LEMMA SearcherFacts ==
  ASSUME TypeOK, NEW s \in Searchers
  PROVE  /\ search \in [Searchers -> SearchState] /\ search[s] \in SearchState
         /\ search[s].query \in Queries \cup {None} /\ search[s].seen \in Stamp \X Stamp
         /\ search[s].seen[1] \in Stamp /\ search[s].seen[2] \in Stamp
         /\ search[s].hits \in Snapshot /\ search[s].context \in Snapshot
         /\ Idle \in SearchState
<1>1. search \in [Searchers -> SearchState] /\ search[s] \in SearchState
  BY DEF TypeOK
<1>2. Idle \in SearchState
  <2>1. Nothing \in Snapshot /\ None \in Stamp
    BY IndexFacts
  <2> QED
    BY <2>1 DEF Idle, SearchState, SearchPC, Stamp
<1> QED
  BY <1>1, <1>2 DEF SearchState, Stamp

LEMMA BecomesIdle ==
  ASSUME TypeOK, NEW s \in Searchers, search' = [search EXCEPT ![s] = Idle]
  PROVE  SetTo(s, "idle", None, <<None, None>>, Nothing, Nothing)
<1>1. SetTo(s, Idle.pc, Idle.query, Idle.seen, Idle.hits, Idle.context)
  BY SearcherFacts, StateSet
<1> QED
  BY <1>1 DEF Idle

LEMMA CallFacts ==
  ASSUME TypeOK, NEW s \in Searchers, Call(s)
  PROVE  \E q \in Queries : SetTo(s, "readUpdate", q, <<None, None>>, Nothing, Nothing)
<1>1. PICK q \in Queries : search' = [search EXCEPT ![s] = [Idle EXCEPT !.pc = "readUpdate", !.query = q]]
  BY DEF Call
<1> DEFINE next == [Idle EXCEPT !.pc = "readUpdate", !.query = q]
<1>2. /\ next.pc = "readUpdate" /\ next.query = q /\ next.seen = <<None, None>>
      /\ next.hits = Nothing /\ next.context = Nothing
  BY DEF Idle
<1>3. Nothing \in Snapshot /\ None \in Stamp
  BY IndexFacts
<1>4. next \in SearchState
  BY <1>2, <1>3 DEF Idle, SearchState, SearchPC, Stamp
<1>5. search' = [search EXCEPT ![s] = next] /\ search \in [Searchers -> SearchState]
  BY <1>1, SearcherFacts
<1> HIDE DEF next
<1> QED
  BY <1>2, <1>4, <1>5, StateSet

LEMMA ReadLastUpdateFacts ==
  ASSUME TypeOK, NEW s \in Searchers, ReadLastUpdate(s)
  PROVE  SetTo(s, "readRun", search[s].query, <<LastUpdate, search[s].seen[2]>>, search[s].hits, search[s].context)
<1> DEFINE next == [search[s] EXCEPT !.pc = "readRun", !.seen = <<LastUpdate, @[2]>>]
<1>1. search[s] \in SearchState /\ search \in [Searchers -> SearchState]
  BY SearcherFacts
<1>2. /\ next.pc = "readRun" /\ next.query = search[s].query /\ next.seen = <<LastUpdate, search[s].seen[2]>>
      /\ next.hits = search[s].hits /\ next.context = search[s].context
  BY <1>1 DEF SearchState
<1>3. /\ LastUpdate \in Stamp /\ runStarted \in Stamp /\ Contents \in Snapshot
      /\ search[s].seen[1] \in Stamp /\ search[s].seen[2] \in Stamp
  BY IndexFacts, SearcherFacts
<1>4. next \in SearchState
  BY <1>1, <1>2, <1>3 DEF SearchState, SearchPC, Stamp
<1>5. search' = [search EXCEPT ![s] = next]
  BY <1>1 DEF ReadLastUpdate
<1> HIDE DEF next
<1>6. SetTo(s, next.pc, next.query, next.seen, next.hits, next.context)
  BY <1>1, <1>4, <1>5, StateSet
<1> QED
  BY <1>2, <1>6

LEMMA ReadLatestRunFacts ==
  ASSUME TypeOK, NEW s \in Searchers, ReadLatestRun(s)
  PROVE  SetTo(s, "lookup", search[s].query, <<search[s].seen[1], runStarted>>, search[s].hits, search[s].context)
<1> DEFINE next == [search[s] EXCEPT !.pc = "lookup", !.seen = <<@[1], runStarted>>]
<1>1. search[s] \in SearchState /\ search \in [Searchers -> SearchState]
  BY SearcherFacts
<1>2. /\ next.pc = "lookup" /\ next.query = search[s].query /\ next.seen = <<search[s].seen[1], runStarted>>
      /\ next.hits = search[s].hits /\ next.context = search[s].context
  BY <1>1 DEF SearchState
<1>3. /\ LastUpdate \in Stamp /\ runStarted \in Stamp /\ Contents \in Snapshot
      /\ search[s].seen[1] \in Stamp /\ search[s].seen[2] \in Stamp
  BY IndexFacts, SearcherFacts
<1>4. next \in SearchState
  BY <1>1, <1>2, <1>3 DEF SearchState, SearchPC, Stamp
<1>5. search' = [search EXCEPT ![s] = next]
  BY <1>1 DEF ReadLatestRun
<1> HIDE DEF next
<1>6. SetTo(s, next.pc, next.query, next.seen, next.hits, next.context)
  BY <1>1, <1>4, <1>5, StateSet
<1> QED
  BY <1>2, <1>6

LEMMA QueryFacts ==
  ASSUME TypeOK, NEW s \in Searchers, Query(s)
  PROVE  SetTo(s, "context", search[s].query, search[s].seen, Contents, search[s].context)
<1> DEFINE next == [search[s] EXCEPT !.pc = "context", !.hits = Contents]
<1>1. search[s] \in SearchState /\ search \in [Searchers -> SearchState]
  BY SearcherFacts
<1>2. /\ next.pc = "context" /\ next.query = search[s].query /\ next.seen = search[s].seen
      /\ next.hits = Contents /\ next.context = search[s].context
  BY <1>1 DEF SearchState
<1>3. /\ LastUpdate \in Stamp /\ runStarted \in Stamp /\ Contents \in Snapshot
      /\ search[s].seen[1] \in Stamp /\ search[s].seen[2] \in Stamp
  BY IndexFacts, SearcherFacts
<1>4. next \in SearchState
  BY <1>1, <1>2, <1>3 DEF SearchState, SearchPC, Stamp
<1>5. search' = [search EXCEPT ![s] = next]
  BY <1>1 DEF Query
<1> HIDE DEF next
<1>6. SetTo(s, next.pc, next.query, next.seen, next.hits, next.context)
  BY <1>1, <1>4, <1>5, StateSet
<1> QED
  BY <1>2, <1>6

LEMMA AssembleFacts ==
  ASSUME TypeOK, NEW s \in Searchers, AssembleContext(s)
  PROVE  SetTo(s, "insertContext", search[s].query, search[s].seen, search[s].hits, search[s].hits)
<1> DEFINE next == [search[s] EXCEPT !.pc = "insertContext", !.context = search[s].hits]
<1>1. search[s] \in SearchState /\ search \in [Searchers -> SearchState]
  BY SearcherFacts
<1>2. /\ next.pc = "insertContext" /\ next.query = search[s].query /\ next.seen = search[s].seen
      /\ next.hits = search[s].hits /\ next.context = search[s].hits
  BY <1>1 DEF SearchState
<1>3. /\ LastUpdate \in Stamp /\ runStarted \in Stamp /\ Contents \in Snapshot
      /\ search[s].seen[1] \in Stamp /\ search[s].seen[2] \in Stamp
  BY IndexFacts, SearcherFacts
<1>4. next \in SearchState
  BY <1>1, <1>2, <1>3 DEF SearchState, SearchPC, Stamp
<1>5. search' = [search EXCEPT ![s] = next]
  BY <1>1 DEF AssembleContext
<1> HIDE DEF next
<1>6. SetTo(s, next.pc, next.query, next.seen, next.hits, next.context)
  BY <1>1, <1>4, <1>5, StateSet
<1> QED
  BY <1>2, <1>6

LEMMA GoesFacts ==
  ASSUME TypeOK, NEW s \in Searchers, NEW to \in SearchPC, search' = [search EXCEPT ![s].pc = to]
  PROVE  SetTo(s, to, search[s].query, search[s].seen, search[s].hits, search[s].context)
<1> DEFINE next == [search[s] EXCEPT !.pc = to]
<1>1. search[s] \in SearchState /\ search \in [Searchers -> SearchState]
  BY SearcherFacts
<1>2. /\ next.pc = to /\ next.query = search[s].query /\ next.seen = search[s].seen
      /\ next.hits = search[s].hits /\ next.context = search[s].context
  BY <1>1 DEF SearchState
<1>3. /\ LastUpdate \in Stamp /\ runStarted \in Stamp /\ Contents \in Snapshot
      /\ search[s].seen[1] \in Stamp /\ search[s].seen[2] \in Stamp
  BY IndexFacts, SearcherFacts
<1>4. next \in SearchState
  BY <1>1, <1>2, <1>3 DEF SearchState, SearchPC, Stamp
<1>5. search' = [search EXCEPT ![s] = next]
  BY <1>1
<1> HIDE DEF next
<1>6. SetTo(s, next.pc, next.query, next.seen, next.hits, next.context)
  BY <1>1, <1>4, <1>5, StateSet
<1> QED
  BY <1>2, <1>6

LEMMA TakesFacts ==
  ASSUME TypeOK, NEW s \in Searchers, NEW c \in Snapshot,
         search' = [search EXCEPT ![s].pc = "insertResponse", ![s].context = c]
  PROVE  SetTo(s, "insertResponse", search[s].query, search[s].seen, search[s].hits, c)
<1> DEFINE next == [search[s] EXCEPT !.pc = "insertResponse", !.context = c]
<1>1. search[s] \in SearchState /\ search \in [Searchers -> SearchState]
  BY SearcherFacts
<1>2. /\ next.pc = "insertResponse" /\ next.query = search[s].query /\ next.seen = search[s].seen
      /\ next.hits = search[s].hits /\ next.context = c
  BY <1>1 DEF SearchState
<1>3. /\ LastUpdate \in Stamp /\ runStarted \in Stamp /\ Contents \in Snapshot
      /\ search[s].seen[1] \in Stamp /\ search[s].seen[2] \in Stamp
  BY IndexFacts, SearcherFacts
<1>4. next \in SearchState
  BY <1>1, <1>2, <1>3 DEF SearchState, SearchPC, Stamp
<1>5. search' = [search EXCEPT ![s] = next]
  BY <1>1
<1> HIDE DEF next
<1>6. SetTo(s, next.pc, next.query, next.seen, next.hits, next.context)
  BY <1>1, <1>4, <1>5, StateSet
<1> QED
  BY <1>2, <1>6

LEMMA MaxOfTwo ==
  ASSUME NEW m \in Nat, NEW n \in Nat
  PROVE  Max({m, n}) = IF m >= n THEN m ELSE n
<1> DEFINE x == IF m >= n THEN m ELSE n
<1>1. x \in {m, n} /\ \A y \in {m, n} : x >= y
  OBVIOUS
<1>2. \A z \in {m, n} : (\A y \in {m, n} : z >= y) => z = x
  OBVIOUS
<1> HIDE DEF x
<1>3. Max({m, n}) = x
  BY <1>1, <1>2 DEF Max
<1> QED
  BY <1>3 DEF x

(* What a look-up does to a cache: it empties it, or leaves the values     *)
(* when the stamps are those it was filled under.                          *)
EmptiedOrKept(new, old, kept) ==
    \/ Keys(new) = {}
    \/ kept /\ new.entries = old.entries

LEMMA ValidIsTyped ==
  ASSUME NEW K, NEW V, NEW c, Typed(c, K, V), Len(c.order) <= Capacity, NEW seen
  PROVE  /\ Typed(Valid(c, seen), K, V) /\ Len(Valid(c, seen).order) <= Capacity
         /\ EmptiedOrKept(Valid(c, seen), c, seen = stamps)
<1>1. Capacity \in Nat
  BY RetrieverBoundsAssumption
<1>2. Keys(EmptyCache) = {} /\ Len(EmptyCache.order) = 0
  BY DEF Keys, EmptyCache
<1>3. Typed(EmptyCache, K, V)
  BY EmptyIsTyped
<1>4. CASE seen = stamps
  BY <1>4 DEF Valid, EmptiedOrKept
<1>5. CASE seen # stamps
  <2>1. Valid(c, seen) = EmptyCache
    BY <1>5 DEF Valid
  <2>2. EmptiedOrKept(EmptyCache, c, seen = stamps)
    BY <1>2 DEF EmptiedOrKept
  <2>3. Len(EmptyCache.order) <= Capacity
    BY <1>1, <1>2
  <2> QED
    BY <1>3, <2>1, <2>2, <2>3, Zenon
<1> QED
  BY <1>4, <1>5

LEMMA LookupFacts ==
  ASSUME TypeInv, NEW s \in Searchers, Lookup(s)
  PROVE  LET same == search[s].seen = stamps
         IN  /\ stamps' = search[s].seen
             /\ CachesAreTyped'
             /\ EmptiedOrKept(responses', responses, same)
             /\ EmptiedOrKept(contexts', contexts, same)
             /\ \/ SetTo(s, "idle", None, <<None, None>>, Nothing, Nothing)
                \/ SetTo(s, "query", search[s].query, search[s].seen, search[s].hits, search[s].context)
<1> DEFINE found == Valid(responses, search[s].seen)
           same == search[s].seen = stamps
           KC == Queries \X SUBSET Files
<1>1. /\ Typed(responses, Queries, Response) /\ Len(responses.order) <= Capacity
      /\ Typed(contexts, KC, Snapshot) /\ Len(contexts.order) <= Capacity
  BY DEF TypeInv, CachesAreTyped
<1>4. /\ Typed(found, Queries, Response) /\ Len(found.order) <= Capacity
      /\ EmptiedOrKept(found, responses, same)
  BY <1>1, ValidIsTyped
<1>5. stamps' = search[s].seen /\ contexts' = Valid(contexts, search[s].seen)
  BY DEF Lookup
<1>6. /\ Typed(contexts', KC, Snapshot) /\ Len(contexts'.order) <= Capacity
      /\ EmptiedOrKept(contexts', contexts, same)
  BY <1>1, <1>5, ValidIsTyped
<1>7. CASE search[s].query \in Keys(found)
  <2>1. responses' = Get(found, search[s].query) /\ search' = [search EXCEPT ![s] = Idle]
    BY <1>7 DEF Lookup
  <2> HIDE DEF found
  <2>2. /\ Typed(responses', Queries, Response)
        /\ responses'.entries = found.entries /\ Keys(responses') = Keys(found)
        /\ Len(responses'.order) = Len(found.order)
    BY <1>4, <1>7, <2>1, GetIsTyped
  <2>3. SetTo(s, "idle", None, <<None, None>>, Nothing, Nothing)
    BY <2>1, BecomesIdle, TypeInvImpliesTypeOK
  <2> QED
    BY <1>4, <1>5, <1>6, <2>2, <2>3 DEF CachesAreTyped, EmptiedOrKept
<1>8. CASE search[s].query \notin Keys(found)
  <2>1. responses' = found /\ search' = [search EXCEPT ![s].pc = "query"]
    BY <1>8 DEF Lookup
  <2>2. SetTo(s, "query", search[s].query, search[s].seen, search[s].hits, search[s].context)
    BY <2>1, GoesFacts, TypeInvImpliesTypeOK DEF SearchPC
  <2> HIDE DEF found
  <2> QED
    BY <1>4, <1>5, <1>6, <2>1, <2>2 DEF CachesAreTyped
<1> QED
  BY <1>7, <1>8

LEMMA ContextKeyType ==
  ASSUME TypeInv, NEW s \in Searchers, ~At(s, "idle")
  PROVE  ContextKey(s) \in Queries \X SUBSET Files
  BY DEF ContextKey, Found, TypeInv, SearchersAsk

LEMMA LookupContextFacts ==
  ASSUME TypeInv, NEW s \in Searchers, LookupContext(s)
  PROVE  /\ CachesAreTyped' /\ contexts'.entries = contexts.entries
         /\ \/ /\ ContextKey(s) \in Keys(contexts)
               /\ SetTo(s, "insertResponse", search[s].query, search[s].seen, search[s].hits,
                           contexts.entries[ContextKey(s)].value)
            \/ SetTo(s, "assemble", search[s].query, search[s].seen, search[s].hits, search[s].context)
<1> DEFINE key == ContextKey(s)
           KC == Queries \X SUBSET Files
<1>1. Typed(contexts, KC, Snapshot) /\ Len(contexts.order) <= Capacity
  BY DEF TypeInv, CachesAreTyped
<1>2. UNCHANGED <<responses, stamps>>
  BY DEF LookupContext
<1>3. CASE key \in Keys(contexts)
  <2>1. /\ contexts' = Get(contexts, key)
        /\ search' = [search EXCEPT ![s].pc = "insertResponse",
                          ![s].context = contexts.entries[key].value]
    BY <1>3 DEF LookupContext
  <2>2. contexts.entries[key].value \in Snapshot
    <3>1. contexts.entries \in [Keys(contexts) -> [value : Snapshot, size : Nat]]
      BY <1>1 DEF Typed
    <3> QED
      BY <1>3, <3>1
  <2> HIDE DEF key
  <2>3. /\ Typed(contexts', KC, Snapshot) /\ contexts'.entries = contexts.entries
        /\ Len(contexts'.order) = Len(contexts.order)
    BY <1>1, <1>3, <2>1, GetIsTyped
  <2>4. SetTo(s, "insertResponse", search[s].query, search[s].seen, search[s].hits,
                 contexts.entries[key].value)
    BY <2>1, <2>2, TakesFacts, TypeInvImpliesTypeOK
  <2>5. CachesAreTyped'
    BY <1>1, <1>2, <2>3 DEF TypeInv, CachesAreTyped
  <2> QED
    BY <1>3, <2>3, <2>4, <2>5 DEF key
<1>4. CASE key \notin Keys(contexts)
  <2>1. search' = [search EXCEPT ![s].pc = "assemble"] /\ UNCHANGED contexts
    BY <1>4 DEF LookupContext
  <2>2. SetTo(s, "assemble", search[s].query, search[s].seen, search[s].hits, search[s].context)
    BY <2>1, GoesFacts, TypeInvImpliesTypeOK DEF SearchPC
  <2> QED
    BY <1>2, <2>1, <2>2 DEF TypeInv, CachesAreTyped
<1> QED
  BY <1>3, <1>4

LEMMA InsertContextFacts ==
  ASSUME TypeInv, NEW s \in Searchers, InsertContext(s)
  PROVE  /\ CachesAreTyped'
         /\ \A k \in Keys(contexts') :
               \/ contexts'.entries[k].value = search[s].context
               \/ k \in Keys(contexts) /\ contexts'.entries[k] = contexts.entries[k]
         /\ SetTo(s, "insertResponse", search[s].query, search[s].seen, search[s].hits,
                     search[s].context)
<1> DEFINE key == ContextKey(s)
           KC == Queries \X SUBSET Files
           value == search[s].context
<1>1. Typed(contexts, KC, Snapshot)
  BY DEF TypeInv, CachesAreTyped
<1>2. /\ contexts' = Insert(contexts, key, value, 1, limits)
      /\ search' = [search EXCEPT ![s].pc = "insertResponse"]
      /\ UNCHANGED <<responses, stamps>> /\ At(s, "insertContext")
  BY DEF InsertContext
<1>3. key \in KC /\ value \in Snapshot /\ limits.entries \in Nat /\ limits.entries = Capacity /\ limits.bytes = NoLimit
  BY <1>2, ContextKeyType, SearcherFacts, RetrieverBoundsAssumption, TypeInvImpliesTypeOK DEF limits, At
<1> HIDE DEF key, value, KC
<1>4. /\ Typed(contexts', KC, Snapshot) /\ Fits(contexts', limits)
      /\ Keys(contexts') \subseteq Keys(contexts) \cup {key}
      /\ \A k \in Keys(contexts') : contexts'.entries[k] =
            IF k = key THEN [value |-> value, size |-> 1] ELSE contexts.entries[k]
  <2>1. 1 \in Nat
    OBVIOUS
  <2> DEFINE d == Insert(contexts, key, value, 1, limits)
  <2>2. /\ Typed(d, KC, Snapshot) /\ Fits(d, limits)
        /\ Keys(d) \subseteq Keys(contexts) \cup {key}
        /\ \A k \in Keys(d) : d.entries[k] =
              IF k = key THEN [value |-> value, size |-> 1] ELSE contexts.entries[k]
    BY <1>1, <1>3, <2>1, InsertIsTyped
  <2> QED
    BY <1>2, <2>2
<1>5. CachesAreTyped'
  BY <1>2, <1>3, <1>4 DEF TypeInv, CachesAreTyped, Fits, KC
<1>6. SetTo(s, "insertResponse", search[s].query, search[s].seen, search[s].hits,
               search[s].context)
  BY <1>2, GoesFacts, TypeInvImpliesTypeOK DEF SearchPC
<1> QED
  BY <1>4, <1>5, <1>6 DEF value

LEMMA InsertResponseFacts ==
  ASSUME TypeInv, NEW s \in Searchers, InsertResponse(s)
  PROVE  /\ CachesAreTyped'
         /\ \A q \in Keys(responses') :
               \/ responses'.entries[q].value = [hits |-> search[s].hits, context |-> search[s].context]
               \/ q \in Keys(responses) /\ responses'.entries[q] = responses.entries[q]
         /\ SetTo(s, "idle", None, <<None, None>>, Nothing, Nothing)
<1> DEFINE query == search[s].query
           value == [hits |-> search[s].hits, context |-> search[s].context]
<1>1. Typed(responses, Queries, Response)
  BY DEF TypeInv, CachesAreTyped
<1>2. /\ responses' = Insert(responses, query, value, 1, limits)
      /\ search' = [search EXCEPT ![s] = Idle]
      /\ UNCHANGED <<contexts, stamps>> /\ At(s, "insertResponse")
  BY DEF InsertResponse
<1>3. query \in Queries
  BY <1>2 DEF TypeInv, SearchersAsk, At
<1>4. value \in Response
  BY SearcherFacts, TypeInvImpliesTypeOK DEF Response
<1>5. limits.entries \in Nat /\ limits.entries = Capacity /\ limits.bytes = NoLimit
  BY RetrieverBoundsAssumption DEF limits
<1> HIDE DEF query, value
<1>6. /\ Typed(responses', Queries, Response) /\ Fits(responses', limits)
      /\ Keys(responses') \subseteq Keys(responses) \cup {query}
      /\ \A q \in Keys(responses') : responses'.entries[q] =
            IF q = query THEN [value |-> value, size |-> 1] ELSE responses.entries[q]
  <2>1. 1 \in Nat
    OBVIOUS
  <2> DEFINE d == Insert(responses, query, value, 1, limits)
  <2>2. /\ Typed(d, Queries, Response) /\ Fits(d, limits)
        /\ Keys(d) \subseteq Keys(responses) \cup {query}
        /\ \A q \in Keys(d) : d.entries[q] =
              IF q = query THEN [value |-> value, size |-> 1] ELSE responses.entries[q]
    BY <1>1, <1>3, <1>4, <1>5, <2>1, InsertIsTyped
  <2> QED
    BY <1>2, <2>2
<1>7. CachesAreTyped'
  BY <1>2, <1>5, <1>6 DEF TypeInv, CachesAreTyped, Fits
<1>8. SetTo(s, "idle", None, <<None, None>>, Nothing, Nothing)
  BY <1>2, BecomesIdle, TypeInvImpliesTypeOK
<1> QED
  BY <1>6, <1>7, <1>8 DEF value

-----------------------------------------------------------------------------
(* The types, under any number of searchers. *)

LEMMA InitTypes == Init => TypeInv
<1> SUFFICES ASSUME Init PROVE TypeInv
  OBVIOUS
<1>1. IndexTypes
  BY RetrieverBoundsAssumption DEF Init, IndexTypes, Time, Missing
<1>2. SearchTypes
  BY DEF Init, SearchTypes, Idle, SearchState, SearchPC, Stamp, Nothing, Snapshot
<1>3. Typed(EmptyCache, Queries, Response) /\ Typed(EmptyCache, Queries \X SUBSET Files, Snapshot)
  BY EmptyIsTyped
<1>4. Len(EmptyCache.order) <= Capacity
  BY RetrieverBoundsAssumption DEF EmptyCache
<1>5. CachesAreTyped
  BY <1>3, <1>4, Zenon DEF Init, CachesAreTyped
<1>6. SearchersAsk
  BY DEF Init, SearchersAsk, At, Idle
<1> QED
  BY <1>1, <1>2, <1>5, <1>6 DEF TypeInv

LEMMA RunKeepsTypes ==
  ASSUME TypeInv, Tick \/ RunStep
  PROVE  TypeInv'
<1>1. IndexTypes /\ SearchTypes /\ CachesAreTyped /\ SearchersAsk
  BY DEF TypeInv
<1>2. UNCHANGED <<search, cacheVars>>
  BY DEF Tick, RunStep, BeginRun, IndexFile, CleanFile, EndRun, FailRun
<1>3. SearchTypes' /\ CachesAreTyped' /\ SearchersAsk'
  BY <1>1, <1>2 DEF SearchTypes, CachesAreTyped, SearchersAsk, At, cacheVars
<1>4. /\ MaxClock \in Nat /\ MaxClock >= 1 /\ MaxWrites \in Nat /\ MaxFaults \in Nat
      /\ Time \cup {None} = 0 .. MaxClock /\ clock \in 1 .. MaxClock
  BY <1>1, RetrieverBoundsAssumption DEF Time, None, IndexTypes
<1>5. ASSUME Tick PROVE IndexTypes'
  BY <1>1, <1>4, <1>5 DEF Tick, IndexTypes, Time
<1>6. ASSUME BeginRun PROVE IndexTypes'
  BY <1>1, <1>6 DEF BeginRun, IndexTypes
<1>7. ASSUME IndexFile PROVE IndexTypes'
  <2>1. PICK f \in Files : index' = [index EXCEPT ![f] = [content |-> writes + 1, updated |-> clock]]
    BY <1>7 DEF IndexFile
  <2>2. writes + 1 \in Content /\ writes' \in 0 .. MaxWrites
    BY <1>1, <1>4, <1>7 DEF IndexFile, IndexTypes, Content
  <2>3. index' \in [Files -> [content : Content \cup {None}, updated : Time \cup {None}]]
    BY <1>1, <2>1, <2>2 DEF IndexTypes
  <2> QED
    BY <1>1, <1>7, <2>2, <2>3 DEF IndexFile, IndexTypes
<1>8. ASSUME CleanFile PROVE IndexTypes'
  BY <1>1, <1>8 DEF CleanFile, IndexTypes, Missing
<1>9. ASSUME EndRun PROVE IndexTypes'
  <2>1. runStarted \in Nat /\ indexRun.started \in Nat
    BY IndexFacts, TypeInvImpliesTypeOK
  <2>2. runStarted' = IF runStarted >= indexRun.started THEN runStarted ELSE indexRun.started
    BY <1>9, <2>1, MaxOfTwo DEF EndRun
  <2> QED
    BY <1>1, <1>9, <2>2 DEF EndRun, IndexTypes
<1>10. ASSUME FailRun PROVE IndexTypes'
  BY <1>1, <1>4, <1>10 DEF FailRun, IndexTypes
<1>11. IndexTypes'
  BY <1>5, <1>6, <1>7, <1>8, <1>9, <1>10 DEF RunStep
<1> QED
  BY <1>3, <1>11 DEF TypeInv

LEMMA StillAsk ==
  ASSUME SearchersAsk, NEW s \in Searchers, NEW pc, NEW query, NEW seen, NEW hits, NEW context,
         SetTo(s, pc, query, seen, hits, context), pc = "idle" \/ query \in Queries
  PROVE  SearchersAsk'
  BY DEF SearchersAsk, At, SetTo

LEMMA SearchKeepsTypes ==
  ASSUME TypeInv, NEW s \in Searchers, SearchStep(s)
  PROVE  TypeInv'
<1>1. TypeOK /\ IndexTypes /\ SearchTypes /\ CachesAreTyped /\ SearchersAsk
  BY TypeInvImpliesTypeOK DEF TypeInv
<1>2. UNCHANGED indexVars
  BY DEF SearchStep, Call, ReadLastUpdate, ReadLatestRun, Lookup, Query, LookupContext,
         AssembleContext, InsertContext, InsertResponse
<1>3. IndexTypes'
  BY <1>1, <1>2 DEF IndexTypes, indexVars
<1>4. ~At(s, "idle") => search[s].query \in Queries
  BY <1>1 DEF SearchersAsk
<1>5. stamps' \in Stamp \X Stamp
  <2>1. stamps' \in {stamps, search[s].seen}
    BY DEF SearchStep, Call, ReadLastUpdate, ReadLatestRun, Lookup, Query, LookupContext,
           AssembleContext, InsertContext, InsertResponse, cacheVars
  <2> QED
    BY <1>1, <2>1, SearcherFacts DEF SearchTypes
<1>6. CASE Call(s)
  <2>1. PICK q \in Queries : SetTo(s, "readUpdate", q, <<None, None>>, Nothing, Nothing)
    BY <1>1, <1>6, CallFacts
  <2>2. UNCHANGED cacheVars
    BY <1>6 DEF Call
  <2> QED
    BY <1>1, <1>3, <1>5, <2>1, <2>2, StillAsk
       DEF TypeInv, SearchTypes, SetTo, CachesAreTyped, cacheVars
<1>7. CASE ReadLastUpdate(s)
  <2>1. SetTo(s, "readRun", search[s].query, <<LastUpdate, search[s].seen[2]>>,
              search[s].hits, search[s].context)
    BY <1>1, <1>7, ReadLastUpdateFacts
  <2>2. UNCHANGED cacheVars /\ search[s].query \in Queries
    BY <1>4, <1>7 DEF ReadLastUpdate, At
  <2>3. SearchersAsk'
    BY <1>1, <2>1, <2>2, StillAsk
  <2> QED
    BY <1>1, <1>3, <1>5, <2>1, <2>2, <2>3 DEF TypeInv, SearchTypes, SetTo, CachesAreTyped, cacheVars
<1>8. CASE ReadLatestRun(s)
  <2>1. SetTo(s, "lookup", search[s].query, <<search[s].seen[1], runStarted>>,
              search[s].hits, search[s].context)
    BY <1>1, <1>8, ReadLatestRunFacts
  <2>2. UNCHANGED cacheVars /\ search[s].query \in Queries
    BY <1>4, <1>8 DEF ReadLatestRun, At
  <2>3. SearchersAsk'
    BY <1>1, <2>1, <2>2, StillAsk
  <2> QED
    BY <1>1, <1>3, <1>5, <2>1, <2>2, <2>3 DEF TypeInv, SearchTypes, SetTo, CachesAreTyped, cacheVars
<1>9. CASE Query(s)
  <2>1. SetTo(s, "context", search[s].query, search[s].seen,
              Contents, search[s].context)
    BY <1>1, <1>9, QueryFacts
  <2>2. UNCHANGED cacheVars /\ search[s].query \in Queries
    BY <1>4, <1>9 DEF Query, At
  <2>3. SearchersAsk'
    BY <1>1, <2>1, <2>2, StillAsk
  <2> QED
    BY <1>1, <1>3, <1>5, <2>1, <2>2, <2>3 DEF TypeInv, SearchTypes, SetTo, CachesAreTyped, cacheVars
<1>10. CASE AssembleContext(s)
  <2>1. SetTo(s, "insertContext", search[s].query, search[s].seen,
              search[s].hits, search[s].hits)
    BY <1>1, <1>10, AssembleFacts
  <2>2. UNCHANGED cacheVars /\ search[s].query \in Queries
    BY <1>4, <1>10 DEF AssembleContext, At
  <2>3. SearchersAsk'
    BY <1>1, <2>1, <2>2, StillAsk
  <2> QED
    BY <1>1, <1>3, <1>5, <2>1, <2>2, <2>3 DEF TypeInv, SearchTypes, SetTo, CachesAreTyped, cacheVars
<1>11. CASE Lookup(s)
  <2>1. search[s].query \in Queries
    BY <1>4, <1>11 DEF Lookup, At
  <2>2. /\ CachesAreTyped'
        /\ \/ SetTo(s, "idle", None, <<None, None>>, Nothing, Nothing)
           \/ SetTo(s, "query", search[s].query, search[s].seen, search[s].hits, search[s].context)
    BY <1>11, LookupFacts
  <2>3. SearchersAsk' /\ search' \in [Searchers -> SearchState]
    BY <1>1, <2>1, <2>2, StillAsk DEF SetTo
  <2> QED
    BY <1>3, <1>5, <2>2, <2>3 DEF TypeInv, SearchTypes
<1>12. CASE LookupContext(s)
  <2>1. search[s].query \in Queries
    BY <1>4, <1>12 DEF LookupContext, At
  <2>2. /\ CachesAreTyped'
        /\ \/ SetTo(s, "insertResponse", search[s].query, search[s].seen, search[s].hits,
                        contexts.entries[ContextKey(s)].value)
           \/ SetTo(s, "assemble", search[s].query, search[s].seen, search[s].hits, search[s].context)
    BY <1>12, LookupContextFacts
  <2>3. SearchersAsk' /\ search' \in [Searchers -> SearchState]
    BY <1>1, <2>1, <2>2, StillAsk DEF SetTo
  <2> QED
    BY <1>3, <1>5, <2>2, <2>3 DEF TypeInv, SearchTypes
<1>13. CASE InsertContext(s)
  <2>1. search[s].query \in Queries
    BY <1>4, <1>13 DEF InsertContext, At
  <2>2. /\ CachesAreTyped'
        /\ SetTo(s, "insertResponse", search[s].query, search[s].seen, search[s].hits,
                    search[s].context)
    BY <1>13, InsertContextFacts
  <2>3. SearchersAsk' /\ search' \in [Searchers -> SearchState]
    BY <1>1, <2>1, <2>2, StillAsk DEF SetTo
  <2> QED
    BY <1>3, <1>5, <2>2, <2>3 DEF TypeInv, SearchTypes
<1>14. CASE InsertResponse(s)
  <2>1. /\ CachesAreTyped'
        /\ SetTo(s, "idle", None, <<None, None>>, Nothing, Nothing)
    BY <1>14, InsertResponseFacts
  <2>2. SearchersAsk' /\ search' \in [Searchers -> SearchState]
    BY <1>1, <2>1, StillAsk DEF SetTo
  <2> QED
    BY <1>3, <1>5, <2>1, <2>2 DEF TypeInv, SearchTypes
<1> QED
  BY <1>6, <1>7, <1>8, <1>9, <1>10, <1>11, <1>12, <1>13, <1>14 DEF SearchStep

THEOREM CachesKeepTypes == Spec => []TypeInv
<1>1. ASSUME TypeInv, UNCHANGED vars PROVE TypeInv'
  BY <1>1 DEF TypeInv, IndexTypes, SearchTypes, CachesAreTyped, SearchersAsk, At, vars, indexVars, cacheVars
<1>2. TypeInv /\ [Next]_vars => TypeInv'
  BY <1>1, RunKeepsTypes, SearchKeepsTypes DEF Next
<1> QED
  BY <1>2, InitTypes, PTL DEF Spec

(* The types of all variables; both caches keep to their capacity.         *)
THEOREM TypeCorrect == Spec => []TypeOK
  BY CachesKeepTypes, TypeInvImpliesTypeOK, PTL

-----------------------------------------------------------------------------
(* Freshness, with one searcher and at most one run a second. *)

LEMMA InitIsFresh == Init => FreshInv
  BY DEF Init, FreshInv, StampsArePast, KeepsTheStamps, ReadsAreFresh, CachesAreFresh, Idle,
         Past, Read, Assembled, None

LEMMA RunKeepsFresh ==
  ASSUME OneSearcherOneRunPerSecond, Inv, Tick \/ RunStep
  PROVE  FreshInv'
<1>1. /\ clock \in Nat /\ indexRun.started \in Nat /\ runStarted \in Nat /\ clock >= 1
      /\ stamps[2] \in Nat /\ \A s \in Searchers : search[s].seen[2] \in Nat
  <2>1. clock \in Nat /\ indexRun.started \in Nat /\ runStarted \in Nat
    BY IndexFacts, TypeInvImpliesTypeOK DEF Inv
  <2>2. MaxClock \in Nat /\ Stamp = 0 .. MaxClock /\ clock \in 1 .. MaxClock
    BY RetrieverBoundsAssumption DEF Stamp, Time, None, Inv, TypeInv, IndexTypes
  <2>3. stamps[2] \in Stamp /\ \A s \in Searchers : search[s].seen[2] \in Stamp
    BY SearcherFacts, TypeInvImpliesTypeOK DEF Inv, TypeInv, SearchTypes
  <2> QED
    BY <2>1, <2>2, <2>3
<1>2. StampsArePast /\ KeepsTheStamps /\ ReadsAreFresh /\ CachesAreFresh
  BY DEF Inv, FreshInv
<1>3. UNCHANGED <<search, cacheVars>>
  BY DEF Tick, RunStep, BeginRun, IndexFile, CleanFile, EndRun, FailRun
<1>4. KeepsTheStamps'
  BY <1>2, <1>3 DEF KeepsTheStamps, cacheVars
<1>5. ASSUME Tick PROVE FreshInv'
  <2>1. StampsArePast'
    BY <1>1, <1>2, <1>3, <1>5 DEF Tick, StampsArePast, cacheVars
  <2>2. ReadsAreFresh' /\ CachesAreFresh'
    BY <1>2, <1>3, <1>5 DEF Tick, ReadsAreFresh, CachesAreFresh, Contents, cacheVars
  <2> QED
    BY <1>4, <2>1, <2>2 DEF FreshInv
<1>6. ASSUME indexRun'.state # "done", StampsArePast' PROVE FreshInv'
  BY <1>4, <1>6 DEF FreshInv, ReadsAreFresh, CachesAreFresh
<1>7. ASSUME BeginRun PROVE FreshInv'
  <2>1. runStarted <= indexRun.started /\ indexRun.started < clock
    <3>1. indexRun.started # clock
      BY <1>7 DEF BeginRun, OneSearcherOneRunPerSecond
    <3>2. indexRun.state \in {"none", "done", "active", "failed"}
      BY DEF Inv, TypeInv, IndexTypes
    <3>3. indexRun.started <= clock /\ runStarted <= indexRun.started
      BY <1>1, <1>2, <3>2 DEF StampsArePast, None
    <3> QED
      BY <1>1, <3>1, <3>3
  <2>2. StampsArePast'
    BY <1>1, <1>2, <1>3, <1>7, <2>1 DEF BeginRun, StampsArePast, cacheVars
  <2> QED
    BY <1>6, <1>7, <2>2 DEF BeginRun
<1>8. ASSUME IndexFile \/ CleanFile PROVE FreshInv'
  <2>1. UNCHANGED <<clock, indexRun, runStarted>> /\ indexRun.state = "active"
    BY <1>8 DEF IndexFile, CleanFile
  <2>2. StampsArePast'
    BY <1>2, <1>3, <2>1 DEF StampsArePast, cacheVars
  <2> QED
    BY <1>6, <2>1, <2>2
<1>9. ASSUME EndRun PROVE FreshInv'
  <2>1. /\ indexRun.state = "active" /\ indexRun' = [indexRun EXCEPT !.state = "done"]
        /\ UNCHANGED <<clock, index>>
    BY <1>9 DEF EndRun
  <2>2. runStarted < indexRun.started /\ indexRun.started <= clock
    BY <1>2, <2>1 DEF StampsArePast
  <2>3. runStarted' = indexRun.started
    BY <1>1, <1>9, <2>2, MaxOfTwo DEF EndRun
  <2>4. indexRun'.state = "done" /\ indexRun'.started = indexRun.started
    BY <2>1 DEF Inv, TypeInv, IndexTypes
  <2>5. stamps'[2] < runStarted' /\ \A s \in Searchers : search'[s].seen[2] < runStarted'
    BY <1>1, <1>2, <1>3, <2>2, <2>3 DEF StampsArePast, cacheVars
  <2>6. StampsArePast'
    <3>1. stamps'[2] \in Nat /\ \A s \in Searchers : search'[s].seen[2] \in Nat
      BY <1>1, <1>3 DEF cacheVars
    <3> QED
      BY <1>1, <2>1, <2>2, <2>3, <2>4, <2>5, <3>1 DEF StampsArePast
  <2>7. ReadsAreFresh' /\ CachesAreFresh'
    <3>1. stamps'[2] # runStarted' /\ \A s \in Searchers : search'[s].seen[2] # runStarted'
      BY <1>1, <1>3, <2>3, <2>5 DEF cacheVars
    <3> QED
      BY <3>1 DEF ReadsAreFresh, CachesAreFresh
  <2> QED
    BY <1>4, <2>6, <2>7 DEF FreshInv
<1>10. ASSUME FailRun PROVE FreshInv'
  <2>1. /\ indexRun.state = "active" /\ indexRun' = [indexRun EXCEPT !.state = "failed"]
        /\ UNCHANGED <<clock, runStarted>>
    BY <1>10 DEF FailRun
  <2>2. indexRun'.state = "failed" /\ indexRun'.started = indexRun.started
    BY <2>1 DEF Inv, TypeInv, IndexTypes
  <2>3. StampsArePast'
    BY <1>2, <1>3, <2>1, <2>2 DEF StampsArePast, cacheVars
  <2> QED
    BY <1>6, <2>2, <2>3
<1> QED
  BY <1>5, <1>7, <1>8, <1>9, <1>10 DEF RunStep

(* A step of the searcher keeps the first three parts when its new state   *)
(* does.                                                                   *)
LEMMA SearcherStaysFresh ==
  ASSUME OneSearcherOneRunPerSecond, Inv, NEW s \in Searchers, UNCHANGED indexVars,
         NEW pc, NEW query, NEW seen, NEW hits, NEW context,
         SetTo(s, pc, query, seen, hits, context),
         seen[2] <= runStarted, stamps'[2] <= runStarted,
         pc \in Past => stamps' = seen,
         indexRun.state = "done" /\ seen[2] = runStarted =>
            (pc \in Read => hits = Contents) /\ (pc \in Assembled => context = Contents)
  PROVE  StampsArePast' /\ KeepsTheStamps' /\ ReadsAreFresh'
<1>1. \A t \in Searchers : t = s
  BY DEF OneSearcherOneRunPerSecond
<1>2. /\ search'[s].pc = pc /\ search'[s].seen = seen
      /\ search'[s].hits = hits /\ search'[s].context = context
  BY DEF SetTo
<1>3. UNCHANGED <<clock, index, indexRun, runStarted>> /\ Contents' = Contents
  BY DEF indexVars, Contents
<1>4. StampsArePast'
  BY <1>1, <1>2, <1>3 DEF Inv, FreshInv, StampsArePast
<1>5. KeepsTheStamps'
  BY <1>1, <1>2 DEF KeepsTheStamps
<1>6. ReadsAreFresh'
  BY <1>1, <1>2, <1>3 DEF ReadsAreFresh
<1> QED
  BY <1>4, <1>5, <1>6

LEMMA SearchKeepsFresh ==
  ASSUME OneSearcherOneRunPerSecond, Inv, NEW s \in Searchers, SearchStep(s)
  PROVE  FreshInv'
<1>1. TypeOK /\ TypeInv /\ StampsArePast /\ KeepsTheStamps /\ ReadsAreFresh /\ CachesAreFresh
  BY TypeInvImpliesTypeOK DEF Inv, FreshInv
<1>2. UNCHANGED indexVars /\ Contents' = Contents
  BY DEF SearchStep, Call, ReadLastUpdate, ReadLatestRun, Lookup, Query, LookupContext,
         AssembleContext, InsertContext, InsertResponse, indexVars, Contents
<1>3. /\ None <= runStarted /\ runStarted <= runStarted
      /\ stamps[2] <= runStarted /\ search[s].seen[2] <= runStarted
  BY <1>1, IndexFacts DEF StampsArePast, None
<1>4. /\ search[s].pc \in Past => stamps = search[s].seen
      /\ indexRun.state = "done" /\ search[s].seen[2] = runStarted =>
            /\ search[s].pc \in Read => search[s].hits = Contents
            /\ search[s].pc \in Assembled => search[s].context = Contents
  BY <1>1 DEF KeepsTheStamps, ReadsAreFresh
<1> DEFINE Three == StampsArePast' /\ KeepsTheStamps' /\ ReadsAreFresh'
<1>5. UNCHANGED cacheVars => CachesAreFresh' /\ stamps' = stamps
  BY <1>1, <1>2 DEF CachesAreFresh, cacheVars, indexVars
<1>6. CASE Call(s)
  <2>1. PICK q \in Queries : SetTo(s, "readUpdate", q, <<None, None>>, Nothing, Nothing)
    BY <1>1, <1>6, CallFacts
  <2>2. UNCHANGED cacheVars
    BY <1>6 DEF Call
  <2>3. /\ <<None, None>>[2] <= runStarted
        /\ "readUpdate" \notin Past /\ "readUpdate" \notin Read /\ "readUpdate" \notin Assembled
    BY <1>3 DEF Past, Read, Assembled
  <2>4. Three
    BY <1>2, <1>3, <1>5, <2>1, <2>2, <2>3, SearcherStaysFresh
  <2> QED
    BY <1>5, <2>2, <2>4 DEF FreshInv
<1>7. CASE ReadLastUpdate(s)
  <2> DEFINE seen == <<LastUpdate, search[s].seen[2]>>
  <2>1. SetTo(s, "readRun", search[s].query, seen,
              search[s].hits, search[s].context)
    BY <1>1, <1>7, ReadLastUpdateFacts
  <2>2. UNCHANGED cacheVars /\ search[s].pc = "readUpdate"
    BY <1>7 DEF ReadLastUpdate, At
  <2>3. /\ seen[2] <= runStarted
        /\ "readRun" \in Past => stamps = seen
        /\ indexRun.state = "done" /\ seen[2] = runStarted =>
              /\ "readRun" \in Read => search[s].hits = Contents
              /\ "readRun" \in Assembled => search[s].context = Contents
    BY <1>3, <1>4, <2>2 DEF Past, Read, Assembled
  <2> HIDE DEF seen
  <2>4. Three
    BY <1>2, <1>3, <1>5, <2>1, <2>2, <2>3, SearcherStaysFresh
  <2> QED
    BY <1>5, <2>2, <2>4 DEF FreshInv
<1>8. CASE ReadLatestRun(s)
  <2> DEFINE seen == <<search[s].seen[1], runStarted>>
  <2>1. SetTo(s, "lookup", search[s].query, seen,
              search[s].hits, search[s].context)
    BY <1>1, <1>8, ReadLatestRunFacts
  <2>2. UNCHANGED cacheVars /\ search[s].pc = "readRun"
    BY <1>8 DEF ReadLatestRun, At
  <2>3. /\ seen[2] <= runStarted
        /\ "lookup" \in Past => stamps = seen
        /\ indexRun.state = "done" /\ seen[2] = runStarted =>
              /\ "lookup" \in Read => search[s].hits = Contents
              /\ "lookup" \in Assembled => search[s].context = Contents
    BY <1>3, <1>4, <2>2 DEF Past, Read, Assembled
  <2> HIDE DEF seen
  <2>4. Three
    BY <1>2, <1>3, <1>5, <2>1, <2>2, <2>3, SearcherStaysFresh
  <2> QED
    BY <1>5, <2>2, <2>4 DEF FreshInv
<1>9. CASE Query(s)
  <2> DEFINE seen == search[s].seen
  <2>1. SetTo(s, "context", search[s].query, seen,
              Contents, search[s].context)
    BY <1>1, <1>9, QueryFacts
  <2>2. UNCHANGED cacheVars /\ search[s].pc = "query"
    BY <1>9 DEF Query, At
  <2>3. /\ seen[2] <= runStarted
        /\ "context" \in Past => stamps = seen
        /\ indexRun.state = "done" /\ seen[2] = runStarted =>
              /\ "context" \in Read => Contents = Contents
              /\ "context" \in Assembled => search[s].context = Contents
    BY <1>3, <1>4, <2>2 DEF Past, Read, Assembled
  <2> HIDE DEF seen
  <2>4. Three
    BY <1>2, <1>3, <1>5, <2>1, <2>2, <2>3, SearcherStaysFresh
  <2> QED
    BY <1>5, <2>2, <2>4 DEF FreshInv
<1>10. CASE AssembleContext(s)
  <2> DEFINE seen == search[s].seen
  <2>1. SetTo(s, "insertContext", search[s].query, seen,
              search[s].hits, search[s].hits)
    BY <1>1, <1>10, AssembleFacts
  <2>2. UNCHANGED cacheVars /\ search[s].pc = "assemble"
    BY <1>10 DEF AssembleContext, At
  <2>3. /\ seen[2] <= runStarted
        /\ "insertContext" \in Past => stamps = seen
        /\ indexRun.state = "done" /\ seen[2] = runStarted =>
              /\ "insertContext" \in Read => search[s].hits = Contents
              /\ "insertContext" \in Assembled => search[s].hits = Contents
    BY <1>3, <1>4, <2>2 DEF Past, Read, Assembled
  <2> HIDE DEF seen
  <2>4. Three
    BY <1>2, <1>3, <1>5, <2>1, <2>2, <2>3, SearcherStaysFresh
  <2> QED
    BY <1>5, <2>2, <2>4 DEF FreshInv
<1>11. CASE Lookup(s)
  <2>1. /\ stamps' = search[s].seen
        /\ EmptiedOrKept(responses', responses, search[s].seen = stamps)
        /\ EmptiedOrKept(contexts', contexts, search[s].seen = stamps)
        /\ \/ SetTo(s, "idle", None, <<None, None>>, Nothing, Nothing)
           \/ SetTo(s, "query", search[s].query, search[s].seen, search[s].hits, search[s].context)
    BY <1>1, <1>11, LookupFacts
  <2>2. CachesAreFresh'
    <3> SUFFICES ASSUME indexRun.state = "done", search[s].seen[2] = runStarted
                 PROVE  /\ \A q \in Keys(responses') :
                              responses'.entries[q].value = [hits |-> Contents, context |-> Contents]
                        /\ \A k \in Keys(contexts') : contexts'.entries[k].value = Contents
      BY <1>2, <2>1 DEF CachesAreFresh, indexVars
    <3>1. search[s].seen = stamps =>
            /\ \A q \in Keys(responses) :
                  responses.entries[q].value = [hits |-> Contents, context |-> Contents]
            /\ \A k \in Keys(contexts) : contexts.entries[k].value = Contents
      BY <1>1 DEF CachesAreFresh
    <3> QED
      BY <2>1, <3>1 DEF EmptiedOrKept, Keys
  <2>3. CASE SetTo(s, "idle", None, <<None, None>>, Nothing, Nothing)
    <3>1. /\ <<None, None>>[2] <= runStarted
          /\ "idle" \notin Past /\ "idle" \notin Read /\ "idle" \notin Assembled
      BY <1>3 DEF Past, Read, Assembled
    <3>2. Three
      BY <1>2, <1>3, <2>1, <2>3, <3>1, SearcherStaysFresh
    <3> QED
      BY <2>2, <3>2 DEF FreshInv
  <2>4. CASE SetTo(s, "query", search[s].query, search[s].seen, search[s].hits, search[s].context)
    <3>1. "query" \notin Read /\ "query" \notin Assembled
      BY DEF Read, Assembled
    <3>2. Three
      BY <1>2, <1>3, <2>1, <2>4, <3>1, SearcherStaysFresh
    <3> QED
      BY <2>2, <3>2 DEF FreshInv
  <2> QED
    BY <2>1, <2>3, <2>4
<1>12. CASE LookupContext(s)
  <2> DEFINE value == contexts.entries[ContextKey(s)].value
  <2>1. /\ contexts'.entries = contexts.entries
        /\ \/ /\ ContextKey(s) \in Keys(contexts)
              /\ SetTo(s, "insertResponse", search[s].query, search[s].seen, search[s].hits, value)
           \/ SetTo(s, "assemble", search[s].query, search[s].seen, search[s].hits, search[s].context)
    BY <1>1, <1>12, LookupContextFacts
  <2>2. UNCHANGED <<responses, stamps>> /\ search[s].pc = "context"
    BY <1>12 DEF LookupContext, At
  <2>3. CachesAreFresh'
    BY <1>1, <1>2, <2>1, <2>2 DEF CachesAreFresh, Keys, indexVars
  <2>4. stamps = search[s].seen
    BY <1>4, <2>2 DEF Past
  <2>5. indexRun.state = "done" /\ search[s].seen[2] = runStarted => search[s].hits = Contents
    BY <1>4, <2>2 DEF Past, Read
  <2>6. CASE /\ ContextKey(s) \in Keys(contexts)
             /\ SetTo(s, "insertResponse", search[s].query, search[s].seen, search[s].hits, value)
    <3>1. indexRun.state = "done" /\ search[s].seen[2] = runStarted => value = Contents
      BY <1>1, <2>4, <2>6 DEF CachesAreFresh
    <3> HIDE DEF value
    <3>2. Three
      BY <1>2, <1>3, <2>2, <2>4, <2>5, <2>6, <3>1, SearcherStaysFresh
    <3> QED
      BY <2>3, <3>2 DEF FreshInv
  <2>7. CASE SetTo(s, "assemble", search[s].query, search[s].seen, search[s].hits, search[s].context)
    <3>1. "assemble" \notin Assembled
      BY DEF Assembled
    <3>2. Three
      BY <1>2, <1>3, <2>2, <2>4, <2>5, <2>7, <3>1, SearcherStaysFresh
    <3> QED
      BY <2>3, <3>2 DEF FreshInv
  <2> QED
    BY <2>1, <2>6, <2>7
<1>13. CASE InsertContext(s)
  <2>1. /\ \A k \in Keys(contexts') :
              \/ contexts'.entries[k].value = search[s].context
              \/ k \in Keys(contexts) /\ contexts'.entries[k] = contexts.entries[k]
        /\ SetTo(s, "insertResponse", search[s].query, search[s].seen, search[s].hits, search[s].context)
    BY <1>1, <1>13, InsertContextFacts
  <2>2. UNCHANGED <<responses, stamps>> /\ search[s].pc = "insertContext"
    BY <1>13 DEF InsertContext, At
  <2>3. /\ stamps = search[s].seen
        /\ indexRun.state = "done" /\ search[s].seen[2] = runStarted =>
              search[s].hits = Contents /\ search[s].context = Contents
    BY <1>4, <2>2 DEF Past, Read, Assembled
  <2>4. CachesAreFresh'
    BY <1>1, <1>2, <2>1, <2>2, <2>3 DEF CachesAreFresh, indexVars
  <2>5. Three
    BY <1>2, <1>3, <2>1, <2>2, <2>3, SearcherStaysFresh
  <2> QED
    BY <2>4, <2>5 DEF FreshInv
<1>14. CASE InsertResponse(s)
  <2>1. /\ \A q \in Keys(responses') :
              \/ responses'.entries[q].value = [hits |-> search[s].hits, context |-> search[s].context]
              \/ q \in Keys(responses) /\ responses'.entries[q] = responses.entries[q]
        /\ SetTo(s, "idle", None, <<None, None>>, Nothing, Nothing)
    BY <1>1, <1>14, InsertResponseFacts
  <2>2. UNCHANGED <<contexts, stamps>> /\ search[s].pc = "insertResponse"
    BY <1>14 DEF InsertResponse, At
  <2>3. /\ stamps = search[s].seen
        /\ indexRun.state = "done" /\ search[s].seen[2] = runStarted =>
              search[s].hits = Contents /\ search[s].context = Contents
    BY <1>4, <2>2 DEF Past, Read, Assembled
  <2>4. CachesAreFresh'
    BY <1>1, <1>2, <2>1, <2>2, <2>3 DEF CachesAreFresh, indexVars
  <2>5. /\ <<None, None>>[2] <= runStarted
        /\ "idle" \notin Past /\ "idle" \notin Read /\ "idle" \notin Assembled
    BY <1>3 DEF Past, Read, Assembled
  <2>6. Three
    BY <1>2, <1>3, <2>1, <2>2, <2>5, SearcherStaysFresh
  <2> QED
    BY <2>4, <2>6 DEF FreshInv
<1> QED
  BY <1>6, <1>7, <1>8, <1>9, <1>10, <1>11, <1>12, <1>13, <1>14 DEF SearchStep

LEMMA FreshImpliesHitsAreFresh == FreshInv => HitsAreFresh
  BY DEF FreshInv, CachesAreFresh, HitsAreFresh, IndexStamps

(* With one searcher and at most one index run a second, what a search     *)
(* finds in the cache after a run, under the stamps of the index, is what  *)
(* the index would answer it, through any number of failed runs and        *)
(* evictions.                                                              *)
THEOREM CachedAnswersAreFresh == OneSearcherOneRunPerSecond => (Spec => []HitsAreFresh)
<1> SUFFICES ASSUME OneSearcherOneRunPerSecond PROVE Spec => []HitsAreFresh
  OBVIOUS
<1>1. Init => Inv
  BY InitTypes, InitIsFresh DEF Inv
<1>2. ASSUME Inv, UNCHANGED vars PROVE Inv'
  BY <1>2 DEF Inv, TypeInv, IndexTypes, SearchTypes, CachesAreTyped, SearchersAsk, At, FreshInv,
              StampsArePast, KeepsTheStamps, ReadsAreFresh, CachesAreFresh, Contents,
              vars, indexVars, cacheVars
<1>3. Inv /\ [Next]_vars => Inv'
  <2>1. ASSUME Inv, Next PROVE Inv'
    BY <2>1, RunKeepsTypes, SearchKeepsTypes, RunKeepsFresh, SearchKeepsFresh DEF Inv, Next
  <2> QED
    BY <1>2, <2>1
<1> QED
  BY <1>1, <1>3, FreshImpliesHitsAreFresh, PTL DEF Spec, Inv
=============================================================================
