---------------------------- MODULE CodeGraphProofs ----------------------------
(***************************************************************************)
(* Proofs about CodeGraph, for all files and contents, whatever the        *)
(* extractors find in them, any configuration and any number of runs.      *)
(***************************************************************************)
EXTENDS CodeGraph, FiniteSetTheorems, SequenceTheorems, WellFoundedInduction, TLAPS

-----------------------------------------------------------------------------
(* Naturals. *)

LEMMA Least ==
  ASSUME NEW S \in SUBSET Nat, S # {}
  PROVE  \E m \in S : \A x \in S : m <= x
<1> DEFINE R == OpToRel(<, Nat)
<1>1. \A x, y \in Nat : x < y => <<x, y>> \in R
  BY DEF OpToRel
<1>2. IsWellFoundedOn(R, Nat)
  BY NatLessThanWellFounded
<1> HIDE DEF R
<1>3. \E x \in S : \A y \in S : ~ (<<y, x>> \in R)
  BY <1>2, WFMin
<1>4. PICK m \in S : \A y \in S : ~ (<<y, m>> \in R)
  BY <1>3
<1>5. \A y \in S : ~(y < m)
  BY <1>1, <1>4
<1>6. \A y \in S : m <= y
  BY <1>5
<1> QED
  BY <1>6

LEMMA Greatest ==
  ASSUME NEW n \in Nat, NEW S \in SUBSET (0 .. n), S # {}
  PROVE  \E m \in S : \A x \in S : x <= m
<1> DEFINE D == {n - x : x \in S}
<1>a. \A x \in S : x \in 0 .. n
  OBVIOUS
<1>b. \A x \in S : n - x \in Nat
  BY <1>a
<1>1. D \in SUBSET Nat /\ D # {}
  BY <1>b
<1>2. PICK d \in D : \A x \in D : d <= x
  BY <1>1, Least
<1>3. PICK m \in S : d = n - m
  OBVIOUS
<1>4. ASSUME NEW x \in S
      PROVE  x <= m
  <2>1. n - m <= n - x
    BY <1>2, <1>3
  <2>2. x \in Int /\ m \in Int
    BY <1>a
  <2> QED
    BY <2>1, <2>2
<1> HIDE DEF D
<1> QED
  BY <1>4

LEMMA SeqDomain ==
  ASSUME NEW s, IsSeq(s)
  PROVE  Len(s) \in Nat /\ DOMAIN s = 1 .. Len(s)
BY DEF IsSeq

-----------------------------------------------------------------------------
(* The rows of the contents and their ids. *)

(* Where a row's id comes from. *)
HashedOf(r) == <<r.file, r.name, IF r.exported THEN 0 ELSE r.start>>

(* Every row of every content. *)
RowsOf(f, v) == {Rows[f][v][k] : k \in DOMAIN Rows[f][v]}
AllRows == UNION {UNION {RowsOf(f, v) : v \in DOMAIN Source[f]} : f \in Files}

LEMMA RowFacts ==
  ASSUME NEW f \in Files, NEW v \in DOMAIN Source[f], NEW k \in DOMAIN Rows[f][v],
         NEW r, r = Rows[f][v][k]
  PROVE  /\ k \in 0 .. Len(Source[f][v].symbols)
         /\ r.file = f /\ r.start \in Nat /\ r.exported \in BOOLEAN
         /\ IsSeq(r.text) /\ IsSeq(r.extends) /\ IsSeq(r.implements) /\ IsSeq(r.aliases)
         /\ r.id = SymbolId(r.file, r.name, IF r.exported THEN 0 ELSE r.start)
         /\ HashedOf(r) \in Hashed(f, Source[f][v])
<1> DEFINE c == Source[f][v]
<1>1. Rows[f][v] = SymbolRows(f, c)
  BY DEF Rows
<1>2. IsContent(c)
  BY SourceAssumption
<1>3. Len(c.symbols) \in Nat /\ DOMAIN c.symbols = 1 .. Len(c.symbols)
  BY <1>2, SeqDomain DEF IsContent
<1>4. IsSeq(<<>>)
  BY DEF IsSeq
<1>5. CASE k = 0
  <2>1. r = FileRow(f, c)
    BY <1>1, <1>5 DEF SymbolRows
  <2> QED
    BY <2>1, <1>2, <1>3, <1>4, <1>5 DEF FileRow, IsContent, HashedOf, Hashed
<1>6. CASE k # 0
  <2>1. k \in DOMAIN c.symbols /\ r = SymbolRow(f, c.symbols[k])
    BY <1>1, <1>6 DEF SymbolRows
  <2> DEFINE s == c.symbols[k]
  <2>2. /\ s.start \in Nat /\ s.exported \in BOOLEAN
        /\ IsSeq(s.text) /\ IsSeq(s.extends) /\ IsSeq(s.implements) /\ IsSeq(s.aliases)
    BY <1>2, <2>1 DEF IsContent
  <2>3. /\ r.file = f /\ r.start = s.start /\ r.exported = s.exported /\ r.name = s.name
        /\ r.text = s.text /\ r.extends = s.extends /\ r.implements = s.implements
        /\ r.aliases = s.aliases
        /\ r.id = SymbolId(f, s.name, IF s.exported THEN 0 ELSE s.start)
    BY <2>1 DEF SymbolRow
  <2>4. HashedOf(r) \in Hashed(f, c)
    BY <2>1, <2>3 DEF HashedOf, Hashed
  <2>5. k \in 0 .. Len(c.symbols)
    BY <1>3, <2>1
  <2> HIDE DEF s
  <2> QED
    BY <2>2, <2>3, <2>4, <2>5
<1> QED
  BY <1>5, <1>6

LEMMA AllRowsFacts ==
  ASSUME NEW r \in AllRows
  PROVE  /\ r.file \in Files /\ r.start \in Nat /\ r.exported \in BOOLEAN
         /\ IsSeq(r.text) /\ IsSeq(r.extends) /\ IsSeq(r.implements) /\ IsSeq(r.aliases)
         /\ r.id = SymbolId(r.file, r.name, IF r.exported THEN 0 ELSE r.start)
         /\ HashedOf(r) \in AllHashed
<1>a. PICK f \in Files : \E v \in DOMAIN Source[f] : r \in RowsOf(f, v)
  BY DEF AllRows
<1>b. PICK v \in DOMAIN Source[f] : r \in RowsOf(f, v)
  BY <1>a
<1>1. PICK k \in DOMAIN Rows[f][v] : r = Rows[f][v][k]
  BY <1>b DEF RowsOf
<1>2. Hashed(f, Source[f][v]) \subseteq AllHashed
  BY DEF AllHashed
<1> HIDE DEF Files
<1> QED
  BY <1>1, <1>2, RowFacts

(* Rows of one id are rows of one name in one file. *)
LEMMA SameIdSameName ==
  ASSUME NEW r \in AllRows, NEW s \in AllRows, r.id = s.id
  PROVE  r.file = s.file /\ r.name = s.name
<1> DEFINE x == HashedOf(r)
           y == HashedOf(s)
<1>1. x \in AllHashed /\ y \in AllHashed
  BY AllRowsFacts
<1>2. SymbolId(x[1], x[2], x[3]) = r.id /\ SymbolId(y[1], y[2], y[3]) = s.id
  BY AllRowsFacts DEF HashedOf
<1> HIDE DEF x, y
<1>3. x = y
  BY <1>1, <1>2, HashAssumption
<1> QED
  BY <1>3 DEF x, y, HashedOf

LEMMA IdIsSome ==
  ASSUME NEW r \in AllRows
  PROVE  r.id # None
<1> DEFINE x == HashedOf(r)
<1>1. x \in AllHashed
  BY AllRowsFacts
<1>2. SymbolId(x[1], x[2], x[3]) = r.id
  BY AllRowsFacts DEF HashedOf
<1> HIDE DEF x
<1> QED
  BY <1>1, <1>2, HashAssumption

(* The id made up for an import is no other symbol's. *)
LEMMA MadeUpId ==
  ASSUME NEW f \in Files, NEW v \in DOMAIN Source[f], NEW imp \in Source[f][v].imports,
         imp.paths # <<>>, NEW r \in AllRows,
         r.id = SymbolId(imp.paths[1], imp.name, 0)
  PROVE  r.name = imp.name
<1> DEFINE x == HashedOf(r)
           y == <<imp.paths[1], imp.name, 0>>
<1>1. y \in Hashed(f, Source[f][v])
  BY DEF Hashed
<1>2. x \in AllHashed /\ y \in AllHashed
  BY <1>1, AllRowsFacts DEF AllHashed
<1>3. SymbolId(x[1], x[2], x[3]) = r.id /\ SymbolId(y[1], y[2], y[3]) = r.id
  BY AllRowsFacts DEF HashedOf
<1>4. x[2] = r.name /\ y[2] = imp.name
  BY DEF HashedOf
<1> HIDE DEF x, y
<1> QED
  BY <1>2, <1>3, <1>4, HashAssumption

(* What is stored of a content: a row for each id, of the name the id has. *)
LEMMA LastRows ==
  ASSUME NEW f \in Files, NEW v \in DOMAIN Source[f]
  PROVE  /\ LastOfEachId(Rows[f][v]) \subseteq RowsOf(f, v)
         /\ \A r, s \in LastOfEachId(Rows[f][v]) : r.id = s.id => r = s
         /\ \A r \in RowsOf(f, v) : \E s \in LastOfEachId(Rows[f][v]) : s.id = r.id
<1> DEFINE rows == Rows[f][v]
           n == Len(Source[f][v].symbols)
<1>1. n \in Nat /\ DOMAIN rows \subseteq 0 .. n
  <2>1. n \in Nat
    BY SourceAssumption, SeqDomain DEF IsContent
  <2> QED
    BY <2>1, RowFacts
<1> HIDE DEF rows, n
<1>2. LastOfEachId(rows) \subseteq {rows[k] : k \in DOMAIN rows}
  BY DEF LastOfEachId
<1>3. ASSUME NEW r \in LastOfEachId(rows), NEW s \in LastOfEachId(rows), r.id = s.id
      PROVE  r = s
  <2>1. PICK i \in DOMAIN rows : /\ r = rows[i]
                                 /\ \A k \in DOMAIN rows : i < k => rows[k].id # rows[i].id
    BY DEF LastOfEachId
  <2>2. PICK j \in DOMAIN rows : /\ s = rows[j]
                                 /\ \A k \in DOMAIN rows : j < k => rows[k].id # rows[j].id
    BY DEF LastOfEachId
  <2>3. ~(i < j) /\ ~(j < i)
    BY <1>3, <2>1, <2>2
  <2>4. i = j
    BY <1>1, <2>3
  <2> QED
    BY <2>1, <2>2, <2>4
<1>4. ASSUME NEW k \in DOMAIN rows
      PROVE  \E s \in LastOfEachId(rows) : s.id = rows[k].id
  <2> DEFINE S == {j \in DOMAIN rows : rows[j].id = rows[k].id}
  <2>1. S \in SUBSET (0 .. n) /\ S # {}
    BY <1>1
  <2>2. PICK m \in S : \A x \in S : x <= m
    BY <1>1, <2>1, Greatest
  <2>3. \A x \in DOMAIN rows : m < x => rows[x].id # rows[m].id
    BY <1>1, <2>2
  <2>4. rows[m] \in LastOfEachId(rows)
    BY <2>2, <2>3 DEF LastOfEachId
  <2> QED
    BY <2>2, <2>4
<1> QED
  BY <1>2, <1>3, <1>4 DEF RowsOf, rows

-----------------------------------------------------------------------------
(* Upserts of edges. *)

Resolutions == {"local", "import", "package", "package-import", "cross-package",
                "cross-package-import", "unknown"}

EdgeRows(ids) ==
    [from : ids, to : ids, type : EdgeTypes, resolution : Resolutions, count : Nat \ {0}]

FoundEdge(e) ==
    e.type \in EdgeTypes /\ e.resolution \in Resolutions /\ e.evidence.total \in Nat \ {0}

UniqueKeys(E) == \A d, e \in E : Key(d) = Key(e) => d = e
KeysOf(E) == {Key(e) : e \in E}
Within2(E, ids) == {e \in E : e.from \in ids /\ e.to \in ids}

(* After an upsert there is one edge for each key there was or was found   *)
(* between known symbols.                                                  *)
LEMMA Upserted ==
  ASSUME NEW ids, NEW old \in SUBSET EdgeRows(ids), UniqueKeys(old),
         NEW new, \A e \in new : FoundEdge(e), UniqueKeys(new),
         NEW res, res = UpsertEdges(old, new, ids)
  PROVE  /\ res \in SUBSET EdgeRows(ids)
         /\ UniqueKeys(res)
         /\ KeysOf(res) = KeysOf(old) \cup KeysOf(Within2(new, ids))
<1> DEFINE ok == {e \in new : e.from \in ids /\ e.to \in ids}
           prior(e) == {d \in old : Key(d) = Key(e)}
           row(e) == [from |-> e.from, to |-> e.to, type |-> e.type,
                      resolution |-> e.resolution, count |-> e.evidence.total]
           all(e) == prior(e) \cup {row(e)}
           better(e, d, c) ==
               \/ ResolutionRank(d.resolution) > ResolutionRank(c.resolution)
               \/ ResolutionRank(d.resolution) = ResolutionRank(c.resolution)
                  /\ (d \in prior(e) \/ c \notin prior(e))
           best(e) == CHOOSE d \in all(e) : \A c \in all(e) : better(e, d, c)
           most(e) == CHOOSE n \in {d.count : d \in all(e)} : \A d \in all(e) : d.count <= n
           merged(e) == [best(e) EXCEPT !.count = most(e)]
           kept == {d \in old : Key(d) \notin {Key(e) : e \in ok}}
<1>1. res = kept \cup {merged(e) : e \in ok}
  BY DEF UpsertEdges
<1>2. ASSUME NEW e \in ok
      PROVE  merged(e) \in EdgeRows(ids) /\ Key(merged(e)) = Key(e)
  <2>1. row(e) \in EdgeRows(ids) /\ Key(row(e)) = Key(e)
    BY <1>2 DEF EdgeRows, FoundEdge, Key
  <2>2. \A d \in all(e) : d \in EdgeRows(ids) /\ Key(d) = Key(e)
    BY <2>1
  <2>3. \A d, c \in prior(e) : d = c
    BY DEF UniqueKeys
  <2>4. \A d : ResolutionRank(d.resolution) \in Nat
    BY DEF ResolutionRank
  <2>5. \E d \in all(e) : \A c \in all(e) : better(e, d, c)
    <3>1. CASE prior(e) = {}
      BY <3>1
    <3>2. CASE prior(e) # {}
      <4>1. PICK d \in prior(e) : TRUE
        BY <3>2
      <4>2. all(e) = {d, row(e)}
        BY <2>3, <4>1
      <4>3. CASE ResolutionRank(row(e).resolution) > ResolutionRank(d.resolution)
        <5>1. better(e, row(e), d)
          BY <4>3
        <5>2. better(e, row(e), row(e))
          OBVIOUS
        <5> HIDE DEF all, better, row, prior
        <5> QED
          BY <4>2, <5>1, <5>2
      <4>4. CASE ~(ResolutionRank(row(e).resolution) > ResolutionRank(d.resolution))
        <5>1. better(e, d, row(e))
          BY <2>4, <4>1, <4>4
        <5>2. better(e, d, d)
          BY <4>1
        <5> HIDE DEF all, better, row, prior
        <5> QED
          BY <4>2, <5>1, <5>2
      <4> QED
        BY <4>3, <4>4
    <3> QED
      BY <3>1, <3>2
  <2>6. best(e) \in all(e)
    <3> HIDE DEF all, better
    <3> QED
      BY <2>5
  <2>7. \E n \in {d.count : d \in all(e)} : \A d \in all(e) : d.count <= n
    <3>1. row(e).count \in Nat
      BY <2>1 DEF EdgeRows
    <3>2. CASE prior(e) = {}
      <4>1. all(e) = {row(e)}
        BY <3>2
      <4> HIDE DEF all, row, prior
      <4> QED
        BY <3>1, <4>1
    <3>3. CASE prior(e) # {}
      <4>1. PICK d \in prior(e) : TRUE
        BY <3>3
      <4>2. all(e) = {d, row(e)}
        BY <2>3, <4>1
      <4>3. d.count \in Nat
        BY <4>1 DEF EdgeRows
      <4> HIDE DEF all, row, prior
      <4>4. CASE d.count <= row(e).count
        BY <3>1, <4>2, <4>3, <4>4
      <4>5. CASE row(e).count <= d.count
        BY <3>1, <4>2, <4>3, <4>5
      <4> QED
        BY <3>1, <4>3, <4>4, <4>5
    <3> QED
      BY <3>2, <3>3
  <2>8. most(e) \in Nat \ {0}
    <3>1. most(e) \in {d.count : d \in all(e)}
      <4> HIDE DEF all
      <4> QED
        BY <2>7
    <3>2. \A d \in all(e) : d.count \in Nat \ {0}
      BY <2>2 DEF EdgeRows
    <3> HIDE DEF all, most
    <3> QED
      BY <3>1, <3>2
  <2>9. best(e) \in EdgeRows(ids) /\ Key(best(e)) = Key(e)
    <3> HIDE DEF all, best
    <3> QED
      BY <2>2, <2>6
  <2> HIDE DEF best, most
  <2> QED
    BY <2>8, <2>9 DEF EdgeRows, Key
<1> HIDE DEF merged
<1>3. kept \in SUBSET EdgeRows(ids)
  OBVIOUS
<1>4. res \in SUBSET EdgeRows(ids)
  BY <1>1, <1>2, <1>3
<1>5. UniqueKeys(res)
  <2> SUFFICES ASSUME NEW c \in res, NEW d \in res, Key(c) = Key(d)
               PROVE  c = d
    BY DEF UniqueKeys
  <2>1. CASE c \in kept /\ d \in kept
    BY <2>1 DEF UniqueKeys
  <2>2. CASE c \notin kept /\ d \in kept
    <3>1. PICK e \in ok : c = merged(e)
      BY <1>1, <2>2
    <3> QED
      BY <1>2, <2>2, <3>1
  <2>3. CASE c \in kept /\ d \notin kept
    <3>1. PICK e \in ok : d = merged(e)
      BY <1>1, <2>3
    <3> QED
      BY <1>2, <2>3, <3>1
  <2>4. CASE c \notin kept /\ d \notin kept
    <3>1. PICK e \in ok : c = merged(e)
      BY <1>1, <2>4
    <3>2. PICK g \in ok : d = merged(g)
      BY <1>1, <2>4
    <3>3. e = g
      BY <1>2, <3>1, <3>2 DEF UniqueKeys
    <3> QED
      BY <3>1, <3>2, <3>3
  <2> QED
    BY <2>1, <2>2, <2>3, <2>4
<1>6. KeysOf(res) = KeysOf(old) \cup KeysOf(Within2(new, ids))
  <2>1. Within2(new, ids) = ok
    BY DEF Within2
  <2>2. ASSUME NEW c \in res
        PROVE  Key(c) \in KeysOf(old) \cup KeysOf(ok)
    BY <1>1, <1>2 DEF KeysOf
  <2>3. ASSUME NEW c \in old
        PROVE  Key(c) \in KeysOf(res)
    <3>1. CASE c \in kept
      BY <1>1, <3>1 DEF KeysOf
    <3>2. CASE c \notin kept
      <4>1. PICK e \in ok : Key(c) = Key(e)
        BY <3>2
      <4>2. merged(e) \in res /\ Key(merged(e)) = Key(c)
        BY <1>1, <1>2, <4>1
      <4> QED
        BY <4>2 DEF KeysOf
    <3> QED
      BY <3>1, <3>2
  <2>4. ASSUME NEW e \in ok
        PROVE  Key(e) \in KeysOf(res)
    <3>1. merged(e) \in res /\ Key(merged(e)) = Key(e)
      BY <1>1, <1>2
    <3> QED
      BY <3>1 DEF KeysOf
  <2> HIDE DEF ok, kept
  <2> QED
    BY <2>1, <2>2, <2>3, <2>4 DEF KeysOf
<1> QED
  BY <1>4, <1>5, <1>6

(* g is the recursive function of UpsertInTurn, which exists. *)
InTurn(g, old, found, n, ids) ==
    g = [i \in 0..n |-> UpsertEdges(IF i = 0 THEN old ELSE g[i - 1], found[i], ids)]

LEMMA TurnsExist ==
  ASSUME NEW ids, NEW old, NEW n \in Nat, NEW found
  PROVE  \E g : InTurn(g, old, found, n, ids)
<1> DEFINE Step(g, i) == UpsertEdges(IF i = 0 THEN old ELSE g[i - 1], found[i], ids)
           Turns(g, m) == g = [i \in 0..m |-> Step(g, i)]
           Bad == {m \in Nat : ~ \E g : Turns(g, m)}
<1>1. ASSUME Bad # {}
      PROVE  FALSE
  <2>1. PICK m \in Bad : \A x \in Bad : m <= x
    <3>1. Bad \in SUBSET Nat
      OBVIOUS
    <3> HIDE DEF Bad
    <3> QED
      BY <1>1, <3>1, Least
  <2>2. m \in Nat
    OBVIOUS
  <2>3. CASE m = 0
    <3> DEFINE g == [i \in 0..0 |-> UpsertEdges(old, found[i], ids)]
    <3>1. \A i \in 0..0 : i = 0
      OBVIOUS
    <3>2. Turns(g, 0)
      BY <3>1
    <3> QED
      BY <2>3, <3>2
  <2>4. CASE m # 0
    <3>1. m - 1 \in Nat /\ m - 1 \notin Bad
      BY <2>1, <2>2, <2>4
    <3>2. PICK g : Turns(g, m - 1)
      BY <3>1
    <3> DEFINE h == [i \in 0..m |-> IF i <= m - 1 THEN g[i] ELSE Step(g, m)]
    <3>3. ASSUME NEW i \in 0..m
          PROVE  h[i] = Step(h, i)
      <4>1. i - 1 \in 0..(m - 1) \/ i = 0
        BY <2>2
      <4>2. i # 0 => h[i - 1] = g[i - 1]
        BY <2>2, <4>1
      <4>3. Step(h, i) = Step(g, i)
        <5>1. (IF i = 0 THEN old ELSE h[i - 1]) = (IF i = 0 THEN old ELSE g[i - 1])
          BY <4>2
        <5> HIDE DEF h
        <5> QED
          BY <5>1
      <4>4. CASE i <= m - 1
        <5>1. i \in 0..(m - 1)
          BY <2>2, <4>4
        <5>2. h[i] = g[i]
          BY <4>4
        <5> HIDE DEF h, Step
        <5>3. g[i] = Step(g, i)
          BY <3>2, <5>1
        <5> QED
          BY <4>3, <5>2, <5>3
      <4>5. CASE ~(i <= m - 1)
        <5>1. i = m
          BY <2>2, <4>5
        <5> HIDE DEF Step
        <5> QED
          BY <4>3, <4>5, <5>1
      <4> QED
        BY <4>4, <4>5
    <3>4. h = [i \in 0..m |-> h[i]]
      OBVIOUS
    <3> HIDE DEF h
    <3>5. Turns(h, m)
      <4> HIDE DEF Step
      <4> QED
        BY <3>3, <3>4
    <3> QED
      BY <3>5
  <2> QED
    BY <2>3, <2>4
<1>2. PICK g : Turns(g, n)
  BY <1>1
<1>3. InTurn(g, old, found, n, ids)
  BY <1>2 DEF InTurn
<1> QED
  BY <1>3

(* And after the upserts in turn there is one edge for each key there was  *)
(* or was found at a place between known symbols.                          *)
InTurnIs(res, old, found, n, ids) ==
    /\ res \in SUBSET EdgeRows(ids)
    /\ UniqueKeys(res)
    /\ KeysOf(old) \subseteq KeysOf(res)
    /\ \A i \in 0..n : KeysOf(Within2(found[i], ids)) \subseteq KeysOf(res)
    /\ \A k \in KeysOf(res) : k \in KeysOf(old)
           \/ \E i \in 0..n : k \in KeysOf(Within2(found[i], ids))

LEMMA UpsertedInTurn ==
  ASSUME NEW ids, NEW old \in SUBSET EdgeRows(ids), UniqueKeys(old),
         NEW n \in Nat, NEW found,
         \A i \in 0..n : UniqueKeys(found[i]) /\ \A e \in found[i] : FoundEdge(e)
  PROVE  InTurnIs(UpsertInTurn(old, found, n, ids), old, found, n, ids)
<1> DEFINE after == CHOOSE g : InTurn(g, old, found, n, ids)
           Holds(m) ==
             /\ after[m] \in SUBSET EdgeRows(ids)
             /\ UniqueKeys(after[m])
             /\ KeysOf(old) \subseteq KeysOf(after[m])
             /\ \A i \in 0..m : KeysOf(Within2(found[i], ids)) \subseteq KeysOf(after[m])
             /\ \A k \in KeysOf(after[m]) : k \in KeysOf(old)
                    \/ \E i \in 0..m : k \in KeysOf(Within2(found[i], ids))
<1>1. UpsertInTurn(old, found, n, ids) = after[n]
  BY DEF UpsertInTurn, InTurn
<1>2. after = [i \in 0..n |-> UpsertEdges(IF i = 0 THEN old ELSE after[i - 1], found[i], ids)]
  <2>1. InTurn(after, old, found, n, ids)
    BY TurnsExist
  <2> QED
    BY <2>1 DEF InTurn
<1> HIDE DEF after
<1>3. Holds(0)
  <2>1. after[0] = UpsertEdges(old, found[0], ids)
    BY <1>2
  <2>2. UniqueKeys(found[0]) /\ \A e \in found[0] : FoundEdge(e)
    OBVIOUS
  <2>3. /\ after[0] \in SUBSET EdgeRows(ids) /\ UniqueKeys(after[0])
        /\ KeysOf(after[0]) = KeysOf(old) \cup KeysOf(Within2(found[0], ids))
    BY <2>1, <2>2, Upserted
  <2>4. \A i \in 0..0 : i = 0
    OBVIOUS
  <2>5. 0 \in 0..0
    OBVIOUS
  <2> QED
    BY <2>3, <2>4, <2>5
<1>4. ASSUME NEW m \in 1..n, Holds(m - 1)
      PROVE  Holds(m)
  <2>1. m \in 0..n /\ m # 0 /\ m - 1 \in 0..n
    OBVIOUS
  <2>2. after[m] = UpsertEdges(after[m - 1], found[m], ids)
    BY <1>2, <2>1
  <2>3. UniqueKeys(found[m]) /\ \A e \in found[m] : FoundEdge(e)
    BY <2>1
  <2>4. /\ after[m] \in SUBSET EdgeRows(ids) /\ UniqueKeys(after[m])
        /\ KeysOf(after[m]) = KeysOf(after[m - 1]) \cup KeysOf(Within2(found[m], ids))
    BY <1>4, <2>2, <2>3, Upserted
  <2>5. \A i \in 0..m : i = m \/ i \in 0..(m - 1)
    OBVIOUS
  <2>6. m \in 0..m /\ \A i \in 0..(m - 1) : i \in 0..m
    OBVIOUS
  <2>7. KeysOf(old) \subseteq KeysOf(after[m])
    BY <1>4, <2>4
  <2>8. \A i \in 0..m : KeysOf(Within2(found[i], ids)) \subseteq KeysOf(after[m])
    BY <1>4, <2>4, <2>5
  <2>9. ASSUME NEW k \in KeysOf(after[m])
        PROVE  k \in KeysOf(old) \/ \E i \in 0..m : k \in KeysOf(Within2(found[i], ids))
    BY <1>4, <2>4, <2>6
  <2> QED
    BY <2>4, <2>7, <2>8, <2>9
<1>5. Holds(n)
  <2> DEFINE Bad == {m \in 0..n : ~Holds(m)}
  <2> HIDE DEF Holds
  <2>1. ASSUME Bad # {}
        PROVE  FALSE
    <3>1. Bad \in SUBSET Nat
      OBVIOUS
    <3>2. PICK m \in Bad : \A x \in Bad : m <= x
      <4> HIDE DEF Bad
      <4> QED
        BY <2>1, <3>1, Least
    <3>3. m # 0
      BY <1>3
    <3>4. m \in 1..n /\ m - 1 \in 0..n
      BY <3>3
    <3>5. m - 1 \notin Bad
      BY <3>1, <3>2
    <3> QED
      BY <1>4, <3>4, <3>5
  <2> QED
    BY <2>1
<1> QED
  BY <1>1, <1>5 DEF InTurnIs

-----------------------------------------------------------------------------
(* The edges found in a row. *)

LEMMA EdgeTypesAre ==
  EdgeTypes = {"alias", "call", "extends", "implements", "reads", "reference", "type", "writes"}
<1> DEFINE T == <<"alias", "call", "extends", "implements", "reads", "reference", "type", "writes">>
<1>1. DOMAIN T = {1, 2, 3, 4, 5, 6, 7, 8}
  OBVIOUS
<1>2. /\ T[1] = "alias" /\ T[2] = "call" /\ T[3] = "extends" /\ T[4] = "implements"
      /\ T[5] = "reads" /\ T[6] = "reference" /\ T[7] = "type" /\ T[8] = "writes"
  OBVIOUS
<1>3. TypeOrder = T
  BY DEF TypeOrder
<1> HIDE DEF T
<1> QED
  BY <1>1, <1>2, <1>3 DEF EdgeTypes

LEMMA EvidenceTotal ==
  ASSUME NEW row, IsSeq(row.text), NEW name
  PROVE  Evidence(row, name).total \in Nat \ {0}
<1> DEFINE at == {i \in DOMAIN row.text : row.text[i].name = name}
<1>1. Len(row.text) \in Nat /\ DOMAIN row.text = 1 .. Len(row.text)
  BY SeqDomain
<1>2. IsFiniteSet(at)
  <2>1. IsFiniteSet(1 .. Len(row.text))
    BY <1>1, FS_Interval
  <2>2. at \subseteq 1 .. Len(row.text)
    BY <1>1
  <2> QED
    BY <2>1, <2>2, FS_Subset
<1>3. Evidence(row, name).total = IF at = {} THEN 1 ELSE Cardinality(at)
  BY DEF Evidence
<1> HIDE DEF at
<1>4. Cardinality(at) \in Nat /\ (Cardinality(at) = 0 <=> at = {})
  BY <1>2, FS_CardinalityType, FS_EmptySet
<1> QED
  BY <1>3, <1>4

LEMMA ResolutionIsOne ==
  ASSUME NEW row, NEW batch, NEW to, NEW wasImport \in BOOLEAN
  PROVE  Resolution(row, batch, to, wasImport) \in Resolutions
<1>1. ASSUME NEW a, NEW b
      PROVE  DetermineResolution(a, b, wasImport) \in Resolutions
  BY DEF DetermineResolution, Resolutions
<1> QED
  BY <1>1 DEF Resolution, Resolutions

(* E has one edge for each target of the names ns, and each is from a name. *)
FromNames(E, row, c, known, rows, type, ns) ==
    /\ \A e \in E : FoundEdge(e) /\ e.from = row.id /\ e.type = type
    /\ \A e \in E : e.to # None /\ \E i \in DOMAIN ns : e.to = Target(row, c, known, rows, ns[i])
    /\ UniqueKeys(E)
    /\ DOMAIN ns \subseteq Nat =>
           \A i \in DOMAIN ns : Target(row, c, known, rows, ns[i]) # None =>
               \E e \in E : e.to = Target(row, c, known, rows, ns[i])

LEMMA FoundByNames ==
  ASSUME NEW row, IsSeq(row.text), NEW c, NEW known, NEW rows, NEW batch,
         NEW type \in EdgeTypes, NEW ns, DOMAIN ns \subseteq Int
  PROVE  FromNames(EdgesTo(row, c, known, rows, batch, type, ns), row, c, known, rows, type, ns)
<1> DEFINE E == EdgesTo(row, c, known, rows, batch, type, ns)
           target(i) == Target(row, c, known, rows, ns[i])
           first == {i \in DOMAIN ns : target(i) # None
                                       /\ \A j \in DOMAIN ns : j < i => target(j) # target(i)}
           edge(i) == [from |-> row.id, to |-> target(i), type |-> type,
                       resolution |-> Resolution(row, batch, target(i), ns[i] \notin DOMAIN known),
                       evidence |-> Evidence(row, ns[i])]
<1>1. E = {edge(i) : i \in first}
  BY DEF EdgesTo
<1>2. ASSUME NEW i \in first
      PROVE  /\ FoundEdge(edge(i)) /\ edge(i).from = row.id /\ edge(i).type = type
             /\ edge(i).to = target(i) /\ target(i) # None /\ i \in DOMAIN ns
  <2>1. Evidence(row, ns[i]).total \in Nat \ {0}
    BY EvidenceTotal
  <2>2. Resolution(row, batch, target(i), ns[i] \notin DOMAIN known) \in Resolutions
    <3>1. (ns[i] \notin DOMAIN known) \in BOOLEAN
      OBVIOUS
    <3> HIDE DEF target
    <3> QED
      BY <3>1, ResolutionIsOne
  <2> HIDE DEF target
  <2> QED
    BY <2>1, <2>2 DEF FoundEdge
<1>3. ASSUME NEW i \in first, NEW j \in first, target(i) = target(j)
      PROVE  i = j
  <2>1. ~(i < j) /\ ~(j < i) /\ i \in Int /\ j \in Int
    BY <1>3
  <2> QED
    BY <2>1
<1>4. UniqueKeys(E)
  <2> HIDE DEF edge, first, target, E
  <2> SUFFICES ASSUME NEW d \in E, NEW e \in E, Key(d) = Key(e)
               PROVE  d = e
    BY DEF UniqueKeys
  <2>1. PICK i \in first : d = edge(i)
    BY <1>1
  <2>2. PICK j \in first : e = edge(j)
    BY <1>1
  <2>3. target(i) = target(j)
    BY <1>2, <2>1, <2>2 DEF Key
  <2> QED
    BY <1>3, <2>1, <2>2, <2>3
<1>5. ASSUME DOMAIN ns \subseteq Nat, NEW i \in DOMAIN ns, target(i) # None
      PROVE  \E e \in E : e.to = target(i)
  <2> DEFINE S == {j \in DOMAIN ns : target(j) = target(i)}
  <2>1. S \in SUBSET Nat /\ S # {}
    BY <1>5
  <2>2. PICK m \in S : \A x \in S : m <= x
    <3> HIDE DEF S
    <3> QED
      BY <2>1, Least
  <2>3. m \in DOMAIN ns /\ target(m) = target(i)
    OBVIOUS
  <2>4. \A j \in DOMAIN ns : j < m => target(j) # target(m)
    <3> SUFFICES ASSUME NEW j \in DOMAIN ns, j < m, target(j) = target(m)
                 PROVE  FALSE
      OBVIOUS
    <3>1. j \in S
      BY <2>3
    <3>2. j \in Nat /\ m \in Nat /\ m <= j
      BY <2>1, <2>2, <3>1
    <3> QED
      BY <3>2
  <2>5. m \in first
    BY <1>5, <2>3, <2>4
  <2> HIDE DEF edge, first, target, E
  <2> QED
    BY <1>1, <1>2, <2>3, <2>5
<1> HIDE DEF edge, first, E
<1>6. FromNames(E, row, c, known, rows, type, ns)
  BY <1>1, <1>2, <1>4, <1>5 DEF FromNames
<1> QED
  BY <1>6 DEF E

(* And one for each target of a data flow of each kind. *)
LEMMA FoundByFlows ==
  ASSUME NEW row, NEW c, IsContent(c), NEW known, NEW rows, NEW batch,
         NEW E, E = DataflowEdges(row, c, known, rows, batch)
  PROVE  /\ \A e \in E : FoundEdge(e) /\ e.from = row.id /\ e.type \in {"reads", "writes"}
         /\ UniqueKeys(E)
<1> DEFINE d == c.dataflow
           target(i) == Target(row, c, known, rows, d[i].from)
           first == {i \in DOMAIN d :
                        /\ target(i) # None
                        /\ \A j \in DOMAIN d : j < i => target(j) # target(i) \/ d[j].flow # d[i].flow}
           edge(i) == [from |-> row.id, to |-> target(i), type |-> d[i].flow,
                       resolution |-> Resolution(row, batch, target(i), d[i].from \notin DOMAIN known),
                       evidence |-> [total |-> 1, lines |-> {}]]
<1>1. E = {edge(i) : i \in first}
  BY DEF DataflowEdges
<1>2. DOMAIN d \subseteq Nat /\ \A i \in DOMAIN d : d[i].flow \in {"reads", "writes"}
  BY SeqDomain DEF IsContent
<1>3. ASSUME NEW i \in first
      PROVE  /\ FoundEdge(edge(i)) /\ edge(i).from = row.id /\ edge(i).type \in {"reads", "writes"}
             /\ edge(i).to = target(i) /\ edge(i).type = d[i].flow
  <2>1. Resolution(row, batch, target(i), d[i].from \notin DOMAIN known) \in Resolutions
    <3>1. (d[i].from \notin DOMAIN known) \in BOOLEAN
      OBVIOUS
    <3> HIDE DEF target
    <3> QED
      BY <3>1, ResolutionIsOne
  <2>2. d[i].flow \in {"reads", "writes"}
    BY <1>2
  <2> HIDE DEF target
  <2> QED
    BY <2>1, <2>2, EdgeTypesAre DEF FoundEdge
<1>4. ASSUME NEW i \in first, NEW j \in first, target(i) = target(j), d[i].flow = d[j].flow
      PROVE  i = j
  <2>1. ~(i < j) /\ ~(j < i) /\ i \in Int /\ j \in Int
    BY <1>2, <1>4
  <2> QED
    BY <2>1
<1>5. UniqueKeys(E)
  <2> HIDE DEF edge, first, target, d
  <2> SUFFICES ASSUME NEW x \in E, NEW y \in E, Key(x) = Key(y)
               PROVE  x = y
    BY DEF UniqueKeys
  <2>1. PICK i \in first : x = edge(i)
    BY <1>1
  <2>2. PICK j \in first : y = edge(j)
    BY <1>1
  <2>3. target(i) = target(j) /\ d[i].flow = d[j].flow
    BY <1>3, <2>1, <2>2 DEF Key
  <2> QED
    BY <1>4, <2>1, <2>2, <2>3
<1> HIDE DEF edge, first
<1> QED
  BY <1>1, <1>3, <1>5

(* The edges of a row: one for each target and type, each call and         *)
(* reference from a name in its text, and one for each callee.             *)
FoundIs(E, row, c, known, rows) ==
    /\ \A e \in E : FoundEdge(e) /\ e.from = row.id
    /\ UniqueKeys(E)
    /\ \A e \in E : e.type \in {"call", "reference"} =>
           e.to # None /\ \E i \in DOMAIN row.text :
               /\ e.to = Target(row, c, known, rows, row.text[i].name)
               /\ e.type = "call" => row.text[i].call
    /\ \A i \in DOMAIN row.text :
           row.text[i].call /\ Target(row, c, known, rows, row.text[i].name) # None =>
               \E e \in E : /\ e.type = "call"
                            /\ e.to = Target(row, c, known, rows, row.text[i].name)

LEMMA FoundInRow ==
  ASSUME NEW f \in Files, NEW v \in DOMAIN Source[f], NEW row \in AllRows,
         NEW known, NEW rows, NEW batch
  PROVE  FoundIs(EdgesOfSymbol(row, Source[f][v], known, rows, batch), row, Source[f][v], known, rows)
<1> DEFINE c == Source[f][v]
           E == EdgesOfSymbol(row, c, known, rows, batch)
<1>c. c = Source[f][v]
  OBVIOUS
<1>e. E = EdgesOfSymbol(row, c, known, rows, batch)
  OBVIOUS
<1> HIDE DEF c, E
<1> DEFINE typed == row.kind \in {"class", "interface", "type_alias"}
           To(type, ns) == EdgesTo(row, c, known, rows, batch, type, ns)
           calls == To("call", Callees(row))
           refs == To("reference", References(row, known))
           exts == To("extends", row.extends)
           imps == To("implements", row.implements)
           alis == To("alias", row.aliases)
           types == To("type", TypeNames(row, c))
           flows == DataflowEdges(row, c, known, rows, batch)
<1>1. /\ IsSeq(row.text) /\ IsSeq(row.extends) /\ IsSeq(row.implements) /\ IsSeq(row.aliases)
  BY AllRowsFacts
<1>2. IsContent(c)
  BY <1>c, SourceAssumption
<1>3. DOMAIN row.text \subseteq Nat
  BY <1>1, SeqDomain
<1>4. /\ DOMAIN Callees(row) = {j \in DOMAIN row.text : row.text[j].call}
      /\ \A i \in DOMAIN Callees(row) : Callees(row)[i] = row.text[i].name
      /\ DOMAIN Callees(row) \subseteq Nat
  BY <1>3 DEF Callees
<1>5. /\ DOMAIN References(row, known) \subseteq DOMAIN row.text
      /\ \A i \in DOMAIN References(row, known) : References(row, known)[i] = row.text[i].name
  BY DEF References
<1>6. DOMAIN TypeNames(row, c) \subseteq Int
  BY <1>2 DEF IsContent, TypeNames
<1>7. /\ DOMAIN row.extends \subseteq Int /\ DOMAIN row.implements \subseteq Int
      /\ DOMAIN row.aliases \subseteq Int
  BY <1>1, SeqDomain
<1>8. /\ \A e \in calls : FoundEdge(e) /\ e.from = row.id /\ e.type = "call"
      /\ \A e \in calls : e.to # None /\ \E i \in DOMAIN Callees(row) :
             e.to = Target(row, c, known, rows, Callees(row)[i])
      /\ UniqueKeys(calls)
      /\ \A i \in DOMAIN Callees(row) : Target(row, c, known, rows, Callees(row)[i]) # None =>
             \E e \in calls : e.to = Target(row, c, known, rows, Callees(row)[i])
  <2>1. "call" \in EdgeTypes /\ DOMAIN Callees(row) \subseteq Int
    BY <1>4, EdgeTypesAre
  <2>2. FromNames(calls, row, c, known, rows, "call", Callees(row))
    BY <1>1, <2>1, FoundByNames
  <2> HIDE DEF calls
  <2> QED
    BY <1>4, <2>2 DEF FromNames
<1>9. /\ \A e \in refs : FoundEdge(e) /\ e.from = row.id /\ e.type = "reference"
      /\ \A e \in refs : e.to # None /\ \E i \in DOMAIN References(row, known) :
             e.to = Target(row, c, known, rows, References(row, known)[i])
      /\ UniqueKeys(refs)
  <2>1. "reference" \in EdgeTypes /\ DOMAIN References(row, known) \subseteq Int
    BY <1>3, <1>5, EdgeTypesAre
  <2>2. FromNames(refs, row, c, known, rows, "reference", References(row, known))
    BY <1>1, <2>1, FoundByNames
  <2> HIDE DEF refs
  <2> QED
    BY <2>2 DEF FromNames
<1>10. /\ \A e \in exts : FoundEdge(e) /\ e.from = row.id /\ e.type = "extends"
       /\ UniqueKeys(exts)
  <2>1. "extends" \in EdgeTypes
    BY EdgeTypesAre
  <2>2. FromNames(exts, row, c, known, rows, "extends", row.extends)
    BY <1>1, <1>7, <2>1, FoundByNames
  <2> HIDE DEF exts
  <2> QED
    BY <2>2 DEF FromNames
<1>11. /\ \A e \in imps : FoundEdge(e) /\ e.from = row.id /\ e.type = "implements"
       /\ UniqueKeys(imps)
  <2>1. "implements" \in EdgeTypes
    BY EdgeTypesAre
  <2>2. FromNames(imps, row, c, known, rows, "implements", row.implements)
    BY <1>1, <1>7, <2>1, FoundByNames
  <2> HIDE DEF imps
  <2> QED
    BY <2>2 DEF FromNames
<1>12. /\ \A e \in alis : FoundEdge(e) /\ e.from = row.id /\ e.type = "alias"
       /\ UniqueKeys(alis)
  <2>1. "alias" \in EdgeTypes
    BY EdgeTypesAre
  <2>2. FromNames(alis, row, c, known, rows, "alias", row.aliases)
    BY <1>1, <1>7, <2>1, FoundByNames
  <2> HIDE DEF alis
  <2> QED
    BY <2>2 DEF FromNames
<1>13. /\ \A e \in types : FoundEdge(e) /\ e.from = row.id /\ e.type = "type"
       /\ UniqueKeys(types)
  <2>1. "type" \in EdgeTypes
    BY EdgeTypesAre
  <2>2. FromNames(types, row, c, known, rows, "type", TypeNames(row, c))
    BY <1>1, <1>6, <2>1, FoundByNames
  <2> HIDE DEF types
  <2> QED
    BY <2>2 DEF FromNames
<1>14. /\ \A e \in flows : FoundEdge(e) /\ e.from = row.id /\ e.type \in {"reads", "writes"}
       /\ UniqueKeys(flows)
  BY <1>2, FoundByFlows
<1>15. /\ E \subseteq calls \cup refs \cup exts \cup imps \cup alis \cup types \cup flows
       /\ calls \subseteq E
  BY <1>e DEF EdgesOfSymbol
<1> HIDE DEF To, calls, refs, exts, imps, alis, types, flows
<1>16. \A e \in E : FoundEdge(e) /\ e.from = row.id
  BY <1>8, <1>9, <1>10, <1>11, <1>12, <1>13, <1>14, <1>15
<1>17. UniqueKeys(E)
  <2> SUFFICES ASSUME NEW d \in E, NEW e \in E, Key(d) = Key(e)
               PROVE  d = e
    BY DEF UniqueKeys
  <2>1. d.type = e.type
    BY DEF Key
  <2>2. \A S : UniqueKeys(S) /\ d \in S /\ e \in S => d = e
    BY DEF UniqueKeys
  <2>3. \/ d \in calls /\ e \in calls
        \/ d \in refs /\ e \in refs
        \/ d \in exts /\ e \in exts
        \/ d \in imps /\ e \in imps
        \/ d \in alis /\ e \in alis
        \/ d \in types /\ e \in types
        \/ d \in flows /\ e \in flows
    BY <2>1, <1>8, <1>9, <1>10, <1>11, <1>12, <1>13, <1>14, <1>15
  <2> QED
    BY <2>2, <2>3, <1>8, <1>9, <1>10, <1>11, <1>12, <1>13, <1>14
<1>18. ASSUME NEW e \in E, e.type \in {"call", "reference"}
       PROVE  e.to # None /\ \E i \in DOMAIN row.text :
                    /\ e.to = Target(row, c, known, rows, row.text[i].name)
                    /\ e.type = "call" => row.text[i].call
  <2>1. e \in calls \/ e \in refs
    BY <1>18, <1>8, <1>9, <1>10, <1>11, <1>12, <1>13, <1>14, <1>15
  <2>2. CASE e \in calls
    <3>1. PICK i \in DOMAIN Callees(row) : e.to = Target(row, c, known, rows, Callees(row)[i])
      BY <1>8, <2>2
    <3>2. i \in DOMAIN row.text /\ Callees(row)[i] = row.text[i].name /\ row.text[i].call
      BY <1>4
    <3> QED
      BY <1>8, <2>2, <3>1, <3>2
  <2>3. CASE e \in refs
    <3>1. PICK i \in DOMAIN References(row, known) :
              e.to = Target(row, c, known, rows, References(row, known)[i])
      BY <1>9, <2>3
    <3>2. i \in DOMAIN row.text /\ References(row, known)[i] = row.text[i].name
      BY <1>5
    <3> QED
      BY <1>9, <2>3, <3>1, <3>2
  <2> QED
    BY <2>1, <2>2, <2>3
<1>19. ASSUME NEW i \in DOMAIN row.text, row.text[i].call,
              Target(row, c, known, rows, row.text[i].name) # None
       PROVE  \E e \in E : e.type = "call" /\ e.to = Target(row, c, known, rows, row.text[i].name)
  <2>1. i \in DOMAIN Callees(row) /\ Callees(row)[i] = row.text[i].name
    BY <1>4, <1>19
  <2>2. PICK e \in calls : e.to = Target(row, c, known, rows, row.text[i].name)
    BY <1>8, <1>19, <2>1
  <2> QED
    BY <1>8, <1>15, <2>2
<1>20. FoundIs(E, row, c, known, rows)
  BY <1>16, <1>17, <1>18, <1>19 DEF FoundIs
<1> QED
  BY <1>20 DEF E, c

-----------------------------------------------------------------------------
(* What names stand for. *)

(* Each name stands for a row, of any content, that has it. *)
NamesOK(known) == \A n \in DOMAIN known : \E r \in AllRows : r.id = known[n] /\ r.name = n

LEMMA Recorded ==
  ASSUME NEW f \in Files, NEW v \in DOMAIN Source[f], NEW known, NamesOK(known),
         NEW rec, rec = RecordNames(known, Rows[f][v])
  PROVE  /\ NamesOK(rec)
         /\ \A k \in DOMAIN Rows[f][v] : Rows[f][v][k].name \in DOMAIN rec
         /\ DOMAIN known = {} => \A n \in DOMAIN rec :
                \E k \in DOMAIN Rows[f][v] : Rows[f][v][k].name = n /\ Rows[f][v][k].id = rec[n]
<1> DEFINE rows == Rows[f][v]
           called(n) == {i \in DOMAIN rows : rows[i].name = n}
           exported(n) == {i \in called(n) : rows[i].exported}
           last(n) == CHOOSE i \in exported(n) : \A j \in exported(n) : j <= i
           first(n) == CHOOSE i \in called(n) : \A j \in called(n) : i <= j
           top == Len(Source[f][v].symbols)
<1>1. top \in Nat /\ DOMAIN rows \subseteq 0 .. top
  <2>1. top \in Nat
    BY SourceAssumption, SeqDomain DEF IsContent
  <2> QED
    BY <2>1, RowFacts
<1>2. rec = [n \in DOMAIN known \cup {rows[i].name : i \in DOMAIN rows} |->
                IF exported(n) # {} THEN rows[last(n)].id
                ELSE IF n \in DOMAIN known THEN known[n]
                ELSE rows[first(n)].id]
  BY DEF RecordNames
<1>3. \A i \in DOMAIN rows : rows[i] \in AllRows
  BY DEF AllRows, RowsOf
<1> HIDE DEF rows, top
<1>4. ASSUME NEW n, exported(n) # {}
      PROVE  last(n) \in DOMAIN rows /\ rows[last(n)].name = n
  <2>1. exported(n) \in SUBSET (0 .. top)
    BY <1>1
  <2>2. \E i \in exported(n) : \A j \in exported(n) : j <= i
    <3> HIDE DEF exported
    <3> QED
      BY <1>1, <1>4, <2>1, Greatest
  <2>3. last(n) \in exported(n)
    <3> HIDE DEF exported
    <3> QED
      BY <2>2
  <2> HIDE DEF last
  <2> QED
    BY <2>3
<1>5. ASSUME NEW n, called(n) # {}
      PROVE  first(n) \in DOMAIN rows /\ rows[first(n)].name = n
  <2>1. called(n) \in SUBSET Nat
    BY <1>1
  <2>2. \E i \in called(n) : \A j \in called(n) : i <= j
    <3> HIDE DEF called
    <3> QED
      BY <1>5, <2>1, Least
  <2>3. first(n) \in called(n)
    <3> HIDE DEF called
    <3> QED
      BY <2>2
  <2> HIDE DEF first
  <2> QED
    BY <2>3
<1>6. DOMAIN rec = DOMAIN known \cup {rows[i].name : i \in DOMAIN rows}
  BY <1>2
<1>7. ASSUME NEW n \in DOMAIN rec
      PROVE  \/ n \in DOMAIN known /\ rec[n] = known[n]
             \/ \E k \in DOMAIN rows : rows[k].name = n /\ rows[k].id = rec[n]
  <2>1. CASE exported(n) # {}
    <3>1. rec[n] = rows[last(n)].id
      BY <1>2, <1>6, <2>1
    <3> HIDE DEF exported, last
    <3> QED
      BY <1>4, <2>1, <3>1
  <2>2. CASE exported(n) = {} /\ n \in DOMAIN known
    BY <1>2, <1>6, <2>2
  <2>3. CASE exported(n) = {} /\ n \notin DOMAIN known
    <3>1. called(n) # {}
      BY <1>6, <2>3
    <3>2. rec[n] = rows[first(n)].id
      BY <1>2, <1>6, <2>3
    <3> HIDE DEF called, first
    <3> QED
      BY <1>5, <3>1, <3>2
  <2> QED
    BY <2>1, <2>2, <2>3
<1>8. NamesOK(rec)
  BY <1>3, <1>7 DEF NamesOK
<1> QED
  BY <1>6, <1>7, <1>8 DEF rows

LEMMA FirstIsOne ==
  ASSUME NEW S \in SUBSET AllRows, S # {}
  PROVE  FirstByName(S) \in S
<1> DEFINE X == {r \in S : r.exported}
           S1 == IF X # {} THEN X ELSE S
           files == {r.file : r \in S1}
<1>1. \A r \in S : r.file \in Nat /\ r.start \in Nat /\ r.exported \in BOOLEAN
  BY AllRowsFacts, GraphFilesAssumption
<1>2. S1 \subseteq S /\ S1 # {}
  OBVIOUS
<1>3. \A r \in S1, s \in S : s \notin S1 => r.exported /\ ~s.exported
  OBVIOUS
<1>4. \A r, s \in S1 : r.exported = s.exported
  BY <1>1
<1> HIDE DEF S1, X
<1>5. PICK m \in files : \A x \in files : m <= x
  <2>1. files \in SUBSET Nat /\ files # {}
    BY <1>1, <1>2
  <2> HIDE DEF files
  <2> QED
    BY <2>1, Least
<1> DEFINE S2 == {r \in S1 : r.file = m}
           starts == {r.start : r \in S2}
<1>6. S2 # {}
  OBVIOUS
<1>7. PICK b \in starts : \A x \in starts : b <= x
  <2>1. starts \in SUBSET Nat /\ starts # {}
    BY <1>1, <1>2, <1>6
  <2> HIDE DEF starts
  <2> QED
    BY <2>1, Least
<1>8. PICK r \in S2 : r.start = b
  OBVIOUS
<1> DEFINE Before(x) == \A s \in S \ {x} :
               \/ x.exported /\ ~s.exported
               \/ x.exported = s.exported /\ x.file < s.file
               \/ x.exported = s.exported /\ x.file = s.file /\ x.start <= s.start
<1>9. Before(r)
  <2> SUFFICES ASSUME NEW s \in S
               PROVE  \/ r.exported /\ ~s.exported
                      \/ r.exported = s.exported /\ r.file < s.file
                      \/ r.exported = s.exported /\ r.file = s.file /\ r.start <= s.start
    OBVIOUS
  <2>1. r \in S1 /\ r.file = m
    OBVIOUS
  <2>2. CASE s \notin S1
    BY <1>3, <2>1, <2>2
  <2>3. CASE s \in S1
    <3>1. r.exported = s.exported /\ m <= s.file
      BY <1>4, <1>5, <2>1, <2>3
    <3>2. CASE s.file = m
      <4>1. s.start \in starts
        BY <2>3, <3>2
      <4> QED
        BY <1>7, <1>8, <2>1, <3>1, <3>2, <4>1
    <3>3. CASE s.file # m
      <4>1. m \in Nat /\ s.file \in Nat
        BY <1>1, <1>2, <2>1
      <4> QED
        BY <2>1, <3>1, <3>3, <4>1
    <3> QED
      BY <3>2, <3>3
  <2> QED
    BY <2>2, <2>3
<1>10. r \in S
  BY <1>2
<1>11. FirstByName(S) = CHOOSE x \in S : Before(x)
  BY DEF FirstByName
<1> HIDE DEF Before
<1> QED
  BY <1>9, <1>10, <1>11

(* A name n in content c is a name of row t: its own or that of an import *)
(* of it.                                                                 *)
Means(n, t, c) == n = t.name \/ \E imp \in c.imports : imp.local = n /\ imp.name = t.name

(* A name stands only for what it is a name of. *)
LEMMA TargetNamed ==
  ASSUME NEW f \in Files, NEW v \in DOMAIN Source[f],
         NEW row, NEW known, NamesOK(known), NEW rows, rows \subseteq AllRows,
         NEW n, NEW t \in rows, t.id = Target(row, Source[f][v], known, rows, n)
  PROVE  Means(n, t, Source[f][v])
<1> DEFINE c == Source[f][v]
<1> SUFFICES n = t.name \/ \E imp \in c.imports : imp.local = n /\ imp.name = t.name
  BY DEF Means
<1>1. t.id # None
  BY IdIsSome
<1>2. CASE n \in DOMAIN known
  <2>1. t.id = known[n]
    BY <1>1, <1>2 DEF Target
  <2>2. PICK r \in AllRows : r.id = known[n] /\ r.name = n
    BY <1>2 DEF NamesOK
  <2> QED
    BY <2>1, <2>2, SameIdSameName
<1>3. CASE n \notin DOMAIN known
  <2>1. ImportOf(c, n) # {}
    BY <1>1, <1>3 DEF Target
  <2> DEFINE imp == CHOOSE i \in ImportOf(c, n) : TRUE
  <2>2. imp \in c.imports /\ imp.local = n
    BY <2>1 DEF ImportOf
  <2>3. t.id = ResolveImport(imp, rows)
    BY <1>3, <2>1 DEF Target
  <2> HIDE DEF imp
  <2> DEFINE inFile(p) == {r \in rows : r.file = p /\ r.name = imp.name}
             hits == {i \in DOMAIN imp.paths : inFile(imp.paths[i]) # {}
                                               /\ FirstByName(inFile(imp.paths[i])).exported}
             anywhere == {r \in rows : r.name = imp.name /\ r.exported}
             hit == CHOOSE i \in hits : \A j \in hits : i <= j
  <2>4. CASE hits # {}
    <3>1. hits \in SUBSET Nat
      <4>1. IsSeq(imp.paths)
        BY <2>2, SourceAssumption DEF IsContent
      <4> QED
        BY <4>1, SeqDomain
    <3>2. \E i \in hits : \A j \in hits : i <= j
      <4> HIDE DEF hits
      <4> QED
        BY <2>4, <3>1, Least
    <3>3. hit \in hits
      <4> HIDE DEF hits
      <4> QED
        BY <3>2
    <3>4. t.id = FirstByName(inFile(imp.paths[hit])).id
      BY <2>3, <2>4 DEF ResolveImport
    <3>5. FirstByName(inFile(imp.paths[hit])) \in inFile(imp.paths[hit])
      <4>1. inFile(imp.paths[hit]) # {} /\ inFile(imp.paths[hit]) \in SUBSET AllRows
        BY <3>3
      <4> HIDE DEF inFile, hit
      <4> QED
        BY <4>1, FirstIsOne
    <3> HIDE DEF hit
    <3> QED
      BY <2>2, <3>4, <3>5, SameIdSameName
  <2>5. CASE hits = {} /\ anywhere # {}
    <3>1. t.id = FirstByName(anywhere).id
      BY <2>3, <2>5 DEF ResolveImport
    <3>2. FirstByName(anywhere) \in anywhere
      <4>1. anywhere \in SUBSET AllRows
        OBVIOUS
      <4> HIDE DEF anywhere
      <4> QED
        BY <2>5, <4>1, FirstIsOne
    <3> QED
      BY <2>2, <3>1, <3>2, SameIdSameName
  <2>6. CASE hits = {} /\ anywhere = {}
    <3>1. imp.paths # <<>> /\ t.id = SymbolId(imp.paths[1], imp.name, 0)
      BY <1>1, <2>3, <2>6 DEF ResolveImport
    <3>2. t.name = imp.name
      BY <2>2, <3>1, MadeUpId
    <3> QED
      BY <2>2, <3>2
  <2> QED
    BY <2>4, <2>5, <2>6
<1> QED
  BY <1>2, <1>3

-----------------------------------------------------------------------------
(* The inductive invariant. *)

(* The files and the run.  What is indexed is no newer than what is there, *)
(* and a file between its two steps has the content read, which is not the *)
(* one its stamp stands for.                                               *)
FilesInv ==
    /\ pool \in BOOLEAN
    /\ disk \in [Files -> Nat] /\ stamp \in [Files -> Nat]
    /\ \A f \in Files : disk[f] \in 0 .. Len(Source[f]) /\ stamp[f] \in 0 .. Len(Source[f])
    /\ \A f \in Files : disk[f] # Absent => stamp[f] <= disk[f]
    /\ pc \in {"idle", "files", "rank"}
    /\ todo \subseteq Files /\ DOMAIN busy \subseteq Files
    /\ \A f \in DOMAIN busy : busy[f] = disk[f] /\ disk[f] # Absent /\ stamp[f] # disk[f]
    /\ pc # "files" => DOMAIN busy = {}
    /\ touched \in BOOLEAN /\ cuts \in 0 .. MaxCuts

(* The stored symbols are rows of contents, one for each id; those of a    *)
(* file between its steps and of a file that is not due to be indexed are  *)
(* the rows of its content.                                                *)
RowsInv ==
    /\ symbols \subseteq AllRows
    /\ \A r, s \in symbols : r.id = s.id => r = s
    /\ \A f \in DOMAIN busy : Stored(f) = LastOfEachId(Rows[f][busy[f]])
    /\ \A f \in Files : Settled(f) => Stored(f) = LastOfEachId(Rows[f][disk[f]])

LEMMA Versions ==
  ASSUME NEW f \in Files
  PROVE  Len(Source[f]) \in Nat \ {0} /\ DOMAIN Source[f] = 1 .. Len(Source[f])
<1>1. IsSeq(Source[f]) /\ Source[f] # <<>>
  BY SourceAssumption
<1> QED
  BY <1>1, SeqDomain DEF IsSeq

LEMMA FilesInit == Init => FilesInv
<1> SUFFICES ASSUME Init
             PROVE  FilesInv
  OBVIOUS
<1> HIDE DEF Files
<1>1. \A f \in Files : 0 \in 0 .. Len(Source[f]) /\ 1 \in 0 .. Len(Source[f])
  BY Versions
<1>2. DOMAIN busy = {}
  BY DEF Init
<1>3. pool \in BOOLEAN /\ cuts \in 0 .. MaxCuts
  BY GraphBoundsAssumption DEF Init
<1>4. pc = "idle" /\ todo = {} /\ touched = FALSE
  BY DEF Init
<1>5. /\ disk \in [Files -> Nat] /\ stamp \in [Files -> Nat]
      /\ \A f \in Files : disk[f] = 1 /\ stamp[f] = 0
  BY DEF Init, Absent
<1>6. \A f \in Files : /\ disk[f] \in 0 .. Len(Source[f]) /\ stamp[f] \in 0 .. Len(Source[f])
                       /\ stamp[f] <= disk[f]
  BY <1>1, <1>5
<1> QED
  BY <1>1, <1>2, <1>3, <1>4, <1>5, <1>6 DEF FilesInv, Absent

LEMMA FilesStep == FilesInv /\ [Next]_vars => FilesInv'
<1> SUFFICES ASSUME FilesInv, [Next]_vars
             PROVE  FilesInv'
  OBVIOUS
<1> USE DEF FilesInv
<1> HIDE DEF Files
<1>1. CASE StartRun
  <2> DEFINE gone == {f \in Files : stamp[f] # Absent /\ disk[f] = Absent}
  <2>1. /\ stamp' = [f \in Files |-> IF f \in gone THEN Absent ELSE stamp[f]]
        /\ pc' = "files" /\ todo' = {f \in Files : disk[f] # Absent}
        /\ busy' = <<>> /\ touched' = (gone # {})
        /\ pool' = pool /\ disk' = disk /\ cuts' = cuts
    BY <1>1 DEF StartRun
  <2>2. stamp' \in [Files -> Nat]
    BY <2>1 DEF Absent
  <2>3. \A f \in Files : /\ stamp'[f] \in 0 .. Len(Source[f])
                         /\ disk[f] # Absent => stamp'[f] <= disk[f]
    BY <2>1, Versions DEF Absent
  <2>4. DOMAIN busy' = {}
    BY <2>1
  <2>5. touched' \in BOOLEAN
    BY <2>1
  <2> HIDE DEF gone
  <2> QED
    BY <2>1, <2>2, <2>3, <2>4, <2>5
<1>2. CASE EndFiles
  <2>1. DOMAIN busy = {}
    BY <1>2 DEF EndFiles
  <2> QED
    BY <1>2, <2>1 DEF EndFiles
<1>3. CASE Rank
  BY <1>3 DEF Rank
<1>4. CASE Cut
  <2>1. DOMAIN busy' = {} /\ cuts' \in 0 .. MaxCuts
    BY <1>4, GraphBoundsAssumption DEF Cut
  <2> QED
    BY <1>4, <2>1 DEF Cut
<1>5. ASSUME NEW f \in Files, Edit(f)
      PROVE  FilesInv'
  <2>1. /\ disk' = [disk EXCEPT ![f] = @ + 1] /\ disk[f] \in 1 .. (Len(Source[f]) - 1)
        /\ UNCHANGED <<pool, stamp, pc, todo, busy, touched, cuts>> /\ pc = "idle"
    BY <1>5 DEF Edit, run
  <2>2. disk' \in [Files -> Nat]
    BY <2>1
  <2>3. ASSUME NEW g \in Files
        PROVE  disk'[g] \in 0 .. Len(Source[g]) /\ (disk'[g] # Absent => stamp[g] <= disk'[g])
    <3>1. CASE g = f
      <4>1. disk'[g] = disk[g] + 1 /\ disk[g] # Absent /\ stamp[g] <= disk[g]
        BY <2>1, <3>1 DEF Absent
      <4>2. disk[g] + 1 \in 0 .. Len(Source[g])
        BY <2>1, <3>1, Versions
      <4> QED
        BY <4>1, <4>2
    <3>2. CASE g # f
      BY <2>1, <3>2
    <3> QED
      BY <3>1, <3>2
  <2> QED
    BY <2>1, <2>2, <2>3
<1>6. ASSUME NEW f \in Files, Delete(f)
      PROVE  FilesInv'
  <2>1. /\ disk' = [disk EXCEPT ![f] = Absent]
        /\ UNCHANGED <<pool, stamp, pc, todo, busy, touched, cuts>> /\ pc = "idle"
    BY <1>6 DEF Delete, run
  <2>2. disk' \in [Files -> Nat] /\ \A g \in Files : disk'[g] = IF g = f THEN Absent ELSE disk[g]
    BY <2>1 DEF Absent
  <2>3. \A g \in Files : 0 \in 0 .. Len(Source[g])
    BY Versions
  <2> QED
    BY <2>1, <2>2, <2>3 DEF Absent
<1>7. ASSUME NEW f \in Files, PassOver(f)
      PROVE  FilesInv'
  BY <1>7 DEF PassOver
<1>8. ASSUME NEW f \in Files, StoreSymbols(f)
      PROVE  FilesInv'
  <2>1. /\ busy' = [g \in DOMAIN busy \cup {f} |-> IF g = f THEN disk[f] ELSE busy[g]]
        /\ todo' = todo \ {f} /\ pc = "files" /\ disk[f] # Absent /\ stamp[f] # disk[f]
        /\ UNCHANGED <<pool, disk, stamp, pc, touched, cuts>>
    BY <1>8 DEF StoreSymbols
  <2>2. /\ DOMAIN busy' = DOMAIN busy \cup {f}
        /\ \A g \in DOMAIN busy' : busy'[g] = IF g = f THEN disk[f] ELSE busy[g]
    BY <2>1
  <2> QED
    BY <2>1, <2>2
<1>9. ASSUME NEW f \in Files, StoreEdges(f)
      PROVE  FilesInv'
  <2>1. /\ stamp' = [stamp EXCEPT ![f] = busy[f]] /\ f \in DOMAIN busy
        /\ busy' = [g \in DOMAIN busy \ {f} |-> busy[g]] /\ touched' = TRUE
        /\ UNCHANGED <<pool, disk, pc, todo, cuts>> /\ pc = "files"
    BY <1>9 DEF StoreEdges
  <2>2. /\ DOMAIN busy' = DOMAIN busy \ {f}
        /\ \A g \in DOMAIN busy' : busy'[g] = busy[g]
    BY <2>1
  <2>3. /\ stamp' \in [Files -> Nat]
        /\ \A g \in Files : stamp'[g] = IF g = f THEN disk[f] ELSE stamp[g]
    BY <2>1
  <2> QED
    BY <2>1, <2>2, <2>3
<1>10. CASE UNCHANGED vars
  BY <1>10 DEF vars, run
<1> QED
  BY <1>1, <1>2, <1>3, <1>4, <1>5, <1>6, <1>7, <1>8, <1>9, <1>10 DEF Next

(* The ids a deletion takes away. *)
Gone(fs) == {r.id : r \in {s \in symbols : s.file \in fs}}

(* Deleting the rows of files and storing new ones of the same files       *)
(* changes nothing about the rows of other files and their ids.            *)
LEMMA Deletion ==
  ASSUME RowsInv, NEW fs \in SUBSET Files, NEW stored \in SUBSET AllRows,
         \A r \in stored : r.file \in fs, \A r, s \in stored : r.id = s.id => r = s,
         DeleteSymbolsOf(fs, stored)
  PROVE  /\ symbols' \subseteq AllRows
         /\ \A r, s \in symbols' : r.id = s.id => r = s
         /\ \A r \in symbols' : r \in stored \/ (r \in symbols /\ r.file \notin fs)
         /\ stored \subseteq symbols'
         /\ \A r \in symbols : r.file \notin fs => r \in symbols'
         /\ \A r \in symbols : r.id \in Gone(fs) <=> r.file \in fs
         /\ \A id \in Ids \ Gone(fs) :
                id \in Ids' /\ \A r \in symbols' : r.id = id => r \in symbols /\ r.file \notin fs
<1> USE DEF RowsInv
<1>1. symbols' = {r \in symbols : r.file \notin fs} \cup stored
  BY DEF DeleteSymbolsOf
<1>2. ASSUME NEW r \in symbols', NEW s \in symbols', r.id = s.id
      PROVE  r = s
  <2>1. r.file = s.file
    BY <1>1, <1>2, SameIdSameName
  <2> QED
    BY <1>1, <1>2, <2>1
<1>3. ASSUME NEW r \in symbols
      PROVE  r.id \in Gone(fs) <=> r.file \in fs
  BY SameIdSameName DEF Gone
<1>4. ASSUME NEW id \in Ids \ Gone(fs)
      PROVE  id \in Ids' /\ \A r \in symbols' : r.id = id => r \in symbols /\ r.file \notin fs
  <2>1. PICK s \in symbols : s.id = id
    BY DEF Ids
  <2>2. s.file \notin fs
    BY <1>3, <1>4, <2>1
  <2>3. s \in symbols'
    BY <1>1, <2>2
  <2>4. \A r \in symbols' : r.id = id => r = s
    BY <1>2, <2>1, <2>3
  <2> QED
    BY <2>1, <2>2, <2>3, <2>4 DEF Ids
<1> QED
  BY <1>1, <1>2, <1>3, <1>4

(* What a step stores of a content. *)
LEMMA StoredRows ==
  ASSUME FilesInv, NEW f \in Files, StoreSymbols(f)
  PROVE  /\ f \in todo /\ disk[f] \in DOMAIN Source[f]
         /\ LastOfEachId(Rows[f][disk[f]]) \in SUBSET AllRows
         /\ \A r \in LastOfEachId(Rows[f][disk[f]]) : r.file = f
         /\ \A r, s \in LastOfEachId(Rows[f][disk[f]]) : r.id = s.id => r = s
         /\ DeleteSymbolsOf({f}, LastOfEachId(Rows[f][disk[f]]))
<1>1. f \in todo /\ disk[f] # Absent /\ DeleteSymbolsOf({f}, LastOfEachId(Rows[f][disk[f]]))
  BY DEF StoreSymbols, Next1
<1>2. disk[f] \in DOMAIN Source[f]
  BY <1>1, Versions DEF FilesInv, Absent
<1>3. RowsOf(f, disk[f]) \subseteq AllRows
  BY <1>2 DEF AllRows
<1>4. \A r \in RowsOf(f, disk[f]) : r.file = f
  BY <1>2, RowFacts DEF RowsOf
<1> HIDE DEF Files
<1> QED
  BY <1>1, <1>2, <1>3, <1>4, LastRows

LEMMA RowsInit == Init => RowsInv
<1> SUFFICES ASSUME Init
             PROVE  RowsInv
  OBVIOUS
<1>1. symbols = {} /\ DOMAIN busy = {}
  BY DEF Init
<1>2. \A f \in Files : stamp[f] = 0 /\ disk[f] = 1
  BY DEF Init, Absent
<1> QED
  BY <1>1, <1>2 DEF RowsInv, Settled

LEMMA RowsStep == FilesInv /\ RowsInv /\ [Next]_vars => RowsInv'
<1> SUFFICES ASSUME FilesInv, RowsInv, [Next]_vars
             PROVE  RowsInv'
  OBVIOUS
<1> HIDE DEF Files
<1>1. CASE StartRun
  <2> DEFINE gone == {f \in Files : stamp[f] # Absent /\ disk[f] = Absent}
  <2>1. /\ stamp' = [f \in Files |-> IF f \in gone THEN Absent ELSE stamp[f]]
        /\ DOMAIN busy' = {} /\ disk' = disk /\ DeleteSymbolsOf(gone, {}) /\ pc = "idle"
    BY <1>1 DEF StartRun
  <2>2. gone \in SUBSET Files
    OBVIOUS
  <2>3. /\ symbols' \subseteq AllRows
        /\ \A r, s \in symbols' : r.id = s.id => r = s
        /\ \A r \in symbols' : r \in symbols /\ r.file \notin gone
        /\ \A r \in symbols : r.file \notin gone => r \in symbols'
    <3> HIDE DEF gone
    <3> QED
      BY <2>1, <2>2, Deletion
  <2>4. ASSUME NEW f \in Files, Settled(f)'
        PROVE  Stored(f)' = LastOfEachId(Rows[f][disk'[f]])
    <3>1. f \notin gone /\ stamp'[f] = stamp[f]
      BY <2>1, <2>4 DEF Settled
    <3>2. Settled(f)
      BY <2>1, <2>4, <3>1 DEF Settled, FilesInv
    <3>3. Stored(f)' = Stored(f)
      BY <2>3, <3>1 DEF Stored
    <3> QED
      BY <2>1, <3>2, <3>3 DEF RowsInv
  <2> QED
    BY <2>1, <2>3, <2>4 DEF RowsInv
<1>2. CASE EndFiles \/ Rank
  BY <1>2 DEF EndFiles, Rank, tables, graph, RowsInv, Settled, Stored
<1>3. CASE Cut
  <2>1. DOMAIN busy' = {} /\ UNCHANGED <<disk, stamp, symbols>>
    BY <1>3 DEF Cut, tables, graph
  <2>2. ASSUME NEW f \in Files, Settled(f)'
        PROVE  Settled(f)
    BY <2>1, <2>2 DEF Settled, FilesInv
  <2> QED
    BY <2>1, <2>2 DEF RowsInv, Stored
<1>4. ASSUME NEW f \in Files, Edit(f)
      PROVE  RowsInv'
  <2>1. /\ disk' = [disk EXCEPT ![f] = @ + 1] /\ disk[f] \in 1 .. (Len(Source[f]) - 1)
        /\ UNCHANGED <<stamp, symbols, busy>> /\ DOMAIN busy = {}
    BY <1>4 DEF Edit, tables, graph, run, FilesInv
  <2>2. ASSUME NEW g \in Files, Settled(g)'
        PROVE  Settled(g) /\ disk'[g] = disk[g]
    <3>1. CASE g = f
      <4>1. disk'[f] = disk[f] + 1 /\ disk[f] \in Nat /\ disk[f] # 0
        BY <2>1 DEF FilesInv
      <4>2. stamp[f] <= disk[f] /\ stamp[f] \in Nat
        BY <4>1 DEF FilesInv, Absent
      <4>3. stamp[f] # disk'[f]
        BY <4>1, <4>2
      <4> QED
        BY <2>1, <2>2, <3>1, <4>3 DEF Settled
    <3>2. CASE g # f
      BY <2>1, <2>2, <3>2 DEF Settled, FilesInv
    <3> QED
      BY <3>1, <3>2
  <2> QED
    BY <2>1, <2>2 DEF RowsInv, Stored
<1>5. ASSUME NEW f \in Files, Delete(f)
      PROVE  RowsInv'
  <2>1. /\ disk' = [disk EXCEPT ![f] = Absent]
        /\ UNCHANGED <<stamp, symbols, busy>> /\ DOMAIN busy = {}
    BY <1>5 DEF Delete, tables, graph, run, FilesInv
  <2>2. ASSUME NEW g \in Files, Settled(g)'
        PROVE  Settled(g) /\ disk'[g] = disk[g]
    BY <2>1, <2>2 DEF Settled, FilesInv
  <2> QED
    BY <2>1, <2>2 DEF RowsInv, Stored
<1>6. ASSUME NEW f \in Files, PassOver(f)
      PROVE  RowsInv'
  BY <1>6 DEF PassOver, tables, graph, RowsInv, Settled, Stored
<1>7. ASSUME NEW f \in Files, StoreSymbols(f)
      PROVE  RowsInv'
  <2> DEFINE stored == LastOfEachId(Rows[f][disk[f]])
  <2>1. /\ busy' = [g \in DOMAIN busy \cup {f} |-> IF g = f THEN disk[f] ELSE busy[g]]
        /\ UNCHANGED <<disk, stamp>>
    BY <1>7 DEF StoreSymbols
  <2>2. /\ DOMAIN busy' = DOMAIN busy \cup {f}
        /\ \A g \in DOMAIN busy' : busy'[g] = IF g = f THEN disk[f] ELSE busy[g]
    BY <2>1
  <2>3. /\ stored \in SUBSET AllRows
        /\ \A r \in stored : r.file \in {f}
        /\ \A r, s \in stored : r.id = s.id => r = s
        /\ DeleteSymbolsOf({f}, stored)
    BY <1>7, StoredRows
  <2> HIDE DEF stored
  <2>4. /\ symbols' \subseteq AllRows
        /\ \A r, s \in symbols' : r.id = s.id => r = s
        /\ \A r \in symbols' : r \in stored \/ (r \in symbols /\ r.file \notin {f})
        /\ stored \subseteq symbols'
        /\ \A r \in symbols : r.file \notin {f} => r \in symbols'
    BY <2>3, Deletion
  <2>5. Stored(f)' = stored
    BY <2>3, <2>4 DEF Stored
  <2>6. ASSUME NEW g, g # f
        PROVE  Stored(g)' = Stored(g)
    BY <2>3, <2>4, <2>6 DEF Stored
  <2>7. ASSUME NEW g \in DOMAIN busy'
        PROVE  Stored(g)' = LastOfEachId(Rows[g][busy'[g]])
    BY <2>2, <2>5, <2>6 DEF RowsInv, stored
  <2>8. ASSUME NEW g \in Files, Settled(g)'
        PROVE  Stored(g)' = LastOfEachId(Rows[g][disk'[g]])
    <3>1. g # f /\ Settled(g)
      BY <2>1, <2>2, <2>8 DEF Settled
    <3> QED
      BY <2>1, <2>6, <3>1 DEF RowsInv
  <2> QED
    BY <2>4, <2>7, <2>8 DEF RowsInv
<1>8. ASSUME NEW f \in Files, StoreEdges(f)
      PROVE  RowsInv'
  <2>1. /\ stamp' = [stamp EXCEPT ![f] = busy[f]] /\ f \in DOMAIN busy
        /\ busy' = [g \in DOMAIN busy \ {f} |-> busy[g]]
        /\ UNCHANGED <<disk, symbols>>
    BY <1>8 DEF StoreEdges
  <2>2. DOMAIN busy' = DOMAIN busy \ {f} /\ \A g \in DOMAIN busy' : busy'[g] = busy[g]
    BY <2>1
  <2>3. ASSUME NEW g \in Files, Settled(g)'
        PROVE  Stored(g)' = LastOfEachId(Rows[g][disk'[g]])
    <3>1. Stored(g)' = Stored(g)
      BY <2>1 DEF Stored
    <3>2. CASE g = f
      BY <2>1, <3>1, <3>2 DEF RowsInv, FilesInv
    <3>3. CASE g # f
      <4>1. Settled(g)
        BY <2>1, <2>2, <2>3, <3>3 DEF Settled, FilesInv
      <4> QED
        BY <2>1, <3>1, <4>1 DEF RowsInv
    <3> QED
      BY <3>2, <3>3
  <2>4. \A g : Stored(g)' = Stored(g)
    BY <2>1 DEF Stored
  <2> QED
    BY <2>1, <2>2, <2>3, <2>4 DEF RowsInv
<1>9. CASE UNCHANGED vars
  BY <1>9 DEF vars, tables, graph, run, RowsInv, Settled, Stored
<1> QED
  BY <1>1, <1>2, <1>3, <1>4, <1>5, <1>6, <1>7, <1>8, <1>9 DEF Next

-----------------------------------------------------------------------------
(* What a file's second step stores. *)

(* Some row of content v of file f that the edge e starts from mentions    *)
(* row t.                                                                  *)
Mentions(e, f, v, t) ==
    \E k \in DOMAIN Rows[f][v] :
        /\ Rows[f][v][k].id = e.from
        /\ \E i \in DOMAIN Rows[f][v][k].text :
               /\ Means(Rows[f][v][k].text[i].name, t, Source[f][v])
               /\ e.type = "call" => Rows[f][v][k].text[i].call

(* The edges found at each place of a content. *)
FoundIn(f, v, known) ==
    [i \in 0 .. Len(Source[f][v].symbols) |->
        IF i \in DOMAIN Rows[f][v]
        THEN EdgesOfSymbol(Rows[f][v][i], Source[f][v], known, symbols,
                           {Rows[f][v][j] : j \in DOMAIN Rows[f][v]})
        ELSE {}]

FoundInIs(found, f, v, known) ==
    /\ Len(Source[f][v].symbols) \in Nat
    /\ DOMAIN Rows[f][v] \subseteq 0 .. Len(Source[f][v].symbols)
    /\ \A i \in 0 .. Len(Source[f][v].symbols) :
           UniqueKeys(found[i]) /\ \A e \in found[i] : FoundEdge(e)
    /\ \A i \in 0 .. Len(Source[f][v].symbols) : \A e \in found[i] :
           /\ i \in DOMAIN Rows[f][v] /\ e.from = Rows[f][v][i].id
           /\ e.type \in {"call", "reference"} =>
                  \A t \in symbols : t.id = e.to => Mentions(e, f, v, t)
    /\ \A k \in DOMAIN Rows[f][v] : \A i \in DOMAIN Rows[f][v][k].text :
           \A to : /\ to = Target(Rows[f][v][k], Source[f][v], known, symbols,
                                  Rows[f][v][k].text[i].name)
                   /\ Rows[f][v][k].text[i].call /\ to # None
                   => \E e \in found[k] : e.type = "call" /\ e.to = to

LEMMA FoundInFile ==
  ASSUME RowsInv, NEW f \in Files, NEW v \in DOMAIN Source[f], NEW known, NamesOK(known)
  PROVE  FoundInIs(FoundIn(f, v, known), f, v, known)
<1> DEFINE found == FoundIn(f, v, known)
<1> DEFINE c == Source[f][v]
           rows == Rows[f][v]
           batch == {rows[j] : j \in DOMAIN rows}
           last == Len(c.symbols)
<1>1. last \in Nat /\ DOMAIN rows \subseteq 0 .. last
  <2>1. last \in Nat
    BY SourceAssumption, SeqDomain DEF IsContent
  <2> QED
    BY <2>1, RowFacts
<1>2. \A i \in 0 .. last : found[i] = IF i \in DOMAIN rows
                                      THEN EdgesOfSymbol(rows[i], c, known, symbols, batch)
                                      ELSE {}
  BY DEF FoundIn
<1>3. \A k \in DOMAIN rows : rows[k] \in AllRows
  BY DEF AllRows, RowsOf
<1>4. symbols \in SUBSET AllRows
  BY DEF RowsInv
<1>5. c = Source[f][v]
  OBVIOUS
<1> HIDE DEF last, batch, c, found, Files
<1>6. ASSUME NEW i \in DOMAIN rows
      PROVE  /\ \A e \in found[i] : FoundEdge(e) /\ e.from = rows[i].id
             /\ UniqueKeys(found[i])
             /\ \A e \in found[i] : e.type \in {"call", "reference"} =>
                    e.to # None /\ \E j \in DOMAIN rows[i].text :
                        /\ e.to = Target(rows[i], c, known, symbols, rows[i].text[j].name)
                        /\ e.type = "call" => rows[i].text[j].call
             /\ \A j \in DOMAIN rows[i].text :
                    rows[i].text[j].call
                    /\ Target(rows[i], c, known, symbols, rows[i].text[j].name) # None =>
                        \E e \in found[i] : /\ e.type = "call"
                                            /\ e.to = Target(rows[i], c, known, symbols, rows[i].text[j].name)
  <2>1. found[i] = EdgesOfSymbol(rows[i], c, known, symbols, batch) /\ rows[i] \in AllRows
    BY <1>1, <1>2, <1>3
  <2> DEFINE row == rows[i]
             E == found[i]
  <2>2. E = EdgesOfSymbol(row, c, known, symbols, batch) /\ row \in AllRows
    BY <2>1
  <2>3. FoundIs(E, row, Source[f][v], known, symbols)
    <3> HIDE DEF row, E, rows
    <3> QED
      BY <1>5, <2>2, FoundInRow
  <2> QED
    BY <1>5, <2>3 DEF FoundIs
<1>7. ASSUME NEW i \in 0 .. last, NEW e \in found[i]
      PROVE  i \in DOMAIN rows
  BY <1>2, <1>7
<1>8. ASSUME NEW i \in DOMAIN rows, NEW e \in found[i], e.type \in {"call", "reference"},
             NEW t \in symbols, t.id = e.to
      PROVE  Mentions(e, f, v, t)
  <2>1. PICK j \in DOMAIN rows[i].text :
            /\ e.to = Target(rows[i], c, known, symbols, rows[i].text[j].name)
            /\ e.type = "call" => rows[i].text[j].call
    BY <1>6, <1>8
  <2> DEFINE n == rows[i].text[j].name
             row == rows[i]
  <2>2. t.id = Target(row, c, known, symbols, n)
    BY <1>8, <2>1
  <2>3. Means(n, t, Source[f][v])
    <3>1. t.id = Target(row, Source[f][v], known, symbols, n) /\ symbols \subseteq AllRows
      BY <1>4, <1>5, <2>2
    <3> HIDE DEF n, row
    <3> QED
      BY <3>1, TargetNamed
  <2>4. rows[i].id = e.from
    BY <1>6
  <2> QED
    BY <2>1, <2>3, <2>4 DEF Mentions, c
<1>9. \A i \in 0 .. last : UniqueKeys(found[i]) /\ \A e \in found[i] : FoundEdge(e)
  <2>1. ASSUME NEW i \in 0 .. last, i \notin DOMAIN rows
        PROVE  UniqueKeys(found[i]) /\ found[i] = {}
    BY <1>2, <2>1 DEF UniqueKeys
  <2> QED
    BY <1>6, <2>1
<1>10. FoundInIs(found, f, v, known)
  BY <1>1, <1>6, <1>7, <1>8, <1>9 DEF FoundInIs, last, c
<1> QED
  BY <1>10 DEF found

(* The names a file's second step uses are its own, with a pool, or those  *)
(* the run has collected.                                                  *)
LEMMA KnownOK ==
  ASSUME NamesOK(names), NEW f \in Files, NEW v \in DOMAIN Source[f]
  PROVE  /\ NamesOK(KnownNames(Rows[f][v]))
         /\ pool => /\ \A k \in DOMAIN Rows[f][v] :
                           Rows[f][v][k].name \in DOMAIN KnownNames(Rows[f][v])
                    /\ \A n \in DOMAIN KnownNames(Rows[f][v]) : \E k \in DOMAIN Rows[f][v] :
                           /\ Rows[f][v][k].name = n
                           /\ Rows[f][v][k].id = KnownNames(Rows[f][v])[n]
<1>1. DOMAIN <<>> = {} /\ NamesOK(<<>>)
  BY DEF NamesOK
<1>2. CASE pool
  <2>1. KnownNames(Rows[f][v]) = RecordNames(<<>>, Rows[f][v])
    BY <1>2 DEF KnownNames
  <2> HIDE DEF Files
  <2> QED
    BY <1>1, <2>1, Recorded
<1>3. CASE ~pool
  BY <1>3 DEF KnownNames
<1> QED
  BY <1>2, <1>3

(* Each call in content v whose target is stored has its edge afterwards.  *)
CallsStored(f, v, known) ==
    \A k \in DOMAIN Rows[f][v] : \A i \in DOMAIN Rows[f][v][k].text :
        \A to : /\ to = Target(Rows[f][v][k], Source[f][v], known, symbols,
                               Rows[f][v][k].text[i].name)
                /\ Rows[f][v][k].text[i].call /\ to # None /\ to \in Ids
                /\ Rows[f][v][k].id \in Ids
                => \E e \in edges' : e.from = Rows[f][v][k].id /\ e.to = to /\ e.type = "call"

(* After the second step the edges of the file are those found, and those  *)
(* of other files are still there.                                         *)
LEMMA EdgesStored ==
  ASSUME FilesInv, RowsInv, NamesOK(names), edges \in SUBSET EdgeRows(Ids), UniqueKeys(edges),
         NEW f \in Files, StoreEdges(f),
         NEW v, v = busy[f], NEW known, known = KnownNames(Rows[f][v])
  PROVE  /\ v \in DOMAIN Source[f]
         /\ edges' \in SUBSET EdgeRows(Ids) /\ UniqueKeys(edges')
         /\ KeysOf(edges) \subseteq KeysOf(edges')
         /\ \A e \in edges' : Key(e) \in KeysOf(edges)
                \/ /\ \E k \in DOMAIN Rows[f][v] : e.from = Rows[f][v][k].id
                   /\ e.type \in {"call", "reference"} =>
                          \A t \in symbols : t.id = e.to => Mentions(e, f, v, t)
         /\ \A x \in evidence' : x \in evidence
                \/ /\ x.from \in Ids /\ x.to \in Ids
                   /\ \E e \in edges' : e.from = x.from /\ e.to = x.to /\ e.type = x.type
         /\ CallsStored(f, v, known)
<1> DEFINE found == FoundIn(f, v, known)
           last == Len(Source[f][v].symbols)
<1>1. f \in DOMAIN busy
  BY DEF StoreEdges
<1>2. v \in DOMAIN Source[f]
  BY <1>1, Versions DEF FilesInv, Absent
<1>3. /\ edges' = UpsertInTurn(edges, found, last, Ids)
      /\ evidence' = UpsertEvidence(evidence, UNION {found[i] : i \in 0 .. last}, Ids)
  BY DEF StoreEdges, FoundIn
<1>4. NamesOK(known)
  BY <1>2, KnownOK
<1>5. found = FoundIn(f, v, known)
  OBVIOUS
<1> HIDE DEF found, Files
<1>6. FoundInIs(found, f, v, known)
  BY <1>2, <1>4, <1>5, FoundInFile
<1>a. /\ last \in Nat /\ DOMAIN Rows[f][v] \subseteq 0 .. last
      /\ \A i \in 0 .. last : UniqueKeys(found[i]) /\ \A e \in found[i] : FoundEdge(e)
  BY <1>6 DEF FoundInIs
<1>b. \A i \in 0 .. last : \A e \in found[i] :
          /\ i \in DOMAIN Rows[f][v] /\ e.from = Rows[f][v][i].id
          /\ e.type \in {"call", "reference"} =>
                 \A t \in symbols : t.id = e.to => Mentions(e, f, v, t)
  BY <1>6 DEF FoundInIs
<1>c. \A k \in DOMAIN Rows[f][v] : \A i \in DOMAIN Rows[f][v][k].text :
           \A to : /\ to = Target(Rows[f][v][k], Source[f][v], known, symbols,
                                  Rows[f][v][k].text[i].name)
                   /\ Rows[f][v][k].text[i].call /\ to # None
                   => \E e \in found[k] : e.type = "call" /\ e.to = to
  BY <1>6 DEF FoundInIs
<1> HIDE DEF last
<1> DEFINE res == edges'
<1>7. InTurnIs(res, edges, found, last, Ids)
  <2>1. res = UpsertInTurn(edges, found, last, Ids)
    BY <1>3
  <2> HIDE DEF res
  <2> QED
    BY <1>a, <2>1, UpsertedInTurn
<1> USE DEF InTurnIs
<1>8. ASSUME NEW e \in res
      PROVE  Key(e) \in KeysOf(edges)
                \/ /\ \E k \in DOMAIN Rows[f][v] : e.from = Rows[f][v][k].id
                   /\ e.type \in {"call", "reference"} =>
                          \A t \in symbols : t.id = e.to => Mentions(e, f, v, t)
  <2> SUFFICES ASSUME Key(e) \notin KeysOf(edges)
               PROVE  /\ \E k \in DOMAIN Rows[f][v] : e.from = Rows[f][v][k].id
                      /\ e.type \in {"call", "reference"} =>
                             \A t \in symbols : t.id = e.to => Mentions(e, f, v, t)
    OBVIOUS
  <2>1. Key(e) \in KeysOf(res)
    BY DEF KeysOf
  <2>2. PICK i \in 0 .. last : Key(e) \in KeysOf(Within2(found[i], Ids))
    BY <1>7, <2>1
  <2>3. PICK g \in found[i] : Key(e) = Key(g)
    BY <2>2 DEF KeysOf, Within2
  <2>4. e.from = g.from /\ e.to = g.to /\ e.type = g.type
    BY <2>3 DEF Key
  <2>5. \A t : Mentions(g, f, v, t) <=> Mentions(e, f, v, t)
    BY <2>4 DEF Mentions
  <2> QED
    BY <1>b, <2>4, <2>5
<1>9. ASSUME NEW i \in 0 .. last, NEW g \in found[i], g.from \in Ids, g.to \in Ids
      PROVE  \E e \in res : e.from = g.from /\ e.to = g.to /\ e.type = g.type
  <2>1. Key(g) \in KeysOf(Within2(found[i], Ids))
    BY <1>9 DEF KeysOf, Within2
  <2>2. PICK e \in res : Key(e) = Key(g)
    BY <1>7, <2>1 DEF KeysOf
  <2> QED
    BY <2>2 DEF Key
<1>10. ASSUME NEW x \in evidence', x \notin evidence
       PROVE  /\ x.from \in Ids /\ x.to \in Ids
              /\ \E e \in res : e.from = x.from /\ e.to = x.to /\ e.type = x.type
  <2> DEFINE new == UNION {found[i] : i \in 0 .. last}
             row(g, l) == [from |-> g.from, to |-> g.to, type |-> g.type,
                           line |-> l.line, count |-> l.count]
             of(g) == {row(g, l) : l \in g.evidence.lines}
             ok == {g \in new : g.from \in Ids /\ g.to \in Ids}
  <2>1. x \in evidence \cup UNION {of(g) : g \in ok}
    BY <1>3 DEF UpsertEvidence
  <2>2. PICK g \in ok : x \in of(g)
    BY <1>10, <2>1
  <2>3. PICK i \in 0 .. last : g \in found[i]
    OBVIOUS
  <2>4. g.from \in Ids /\ g.to \in Ids
    OBVIOUS
  <2>5. x.from = g.from /\ x.to = g.to /\ x.type = g.type
    BY <2>2
  <2> HIDE DEF new, ok, of
  <2> QED
    BY <1>9, <2>3, <2>4, <2>5
<1>11. CallsStored(f, v, known)
  <2> USE DEF CallsStored
  <2> TAKE k \in DOMAIN Rows[f][v]
  <2> TAKE i \in DOMAIN Rows[f][v][k].text
  <2> TAKE to
  <2> HAVE /\ to = Target(Rows[f][v][k], Source[f][v], known, symbols, Rows[f][v][k].text[i].name)
           /\ Rows[f][v][k].text[i].call /\ to # None /\ to \in Ids
           /\ Rows[f][v][k].id \in Ids
  <2> HIDE DEF CallsStored
  <2>1. PICK g \in found[k] : g.type = "call" /\ g.to = to
    <3>1. \A j \in DOMAIN Rows[f][v][k].text : \A x :
              /\ x = Target(Rows[f][v][k], Source[f][v], known, symbols,
                            Rows[f][v][k].text[j].name)
              /\ Rows[f][v][k].text[j].call /\ x # None
              => \E e \in found[k] : e.type = "call" /\ e.to = x
      BY <1>c
    <3>2. \A x : /\ x = Target(Rows[f][v][k], Source[f][v], known, symbols,
                               Rows[f][v][k].text[i].name)
                 /\ Rows[f][v][k].text[i].call /\ x # None
                 => \E e \in found[k] : e.type = "call" /\ e.to = x
      BY <3>1
    <3> QED
      BY <3>2
  <2>a. k \in 0 .. last
    BY <1>a
  <2>2. g.from = Rows[f][v][k].id
    BY <1>b, <2>a
  <2>3. g.from \in Ids /\ g.to \in Ids
    BY <2>1, <2>2
  <2> HIDE DEF res
  <2>4. PICK e \in res : e.from = g.from /\ e.to = g.to /\ e.type = g.type
    BY <1>9, <2>a, <2>3
  <2>5. \E d \in res : d.from = Rows[f][v][k].id /\ d.to = to /\ d.type = "call"
    BY <2>1, <2>2, <2>4
  <2> QED
    BY <2>5 DEF res
<1> QED
  BY <1>2, <1>7, <1>8, <1>10, <1>11

-----------------------------------------------------------------------------
(* The edges and what goes with them. *)

(* Edges, evidence and examples are between stored symbols, one edge for   *)
(* each key and evidence only of edges; no edge starts in a file between   *)
(* its steps, and each call and reference is from the text its file was    *)
(* last stored from.                                                       *)
EdgesInv ==
    /\ edges \in SUBSET EdgeRows(Ids) /\ UniqueKeys(edges)
    /\ \A e \in edges, r \in symbols : r.id = e.from => r.file \notin DOMAIN busy
    /\ \A e \in edges, r, t \in symbols :
           e.type \in {"call", "reference"} /\ r.id = e.from /\ t.id = e.to =>
               Mentions(e, r.file, stamp[r.file], t)
    /\ \A x \in evidence : /\ x.from \in Ids /\ x.to \in Ids
                           /\ \E e \in edges : e.from = x.from /\ e.to = x.to /\ e.type = x.type
    /\ \A u \in usage : u.to \in Ids /\ (u.from = None \/ u.from \in Ids)
    /\ NamesOK(names)

LEMMA EdgesInit == Init => EdgesInv
<1> SUFFICES ASSUME Init
             PROVE  EdgesInv
  OBVIOUS
<1>1. edges = {} /\ evidence = {} /\ usage = {} /\ DOMAIN names = {}
  BY DEF Init
<1> QED
  BY <1>1 DEF EdgesInv, UniqueKeys, NamesOK

(* What a deletion leaves of the edges. *)
LEMMA EdgesLeft ==
  ASSUME RowsInv, EdgesInv, NEW fs \in SUBSET Files, NEW stored \in SUBSET AllRows,
         \A r \in stored : r.file \in fs, \A r, s \in stored : r.id = s.id => r = s,
         DeleteSymbolsOf(fs, stored)
  PROVE  /\ edges' \in SUBSET EdgeRows(Ids') /\ UniqueKeys(edges')
         /\ \A e \in edges' : e \in edges /\ \A r \in symbols' :
                r.id \in {e.from, e.to} => r \in symbols /\ r.file \notin fs
         /\ \A x \in evidence' :
                /\ x.from \in Ids' /\ x.to \in Ids'
                /\ \E e \in edges' : e.from = x.from /\ e.to = x.to /\ e.type = x.type
         /\ \A u \in usage' : u.to \in Ids' /\ (u.from = None \/ u.from \in Ids')
<1>1. \A id \in Ids \ Gone(fs) :
          id \in Ids' /\ \A r \in symbols' : r.id = id => r \in symbols /\ r.file \notin fs
  BY Deletion
<1>2. /\ edges' = {e \in edges : e.from \notin Gone(fs) /\ e.to \notin Gone(fs)}
      /\ evidence' = {e \in evidence : e.from \notin Gone(fs) /\ e.to \notin Gone(fs)}
      /\ \A u \in usage' : u \in usage /\ u.to \notin Gone(fs) /\ u.from \notin Gone(fs)
  BY DEF DeleteSymbolsOf, Gone
<1>3. \A e \in edges : e \in EdgeRows(Ids) /\ e.from \in Ids /\ e.to \in Ids
  BY DEF EdgesInv, EdgeRows
<1>4. ASSUME NEW e \in edges'
      PROVE  e \in EdgeRows(Ids')
  <2>1. e.from \in Ids' /\ e.to \in Ids' /\ e \in EdgeRows(Ids)
    BY <1>1, <1>2, <1>3
  <2> QED
    BY <2>1 DEF EdgeRows
<1>5. UniqueKeys(edges')
  BY <1>2 DEF EdgesInv, UniqueKeys
<1>6. ASSUME NEW e \in edges'
      PROVE  e \in edges /\ \A r \in symbols' :
                 r.id \in {e.from, e.to} => r \in symbols /\ r.file \notin fs
  BY <1>1, <1>2, <1>3
<1>7. ASSUME NEW x \in evidence'
      PROVE  /\ x.from \in Ids' /\ x.to \in Ids'
             /\ \E e \in edges' : e.from = x.from /\ e.to = x.to /\ e.type = x.type
  <2>1. PICK e \in edges : e.from = x.from /\ e.to = x.to /\ e.type = x.type
    BY <1>2 DEF EdgesInv
  <2>2. e \in edges'
    BY <1>2, <2>1
  <2> QED
    BY <1>1, <1>2, <1>3, <2>1, <2>2
<1>8. ASSUME NEW u \in usage'
      PROVE  u.to \in Ids' /\ (u.from = None \/ u.from \in Ids')
  BY <1>1, <1>2 DEF EdgesInv
<1> QED
  BY <1>4, <1>5, <1>6, <1>7, <1>8

LEMMA EdgesStep == FilesInv /\ RowsInv /\ EdgesInv /\ [Next]_vars => EdgesInv'
<1> SUFFICES ASSUME FilesInv, RowsInv, EdgesInv, [Next]_vars
             PROVE  EdgesInv'
  OBVIOUS
<1> HIDE DEF Files
<1>1. CASE StartRun
  <2> DEFINE gone == {f \in Files : stamp[f] # Absent /\ disk[f] = Absent}
  <2>1. /\ stamp' = [f \in Files |-> IF f \in gone THEN Absent ELSE stamp[f]]
        /\ DOMAIN busy' = {} /\ names' = <<>> /\ DeleteSymbolsOf(gone, {})
    BY <1>1 DEF StartRun
  <2>2. gone \in SUBSET Files
    OBVIOUS
  <2> HIDE DEF gone
  <2>3. /\ edges' \in SUBSET EdgeRows(Ids') /\ UniqueKeys(edges')
        /\ \A e \in edges' : e \in edges /\ \A r \in symbols' :
               r.id \in {e.from, e.to} => r \in symbols /\ r.file \notin gone
        /\ \A x \in evidence' :
               /\ x.from \in Ids' /\ x.to \in Ids'
               /\ \E e \in edges' : e.from = x.from /\ e.to = x.to /\ e.type = x.type
        /\ \A u \in usage' : u.to \in Ids' /\ (u.from = None \/ u.from \in Ids')
    BY <2>1, <2>2, EdgesLeft
  <2>4. ASSUME NEW e \in edges', NEW r \in symbols', NEW t \in symbols',
               e.type \in {"call", "reference"}, r.id = e.from, t.id = e.to
        PROVE  Mentions(e, r.file, stamp'[r.file], t)
    <3>1. e \in edges /\ r \in symbols /\ t \in symbols /\ r.file \notin gone
      BY <2>3, <2>4
    <3>2. r.file \in Files
      BY <3>1, AllRowsFacts DEF RowsInv
    <3>3. stamp'[r.file] = stamp[r.file]
      BY <2>1, <3>1, <3>2
    <3> QED
      BY <2>4, <3>1, <3>3 DEF EdgesInv
  <2>5. NamesOK(names')
    BY <2>1 DEF NamesOK
  <2> QED
    BY <2>1, <2>3, <2>4, <2>5 DEF EdgesInv
<1>2. CASE EndFiles \/ Rank \/ UNCHANGED vars \/ \E f \in Files : Edit(f) \/ Delete(f) \/ PassOver(f)
  <2>1. UNCHANGED <<symbols, edges, evidence, usage, stamp, busy, names>>
    BY <1>2 DEF EndFiles, Rank, Edit, Delete, PassOver, vars, tables, graph, run
  <2> QED
    BY <2>1 DEF EdgesInv, Ids
<1>3. CASE Cut
  <2>1. DOMAIN busy' = {} /\ UNCHANGED <<symbols, edges, evidence, usage, stamp>> /\ names' = <<>>
    BY <1>3 DEF Cut, tables, graph
  <2>2. NamesOK(names')
    BY <2>1 DEF NamesOK
  <2> QED
    BY <2>1, <2>2 DEF EdgesInv, Ids
<1>4. ASSUME NEW f \in Files, StoreSymbols(f)
      PROVE  EdgesInv'
  <2> DEFINE stored == LastOfEachId(Rows[f][disk[f]])
  <2>1. /\ busy' = [g \in DOMAIN busy \cup {f} |-> IF g = f THEN disk[f] ELSE busy[g]]
        /\ stamp' = stamp
        /\ names' = IF pool THEN names ELSE RecordNames(names, Rows[f][disk[f]])
    BY <1>4 DEF StoreSymbols
  <2>2. DOMAIN busy' = DOMAIN busy \cup {f}
    BY <2>1
  <2>3. /\ disk[f] \in DOMAIN Source[f]
        /\ stored \in SUBSET AllRows
        /\ \A r \in stored : r.file \in {f}
        /\ \A r, s \in stored : r.id = s.id => r = s
        /\ DeleteSymbolsOf({f}, stored)
    BY <1>4, StoredRows
  <2> HIDE DEF stored
  <2>4. /\ edges' \in SUBSET EdgeRows(Ids') /\ UniqueKeys(edges')
        /\ \A e \in edges' : e \in edges /\ \A r \in symbols' :
               r.id \in {e.from, e.to} => r \in symbols /\ r.file \notin {f}
        /\ \A x \in evidence' :
               /\ x.from \in Ids' /\ x.to \in Ids'
               /\ \E e \in edges' : e.from = x.from /\ e.to = x.to /\ e.type = x.type
        /\ \A u \in usage' : u.to \in Ids' /\ (u.from = None \/ u.from \in Ids')
    BY <2>3, EdgesLeft
  <2>5. NamesOK(names')
    <3>1. NamesOK(names)
      BY DEF EdgesInv
    <3>2. NamesOK(RecordNames(names, Rows[f][disk[f]]))
      BY <2>3, <3>1, Recorded
    <3> QED
      BY <2>1, <3>1, <3>2
  <2>6. ASSUME NEW e \in edges', NEW r \in symbols', r.id = e.from
        PROVE  r.file \notin DOMAIN busy'
    BY <2>2, <2>4, <2>6 DEF EdgesInv
  <2>7. ASSUME NEW e \in edges', NEW r \in symbols', NEW t \in symbols',
               e.type \in {"call", "reference"}, r.id = e.from, t.id = e.to
        PROVE  Mentions(e, r.file, stamp'[r.file], t)
    <3>1. e \in edges /\ r \in symbols /\ t \in symbols
      BY <2>4, <2>7
    <3> QED
      BY <2>1, <2>7, <3>1 DEF EdgesInv
  <2> QED
    BY <2>4, <2>5, <2>6, <2>7 DEF EdgesInv
<1>5. ASSUME NEW f \in Files, StoreEdges(f)
      PROVE  EdgesInv'
  <2>1. /\ f \in DOMAIN busy
        /\ stamp' = [stamp EXCEPT ![f] = busy[f]]
        /\ busy' = [g \in DOMAIN busy \ {f} |-> busy[g]]
        /\ UNCHANGED <<symbols, names>>
        /\ \A u \in usage' : u \in usage \/ (u.to \in Ids /\ (u.from = None \/ u.from \in Ids))
    BY <1>5 DEF StoreEdges, UpsertUsage
  <2>2. DOMAIN busy' = DOMAIN busy \ {f} /\ Ids' = Ids
    BY <2>1 DEF Ids
  <2>3. \A g \in Files : stamp'[g] = IF g = f THEN busy[f] ELSE stamp[g]
    BY <2>1 DEF FilesInv
  <2>4. PICK v : v = busy[f]
    OBVIOUS
  <2>5. PICK known : known = KnownNames(Rows[f][v])
    OBVIOUS
  <2>6. NamesOK(names) /\ edges \in SUBSET EdgeRows(Ids) /\ UniqueKeys(edges)
    BY DEF EdgesInv
  <2>7. /\ edges' \in SUBSET EdgeRows(Ids) /\ UniqueKeys(edges')
        /\ KeysOf(edges) \subseteq KeysOf(edges')
        /\ \A e \in edges' : Key(e) \in KeysOf(edges)
               \/ /\ \E k \in DOMAIN Rows[f][v] : e.from = Rows[f][v][k].id
                  /\ e.type \in {"call", "reference"} =>
                         \A t \in symbols : t.id = e.to => Mentions(e, f, v, t)
        /\ \A x \in evidence' : x \in evidence
               \/ /\ x.from \in Ids /\ x.to \in Ids
                  /\ \E e \in edges' : e.from = x.from /\ e.to = x.to /\ e.type = x.type
        /\ v \in DOMAIN Source[f]
    BY <1>5, <2>4, <2>5, <2>6, EdgesStored
  <2>8. ASSUME NEW e \in edges', NEW r \in symbols, r.id = e.from
        PROVE  /\ r.file \notin DOMAIN busy'
               /\ e.type \in {"call", "reference"} => \A t \in symbols : t.id = e.to =>
                      Mentions(e, r.file, stamp'[r.file], t)
    <3>1. r.file \in Files
      BY AllRowsFacts DEF RowsInv
    <3>2. CASE Key(e) \in KeysOf(edges)
      <4>1. PICK d \in edges : d.from = e.from /\ d.to = e.to /\ d.type = e.type
        BY <3>2 DEF KeysOf, Key
      <4>2. r.file \notin DOMAIN busy /\ r.file # f
        BY <2>1, <2>8, <4>1 DEF EdgesInv
      <4>3. stamp'[r.file] = stamp[r.file]
        BY <2>3, <3>1, <4>2
      <4>4. \A t : Mentions(d, r.file, stamp[r.file], t) <=> Mentions(e, r.file, stamp[r.file], t)
        BY <4>1 DEF Mentions
      <4>5. ASSUME NEW t \in symbols, t.id = e.to, e.type \in {"call", "reference"}
            PROVE  Mentions(d, r.file, stamp[r.file], t)
        BY <2>8, <4>1, <4>5 DEF EdgesInv
      <4> QED
        BY <2>2, <4>2, <4>3, <4>4, <4>5
    <3>3. CASE Key(e) \notin KeysOf(edges)
      <4>1. PICK k \in DOMAIN Rows[f][v] : e.from = Rows[f][v][k].id
        BY <2>7, <3>3
      <4>2. Rows[f][v][k] \in AllRows /\ Rows[f][v][k].file = f
        BY <2>7, RowFacts DEF AllRows, RowsOf
      <4>3. r.file = f
        BY <2>8, <4>1, <4>2, SameIdSameName DEF RowsInv
      <4>4. stamp'[r.file] = v /\ r.file \notin DOMAIN busy'
        BY <2>2, <2>3, <2>4, <4>3
      <4> QED
        BY <2>7, <3>3, <4>3, <4>4
    <3> QED
      BY <3>2, <3>3
  <2>9. ASSUME NEW x \in evidence'
        PROVE  /\ x.from \in Ids /\ x.to \in Ids
               /\ \E e \in edges' : e.from = x.from /\ e.to = x.to /\ e.type = x.type
    <3>1. CASE x \in evidence
      <4>1. PICK d \in edges : d.from = x.from /\ d.to = x.to /\ d.type = x.type
        BY <3>1 DEF EdgesInv
      <4>2. PICK e \in edges' : Key(e) = Key(d)
        BY <2>7 DEF KeysOf
      <4> QED
        BY <3>1, <4>1, <4>2 DEF EdgesInv, Key
    <3>2. CASE x \notin evidence
      BY <2>7, <3>2
    <3> QED
      BY <3>1, <3>2
  <2>10. \A u \in usage' : u.to \in Ids /\ (u.from = None \/ u.from \in Ids)
    BY <2>1 DEF EdgesInv
  <2> QED
    BY <2>1, <2>2, <2>6, <2>7, <2>8, <2>9, <2>10 DEF EdgesInv
<1> QED
  BY <1>1, <1>2, <1>3, <1>4, <1>5 DEF Next

-----------------------------------------------------------------------------
(* TODO comments and framework patterns. *)

(* They are of files that are not between their steps, and of the content  *)
(* their file was last stored from.                                        *)
NotesInv ==
    /\ \A n \in todos \cup patterns : n.file \in Files /\ n.file \notin DOMAIN busy
    /\ \A n \in todos :
           /\ stamp[n.file] # Absent
           /\ \E i \in DOMAIN Source[n.file][stamp[n.file]].todos :
                  /\ Source[n.file][stamp[n.file]].todos[i].line = n.line
                  /\ Source[n.file][stamp[n.file]].todos[i].kind = n.kind
    /\ \A n \in patterns : stamp[n.file] # Absent =>
           n.is = Source[n.file][stamp[n.file]].patterns[n.nth]

LEMMA NotesInit == Init => NotesInv
  BY DEF Init, NotesInv

LEMMA NotesStep == FilesInv /\ NotesInv /\ [Next]_vars => NotesInv'
<1> SUFFICES ASSUME FilesInv, NotesInv, [Next]_vars
             PROVE  NotesInv'
  OBVIOUS
<1> HIDE DEF Files
<1>1. CASE StartRun
  <2> DEFINE gone == {f \in Files : stamp[f] # Absent /\ disk[f] = Absent}
  <2>1. /\ stamp' = [f \in Files |-> IF f \in gone THEN Absent ELSE stamp[f]]
        /\ DOMAIN busy' = {} /\ patterns' = patterns /\ todos' = {n \in todos : n.file \notin gone}
    BY <1>1 DEF StartRun, NotesOfOthers
  <2>2. \A f \in Files : stamp'[f] = IF f \in gone THEN Absent ELSE stamp[f]
    BY <2>1
  <2> HIDE DEF gone
  <2>3. \A n \in todos' \cup patterns' : n.file \in Files /\ n.file \notin DOMAIN busy'
    BY <2>1 DEF NotesInv
  <2>4. \A n \in todos' : n \in todos /\ stamp'[n.file] = stamp[n.file]
    BY <2>1, <2>2 DEF NotesInv
  <2>5. \A n \in patterns' : stamp'[n.file] # Absent => n \in patterns /\ stamp'[n.file] = stamp[n.file]
    BY <2>1, <2>2 DEF NotesInv
  <2>6. \A n \in todos' :
            /\ stamp'[n.file] # Absent
            /\ \E i \in DOMAIN Source[n.file][stamp'[n.file]].todos :
                   /\ Source[n.file][stamp'[n.file]].todos[i].line = n.line
                   /\ Source[n.file][stamp'[n.file]].todos[i].kind = n.kind
    BY <2>4 DEF NotesInv
  <2>7. \A n \in patterns' : stamp'[n.file] # Absent =>
            n.is = Source[n.file][stamp'[n.file]].patterns[n.nth]
    BY <2>5 DEF NotesInv
  <2> QED
    BY <2>3, <2>6, <2>7 DEF NotesInv
<1>2. CASE EndFiles \/ Rank \/ UNCHANGED vars \/ \E f \in Files : Edit(f) \/ Delete(f) \/ PassOver(f)
  <2>1. UNCHANGED <<todos, patterns, stamp, busy>>
    BY <1>2 DEF EndFiles, Rank, Edit, Delete, PassOver, vars, tables, notes, run
  <2> QED
    BY <2>1 DEF NotesInv
<1>3. CASE Cut
  <2>1. DOMAIN busy' = {} /\ UNCHANGED <<todos, patterns, stamp>>
    BY <1>3 DEF Cut, tables, notes
  <2> QED
    BY <2>1 DEF NotesInv
<1>4. ASSUME NEW f \in Files, StoreSymbols(f)
      PROVE  NotesInv'
  <2>1. /\ busy' = [g \in DOMAIN busy \cup {f} |-> IF g = f THEN disk[f] ELSE busy[g]]
        /\ stamp' = stamp
        /\ todos' = {n \in todos : n.file \notin {f}}
        /\ patterns' = {n \in patterns : n.file \notin {f}}
    BY <1>4 DEF StoreSymbols, NotesOfOthers
  <2>2. DOMAIN busy' = DOMAIN busy \cup {f}
    BY <2>1
  <2> QED
    BY <2>1, <2>2 DEF NotesInv
<1>5. ASSUME NEW f \in Files, StoreEdges(f)
      PROVE  NotesInv'
  <2> DEFINE c == Source[f][busy[f]]
  <2>1. /\ f \in DOMAIN busy
        /\ stamp' = [stamp EXCEPT ![f] = busy[f]]
        /\ busy' = [g \in DOMAIN busy \ {f} |-> busy[g]]
        /\ todos' = UpsertTodos(todos, f, c.todos)
        /\ patterns' = UpsertPatterns(patterns, f, c.patterns)
    BY <1>5 DEF StoreEdges
  <2>2. DOMAIN busy' = DOMAIN busy \ {f}
    BY <2>1
  <2>3. /\ \A g \in Files : stamp'[g] = IF g = f THEN busy[f] ELSE stamp[g]
        /\ busy[f] # Absent
    BY <2>1 DEF FilesInv
  <2>4. \A n \in todos' : n \in todos
            \/ /\ n.file = f
               /\ \E i \in DOMAIN c.todos : c.todos[i].line = n.line /\ c.todos[i].kind = n.kind
    <3> DEFINE found == c.todos
               last == {i \in DOMAIN found : \A j \in (i + 1)..Len(found) : found[j].line # found[i].line}
               row(i) == [file |-> f, line |-> found[i].line, kind |-> found[i].kind,
                          symbol |-> found[i].symbol]
               new == {row(i) : i \in last}
    <3>1. \A n \in todos' : n \in todos \/ n \in new
      BY <2>1 DEF UpsertTodos
    <3>2. ASSUME NEW n \in new
          PROVE  n.file = f /\ \E i \in DOMAIN c.todos : c.todos[i].line = n.line /\ c.todos[i].kind = n.kind
      <4>1. PICK i \in last : n = row(i)
        OBVIOUS
      <4>2. i \in DOMAIN found
        OBVIOUS
      <4> HIDE DEF last
      <4> QED
        BY <4>1, <4>2
    <3> QED
      BY <3>1, <3>2
  <2>5. \A n \in patterns' : n \in patterns \/ (n.file = f /\ n.is = c.patterns[n.nth])
    BY <2>1 DEF UpsertPatterns
  <2>6. \A n \in todos \cup patterns : n.file \in Files /\ n.file # f /\ n.file \notin DOMAIN busy
    BY <2>1 DEF NotesInv
  <2>7. ASSUME NEW n \in todos'
        PROVE  /\ n.file \in Files /\ n.file \notin DOMAIN busy'
               /\ stamp'[n.file] # Absent
               /\ \E i \in DOMAIN Source[n.file][stamp'[n.file]].todos :
                      /\ Source[n.file][stamp'[n.file]].todos[i].line = n.line
                      /\ Source[n.file][stamp'[n.file]].todos[i].kind = n.kind
    <3>1. CASE n \in todos
      <4>1. n.file \in Files /\ n.file # f /\ stamp'[n.file] = stamp[n.file]
        BY <2>3, <2>6, <3>1
      <4> QED
        BY <2>2, <2>6, <3>1, <4>1 DEF NotesInv
    <3>2. CASE n \notin todos
      <4>1. n.file = f /\ stamp'[n.file] = busy[f]
        BY <2>3, <2>4, <3>2
      <4> QED
        BY <2>2, <2>3, <2>4, <3>2, <4>1
    <3> QED
      BY <3>1, <3>2
  <2>8. ASSUME NEW n \in patterns'
        PROVE  /\ n.file \in Files /\ n.file \notin DOMAIN busy'
               /\ stamp'[n.file] # Absent => n.is = Source[n.file][stamp'[n.file]].patterns[n.nth]
    <3>1. CASE n \in patterns
      <4>1. n.file \in Files /\ n.file # f /\ stamp'[n.file] = stamp[n.file]
        BY <2>3, <2>6, <3>1
      <4> QED
        BY <2>2, <2>6, <3>1, <4>1 DEF NotesInv
    <3>2. CASE n \notin patterns
      <4>1. n.file = f /\ stamp'[n.file] = busy[f]
        BY <2>3, <2>5, <3>2
      <4> QED
        BY <2>2, <2>5, <3>2, <4>1
    <3> QED
      BY <3>1, <3>2
  <2> QED
    BY <2>7, <2>8 DEF NotesInv
<1> QED
  BY <1>1, <1>2, <1>3, <1>4, <1>5 DEF Next

-----------------------------------------------------------------------------
(* The scores. *)

(* Scores are of stored symbols.  Until a run that is not cut short        *)
(* changes something, they are those of the graph.                         *)
RanksInv ==
    /\ DOMAIN metrics \subseteq Ids
    /\ cuts = 0 /\ (pc = "idle" \/ (pc = "files" /\ ~touched /\ busy = <<>>)) =>
           \A id \in Ranked : id \in DOMAIN metrics /\ metrics[id] = Ranks[id]

LEMMA RanksInit == Init => RanksInv
<1> SUFFICES ASSUME Init
             PROVE  RanksInv
  OBVIOUS
<1>1. symbols = {} /\ DOMAIN metrics = {}
  BY DEF Init
<1> QED
  BY <1>1 DEF RanksInv, Ranked

LEMMA RanksStep == FilesInv /\ RowsInv /\ RanksInv /\ [Next]_vars => RanksInv'
<1> SUFFICES ASSUME FilesInv, RowsInv, RanksInv, [Next]_vars
             PROVE  RanksInv'
  OBVIOUS
<1> HIDE DEF Files
<1>1. ASSUME UNCHANGED <<symbols, edges, metrics>>
      PROVE  Ids' = Ids /\ Ranked' = Ranked /\ Ranks' = Ranks
  BY <1>1 DEF Ids, Ranked, Ranks
<1>2. CASE StartRun
  <2> DEFINE gone == {f \in Files : stamp[f] # Absent /\ disk[f] = Absent}
  <2>1. /\ DeleteSymbolsOf(gone, {}) /\ touched' = (gone # {}) /\ cuts' = cuts
        /\ pc = "idle" /\ pc' = "files"
    BY <1>2 DEF StartRun
  <2>2. /\ symbols' = {r \in symbols : r.file \notin gone} \cup {}
        /\ edges' = {e \in edges : e.from \notin Gone(gone) /\ e.to \notin Gone(gone)}
        /\ DOMAIN metrics' = DOMAIN metrics \ Gone(gone)
        /\ \A id \in DOMAIN metrics' : metrics'[id] = metrics[id]
    BY <2>1 DEF DeleteSymbolsOf, Gone
  <2>3. DOMAIN metrics' \subseteq Ids'
    BY <2>2 DEF RanksInv, Ids, Gone
  <2>4. CASE gone # {}
    BY <2>1, <2>3, <2>4 DEF RanksInv
  <2>5. CASE gone = {}
    <3>1. Gone(gone) = {}
      BY <2>5 DEF Gone
    <3>2. symbols' = symbols /\ edges' = edges /\ DOMAIN metrics' = DOMAIN metrics
      BY <2>2, <2>5, <3>1
    <3>3. Ranked' = Ranked /\ Ranks' = Ranks
      BY <3>2 DEF Ranked, Ranks
    <3> HIDE DEF gone
    <3>4. (cuts' = 0) => \A id \in Ranked' : id \in DOMAIN metrics' /\ metrics'[id] = Ranks'[id]
      <4>1. Ranks' = Ranks
        BY <3>3
      <4> QED
        BY <2>1, <2>2, <3>2, <3>3, <4>1 DEF RanksInv
    <3> QED
      BY <2>3, <3>4 DEF RanksInv
  <2> QED
    BY <2>4, <2>5
<1>3. CASE EndFiles
  <2>1. /\ busy = <<>> /\ pc = "files" /\ pc' = IF touched THEN "rank" ELSE "idle"
        /\ UNCHANGED <<symbols, edges, metrics, cuts>> /\ touched \in BOOLEAN
    BY <1>3 DEF EndFiles, tables, graph, FilesInv
  <2> QED
    BY <1>1, <2>1 DEF RanksInv
<1>4. CASE Rank
  <2>1. /\ metrics' = [id \in Ranked \cup DOMAIN metrics |->
                          IF id \in Ranked THEN Ranks[id] ELSE metrics[id]]
        /\ symbols' = symbols /\ edges' = edges
    BY <1>4 DEF Rank
  <2>2. Ids' = Ids /\ Ranked' = Ranked /\ Ranks' = Ranks
    BY <2>1 DEF Ids, Ranked, Ranks
  <2>3. Ranked \subseteq Ids
    BY DEF Ranked, Ids
  <2>4. /\ DOMAIN metrics' = Ranked \cup DOMAIN metrics
        /\ \A id \in Ranked : metrics'[id] = Ranks[id]
    BY <2>1
  <2> QED
    BY <2>2, <2>3, <2>4 DEF RanksInv
<1>5. CASE Cut
  <2>1. cuts' = cuts + 1 /\ cuts \in Nat /\ UNCHANGED <<symbols, edges, metrics>>
    BY <1>5, GraphBoundsAssumption DEF Cut, tables, graph, FilesInv
  <2> QED
    BY <1>1, <2>1 DEF RanksInv
<1>6. CASE UNCHANGED vars \/ \E f \in Files : Edit(f) \/ Delete(f) \/ PassOver(f)
  <2>1. UNCHANGED <<symbols, edges, metrics, pc, busy, touched, cuts>>
    BY <1>6 DEF Edit, Delete, PassOver, vars, tables, graph, run
  <2> QED
    BY <1>1, <2>1 DEF RanksInv
<1>7. ASSUME NEW f \in Files, StoreSymbols(f)
      PROVE  RanksInv'
  <2> DEFINE stored == LastOfEachId(Rows[f][disk[f]])
  <2>1. /\ pc' = "files" /\ DeleteSymbolsOf({f}, stored)
        /\ busy' = [g \in DOMAIN busy \cup {f} |-> IF g = f THEN disk[f] ELSE busy[g]]
    BY <1>7 DEF StoreSymbols
  <2>2. f \in DOMAIN busy' /\ DOMAIN <<>> = {}
    BY <2>1
  <2>3. /\ symbols' = {r \in symbols : r.file \notin {f}} \cup stored
        /\ DOMAIN metrics' = DOMAIN metrics \ Gone({f})
    BY <2>1 DEF DeleteSymbolsOf, Gone
  <2>4. DOMAIN metrics' \subseteq Ids'
    BY <2>3 DEF RanksInv, Ids, Gone
  <2> QED
    BY <2>1, <2>2, <2>4 DEF RanksInv
<1>8. ASSUME NEW f \in Files, StoreEdges(f)
      PROVE  RanksInv'
  <2>1. touched' = TRUE /\ pc' = "files" /\ UNCHANGED <<symbols, metrics>>
    BY <1>8 DEF StoreEdges
  <2> QED
    BY <2>1 DEF RanksInv, Ids
<1> QED
  BY <1>2, <1>3, <1>4, <1>5, <1>6, <1>7, <1>8 DEF Next

-----------------------------------------------------------------------------
(* Calls between the symbols of a file. *)

(* The edge of each of them, in one file.                                  *)
CallsHaveEdges(f) ==
    \A r, s \in Stored(f) :
        /\ r # s /\ s.name \in Calls(r) /\ s.name # r.name
        /\ \A t \in Stored(f) : t.name = s.name => t = s
        => \E e \in edges : e.from = r.id /\ e.to = s.id /\ e.type = "call"

LEMMA LocalInit == Init => LocalCallsHaveEdges
<1> SUFFICES ASSUME Init
             PROVE  LocalCallsHaveEdges
  OBVIOUS
<1>1. symbols = {}
  BY DEF Init
<1> QED
  BY <1>1 DEF LocalCallsHaveEdges, Stored

(* A call of a file's own symbol is found when the file's edges are.       *)
LEMMA LocalFound ==
  ASSUME FilesInv, RowsInv, EdgesInv, pool, NEW f \in Files, StoreEdges(f)
  PROVE  CallsHaveEdges(f)'
<1> HIDE DEF Files
<1>1. PICK v : v = busy[f]
  OBVIOUS
<1>2. PICK known : known = KnownNames(Rows[f][v])
  OBVIOUS
<1>3. NamesOK(names) /\ edges \in SUBSET EdgeRows(Ids) /\ UniqueKeys(edges)
  BY DEF EdgesInv
<1>4. v \in DOMAIN Source[f] /\ CallsStored(f, v, known)
  BY <1>1, <1>2, <1>3, EdgesStored
<1>5. f \in DOMAIN busy /\ symbols' = symbols
  BY DEF StoreEdges
<1>6. Stored(f)' = Stored(f) /\ Stored(f) = LastOfEachId(Rows[f][v])
  BY <1>1, <1>5 DEF RowsInv, Stored
<1>7. /\ \A k \in DOMAIN Rows[f][v] : Rows[f][v][k].name \in DOMAIN known
      /\ \A n \in DOMAIN known : \E k \in DOMAIN Rows[f][v] :
             Rows[f][v][k].name = n /\ Rows[f][v][k].id = known[n]
  BY <1>2, <1>3, <1>4, KnownOK
<1>8. /\ \A r \in Stored(f) : \E k \in DOMAIN Rows[f][v] : r = Rows[f][v][k]
      /\ \A k \in DOMAIN Rows[f][v] : \E s \in Stored(f) : s.id = Rows[f][v][k].id
  <2>1. /\ LastOfEachId(Rows[f][v]) \subseteq RowsOf(f, v)
        /\ \A r \in RowsOf(f, v) : \E s \in LastOfEachId(Rows[f][v]) : s.id = r.id
    BY <1>4, LastRows
  <2> QED
    BY <1>6, <2>1 DEF RowsOf
<1>9. ASSUME NEW r \in Stored(f), NEW s \in Stored(f),
             r # s, s.name \in Calls(r), \A t \in Stored(f) : t.name = s.name => t = s
      PROVE  \E e \in edges' : e.from = r.id /\ e.to = s.id /\ e.type = "call"
  <2>1. r \in symbols /\ s \in symbols /\ r \in AllRows /\ s \in AllRows
    BY DEF Stored, RowsInv
  <2>2. r.id # s.id /\ r.id \in Ids /\ s.id \in Ids
    BY <1>9, <2>1 DEF RowsInv, Ids
  <2>3. PICK k \in DOMAIN Rows[f][v] : r = Rows[f][v][k]
    BY <1>8
  <2>4. PICK i \in DOMAIN r.text : r.text[i].call /\ r.text[i].name = s.name
    BY <1>9 DEF Calls
  <2>5. s.name \in DOMAIN known
    BY <1>7, <1>8
  <2>6. PICK m \in DOMAIN Rows[f][v] : Rows[f][v][m].name = s.name /\ Rows[f][v][m].id = known[s.name]
    BY <1>7, <2>5
  <2>7. PICK t \in Stored(f) : t.id = Rows[f][v][m].id
    BY <1>8
  <2>8. t \in AllRows /\ Rows[f][v][m] \in AllRows
    BY <1>4 DEF Stored, RowsInv, AllRows, RowsOf
  <2>9. t.name = s.name
    BY <2>6, <2>7, <2>8, SameIdSameName
  <2>10. known[s.name] = s.id
    BY <1>9, <2>6, <2>7, <2>9
  <2>11. Target(r, Source[f][v], known, symbols, s.name) = s.id
    BY <2>2, <2>5, <2>10 DEF Target
  <2>12. s.id # None
    BY <2>1, IdIsSome
  <2>13. \A to : /\ to = Target(r, Source[f][v], known, symbols, r.text[i].name)
                 /\ r.text[i].call /\ to # None /\ to \in Ids /\ r.id \in Ids
             => \E e \in edges' : e.from = r.id /\ e.to = to /\ e.type = "call"
    <3>1. \A j \in DOMAIN Rows[f][v][k].text :
             \A to : /\ to = Target(Rows[f][v][k], Source[f][v], known, symbols,
                                    Rows[f][v][k].text[j].name)
                     /\ Rows[f][v][k].text[j].call /\ to # None /\ to \in Ids
                     /\ Rows[f][v][k].id \in Ids
                 => \E e \in edges' : e.from = Rows[f][v][k].id /\ e.to = to /\ e.type = "call"
      BY <1>4 DEF CallsStored
    <3> QED
      BY <2>3, <3>1
  <2> QED
    BY <2>2, <2>4, <2>11, <2>12, <2>13
<1> QED
  BY <1>6, <1>9 DEF CallsHaveEdges

LEMMA LocalStep ==
  FilesInv /\ RowsInv /\ EdgesInv /\ LocalCallsHaveEdges /\ [Next]_vars => LocalCallsHaveEdges'
<1> SUFFICES ASSUME FilesInv, RowsInv, EdgesInv, LocalCallsHaveEdges, [Next]_vars, pool',
                    NEW g \in Files, Settled(g)'
             PROVE  CallsHaveEdges(g)'
  BY DEF LocalCallsHaveEdges, CallsHaveEdges
<1> HIDE DEF Files
<1>0. Settled(g) /\ pool => CallsHaveEdges(g)
  BY DEF LocalCallsHaveEdges, CallsHaveEdges
<1>1. CASE StartRun
  <2> DEFINE gone == {f \in Files : stamp[f] # Absent /\ disk[f] = Absent}
  <2>1. /\ stamp' = [f \in Files |-> IF f \in gone THEN Absent ELSE stamp[f]]
        /\ pool' = pool /\ disk' = disk /\ DeleteSymbolsOf(gone, {}) /\ pc = "idle"
    BY <1>1 DEF StartRun
  <2>2. gone \in SUBSET Files
    OBVIOUS
  <2>3. g \notin gone /\ Settled(g)
    BY <2>1 DEF Settled, FilesInv
  <2> HIDE DEF gone
  <2>4. /\ \A r \in symbols' : r \in symbols /\ r.file \notin gone
        /\ \A r \in symbols : r.file \notin gone => r \in symbols'
        /\ \A r \in symbols : r.id \in Gone(gone) <=> r.file \in gone
    BY <2>1, <2>2, Deletion
  <2>5. Stored(g)' = Stored(g)
    BY <2>3, <2>4 DEF Stored
  <2>6. \A r \in Stored(g) : r.id \notin Gone(gone)
    BY <2>3, <2>4 DEF Stored
  <2>7. edges' = {e \in edges : e.from \notin Gone(gone) /\ e.to \notin Gone(gone)}
    BY <2>1 DEF DeleteSymbolsOf, Gone
  <2> QED
    BY <1>0, <2>1, <2>3, <2>5, <2>6, <2>7 DEF CallsHaveEdges
<1>2. CASE EndFiles \/ Rank \/ UNCHANGED vars \/ \E f \in Files : PassOver(f)
  <2>1. UNCHANGED <<pool, symbols, edges, disk, stamp, busy>>
    BY <1>2 DEF EndFiles, Rank, PassOver, vars, tables, graph, run
  <2> QED
    BY <1>0, <2>1 DEF Settled, CallsHaveEdges, Stored
<1>3. CASE Cut
  <2>1. UNCHANGED <<pool, symbols, edges, disk, stamp>>
    BY <1>3 DEF Cut, tables, graph
  <2>2. Settled(g)
    BY <2>1 DEF Settled, FilesInv
  <2> QED
    BY <1>0, <2>1, <2>2 DEF CallsHaveEdges, Stored
<1>4. ASSUME NEW f \in Files, Edit(f) \/ Delete(f)
      PROVE  CallsHaveEdges(g)'
  <2>1. /\ UNCHANGED <<pool, symbols, edges, stamp, busy>>
        /\ \/ disk' = [disk EXCEPT ![f] = @ + 1] /\ disk[f] # Absent
           \/ disk' = [disk EXCEPT ![f] = Absent]
    <3>1. CASE Edit(f)
      <4>1. disk[f] \in 1 .. (Len(Source[f]) - 1)
        BY <3>1 DEF Edit
      <4>2. disk[f] # 0
        BY <4>1
      <4> QED
        BY <3>1, <4>2 DEF Edit, tables, graph, run, Absent
    <3>2. CASE Delete(f)
      BY <3>2 DEF Delete, tables, graph, run
    <3> QED
      BY <1>4, <3>1, <3>2
  <2>2. Settled(g)
    <3>1. CASE g = f
      <4>1. disk'[f] # Absent
        BY <3>1 DEF Settled
      <4>2. disk'[f] = disk[f] + 1 /\ disk[f] # Absent /\ disk[f] \in Nat /\ stamp[f] \in Nat
        BY <2>1, <4>1 DEF FilesInv
      <4>3. stamp[f] <= disk[f]
        BY <4>2 DEF FilesInv
      <4>4. stamp'[f] = stamp[f] /\ stamp'[f] = disk'[f]
        BY <2>1, <3>1 DEF Settled
      <4> QED
        BY <4>2, <4>3, <4>4
    <3>2. CASE g # f
      BY <2>1, <3>2 DEF Settled, FilesInv
    <3> QED
      BY <3>1, <3>2
  <2> QED
    BY <1>0, <2>1, <2>2 DEF CallsHaveEdges, Stored
<1>5. ASSUME NEW f \in Files, StoreSymbols(f)
      PROVE  CallsHaveEdges(g)'
  <2> DEFINE stored == LastOfEachId(Rows[f][disk[f]])
  <2>1. /\ busy' = [h \in DOMAIN busy \cup {f} |-> IF h = f THEN disk[f] ELSE busy[h]]
        /\ UNCHANGED <<pool, disk, stamp>>
    BY <1>5 DEF StoreSymbols
  <2>2. DOMAIN busy' = DOMAIN busy \cup {f}
    BY <2>1
  <2>3. g # f /\ Settled(g)
    BY <2>1, <2>2 DEF Settled
  <2>4. /\ stored \in SUBSET AllRows
        /\ \A r \in stored : r.file \in {f}
        /\ \A r, s \in stored : r.id = s.id => r = s
        /\ DeleteSymbolsOf({f}, stored)
    BY <1>5, StoredRows
  <2> HIDE DEF stored
  <2>5. /\ symbols' \subseteq AllRows
        /\ \A r, s \in symbols' : r.id = s.id => r = s
        /\ \A r \in symbols' : r \in stored \/ (r \in symbols /\ r.file \notin {f})
        /\ stored \subseteq symbols'
        /\ \A r \in symbols : r.file \notin {f} => r \in symbols'
        /\ \A r \in symbols : r.id \in Gone({f}) <=> r.file \in {f}
    BY <2>4, Deletion
  <2>6. Stored(g)' = Stored(g)
    BY <2>3, <2>4, <2>5 DEF Stored
  <2>7. \A r \in Stored(g) : r.id \notin Gone({f})
    BY <2>3, <2>5 DEF Stored
  <2>8. edges' = {e \in edges : e.from \notin Gone({f}) /\ e.to \notin Gone({f})}
    BY <2>4 DEF DeleteSymbolsOf, Gone
  <2>9. \A e \in edges, r, s \in Stored(g) : e.from = r.id /\ e.to = s.id => e \in edges'
    BY <2>7, <2>8
  <2> QED
    BY <1>0, <2>1, <2>3, <2>6, <2>9 DEF CallsHaveEdges
<1>6. ASSUME NEW f \in Files, StoreEdges(f)
      PROVE  CallsHaveEdges(g)'
  <2>1. /\ stamp' = [stamp EXCEPT ![f] = busy[f]]
        /\ busy' = [h \in DOMAIN busy \ {f} |-> busy[h]]
        /\ UNCHANGED <<pool, disk, symbols>>
    BY <1>6 DEF StoreEdges
  <2>2. CASE g = f
    BY <1>6, <2>1, <2>2, LocalFound
  <2>3. CASE g # f
    <3>1. DOMAIN busy' = DOMAIN busy \ {f}
      BY <2>1
    <3>2. Settled(g)
      BY <2>1, <2>3, <3>1 DEF Settled, FilesInv
    <3>3. NamesOK(names) /\ edges \in SUBSET EdgeRows(Ids) /\ UniqueKeys(edges)
      BY DEF EdgesInv
    <3>4. KeysOf(edges) \subseteq KeysOf(edges')
      BY <1>6, <3>3, EdgesStored
    <3>5. ASSUME NEW d \in edges
          PROVE  \E e \in edges' : e.from = d.from /\ e.to = d.to /\ e.type = d.type
      <4>1. Key(d) \in KeysOf(edges')
        BY <3>4 DEF KeysOf
      <4>2. PICK e \in edges' : Key(e) = Key(d)
        BY <4>1 DEF KeysOf
      <4> QED
        BY <4>2 DEF Key
    <3>6. Stored(g)' = Stored(g)
      BY <2>1 DEF Stored
    <3> QED
      BY <1>0, <2>1, <3>2, <3>5, <3>6 DEF CallsHaveEdges
  <2> QED
    BY <2>2, <2>3
<1> QED
  BY <1>1, <1>2, <1>3, <1>4, <1>5, <1>6 DEF Next

-----------------------------------------------------------------------------
(* The theorems. *)

IndInv == FilesInv /\ RowsInv /\ EdgesInv /\ NotesInv /\ RanksInv /\ LocalCallsHaveEdges

LEMMA IndInvInit == Init => IndInv
  BY FilesInit, RowsInit, EdgesInit, NotesInit, RanksInit, LocalInit DEF IndInv

LEMMA IndInvStep == IndInv /\ [Next]_vars => IndInv'
  BY FilesStep, RowsStep, EdgesStep, NotesStep, RanksStep, LocalStep DEF IndInv

(* The inductive invariant holds in every state.                           *)
THEOREM Invariance == Spec => []IndInv
<1>1. Init => IndInv
  BY IndInvInit
<1>2. IndInv /\ [Next]_vars => IndInv'
  BY IndInvStep
<1> QED
  BY <1>1, <1>2, PTL DEF Spec

LEMMA IndInvType == IndInv => TypeOK
<1> SUFFICES ASSUME IndInv
             PROVE  TypeOK
  OBVIOUS
<1> USE DEF IndInv
<1>1. \A e \in edges : e.type \in EdgeTypes /\ e.count \in Nat \ {0}
  BY DEF EdgesInv, EdgeRows
<1>2. \A d, e \in edges : Key(d) = Key(e) => d = e
  BY DEF EdgesInv, UniqueKeys
<1>3. /\ \A r, s \in symbols : r.id = s.id => r = s
      /\ DOMAIN metrics \subseteq Ids
  BY DEF RowsInv, RanksInv
<1> HIDE DEF Files, EdgeTypes
<1> QED
  BY <1>1, <1>2, <1>3 DEF TypeOK, FilesInv

LEMMA IndInvEdges == IndInv => EdgesFollowText
<1> SUFFICES ASSUME IndInv
             PROVE  EdgesFollowText
  OBVIOUS
<1> USE DEF IndInv
<1> HIDE DEF Files
<1>1. \A e \in edges \cup evidence : e.from \in Ids /\ e.to \in Ids
  BY DEF EdgesInv, EdgeRows
<1>2. \A u \in usage : u.to \in Ids /\ (u.from = None \/ u.from \in Ids)
  BY DEF EdgesInv
<1>3. \A v \in evidence : \E e \in edges : e.from = v.from /\ e.to = v.to /\ e.type = v.type
  BY DEF EdgesInv
<1>4. ASSUME NEW id \in Ids
      PROVE  RowOf(id) \in symbols /\ RowOf(id).id = id
  BY DEF RowOf, Ids
<1>5. ASSUME NEW e \in edges, e.type \in {"call", "reference"},
             NEW f, f = RowOf(e.from).file, NEW t, t = RowOf(e.to)
      PROVE  \E k \in DOMAIN Rows[f][ReadFrom(f)] :
                 /\ Rows[f][ReadFrom(f)][k].id = e.from
                 /\ \E i \in DOMAIN Rows[f][ReadFrom(f)][k].text :
                        /\ \/ Rows[f][ReadFrom(f)][k].text[i].name = t.name
                           \/ \E imp \in Source[f][ReadFrom(f)].imports :
                                  /\ imp.local = Rows[f][ReadFrom(f)][k].text[i].name
                                  /\ imp.name = t.name
                        /\ e.type = "call" => Rows[f][ReadFrom(f)][k].text[i].call
  <2>1. /\ RowOf(e.from) \in symbols /\ RowOf(e.from).id = e.from
        /\ t \in symbols /\ t.id = e.to
    BY <1>1, <1>4, <1>5
  <2>2. f \notin DOMAIN busy
    BY <1>5, <2>1 DEF EdgesInv
  <2>3. ReadFrom(f) = stamp[f]
    BY <2>2 DEF ReadFrom
  <2>4. Mentions(e, f, stamp[f], t)
    BY <1>5, <2>1 DEF EdgesInv
  <2> QED
    BY <2>3, <2>4 DEF Mentions, Means
<1>6. \A n \in todos \cup patterns : ReadFrom(n.file) = stamp[n.file]
  BY DEF NotesInv, ReadFrom
<1>7. \A n \in todos :
          /\ ReadFrom(n.file) # Absent
          /\ \E i \in DOMAIN Source[n.file][ReadFrom(n.file)].todos :
                 /\ Source[n.file][ReadFrom(n.file)].todos[i].line = n.line
                 /\ Source[n.file][ReadFrom(n.file)].todos[i].kind = n.kind
  BY <1>6 DEF NotesInv
<1>8. \A n \in patterns : ReadFrom(n.file) # Absent =>
          n.is = Source[n.file][ReadFrom(n.file)].patterns[n.nth]
  BY <1>6 DEF NotesInv
<1> HIDE DEF IndInv
<1>9. ASSUME NEW e \in edges, e.type \in {"call", "reference"}
      PROVE  LET f == RowOf(e.from).file
                 c == Source[f][ReadFrom(f)]
                 t == RowOf(e.to)
                 meant(n) == n = t.name \/ \E imp \in c.imports : imp.local = n /\ imp.name = t.name
             IN  \E k \in DOMAIN Rows[f][ReadFrom(f)] :
                     LET r == Rows[f][ReadFrom(f)][k]
                     IN  /\ r.id = e.from
                         /\ \E i \in DOMAIN r.text :
                                meant(r.text[i].name) /\ (e.type = "call" => r.text[i].call)
  BY <1>5, <1>9
<1> QED
  BY <1>1, <1>2, <1>3, <1>7, <1>8, <1>9 DEF EdgesFollowText

(* Types: what is stored stays well formed, with one row for each symbol   *)
(* id, one edge for each source, target and type, counts of at least one,  *)
(* and scores of stored symbols only.                                      *)
THEOREM TypeCorrect == Spec => []TypeOK
<1>1. Spec => []IndInv
  BY Invariance
<1> QED
  BY <1>1, IndInvType, PTL

(* Whatever files are edited, deleted and indexed in any order, by any     *)
(* number of workers and with runs cut short anywhere, no edge, evidence,  *)
(* example, TODO or pattern outlives the text it was found in or a symbol  *)
(* it is about.                                                            *)
THEOREM EdgesAreOfTheText == Spec => []EdgesFollowText
<1>1. Spec => []IndInv
  BY Invariance
<1> QED
  BY <1>1, IndInvEdges, PTL

(* With a pool of workers no call between the symbols of an up-to-date     *)
(* file loses its edge, in whatever order the steps of files interleave.   *)
THEOREM LocalCallsAreKept == Spec => []LocalCallsHaveEdges
<1>1. Spec => []IndInv
  BY Invariance
<1>2. IndInv => LocalCallsHaveEdges
  BY DEF IndInv
<1> QED
  BY <1>1, <1>2, PTL

(* Between runs none of which was cut short the stored scores are the      *)
(* PageRank of the stored edges, for every damping and number of rounds.   *)
THEOREM RanksStayCurrent == Spec => []RanksAreCurrent
<1>1. Spec => []IndInv
  BY Invariance
<1>2. IndInv => RanksAreCurrent
  BY DEF IndInv, RanksInv, RanksAreCurrent
<1> QED
  BY <1>1, <1>2, PTL

-----------------------------------------------------------------------------
(* Orders and folds. *)

(* What holds of 0 and of the successor of what it holds of. *)
LEMMA Reached ==
  ASSUME NEW n \in Nat, NEW G, 0 \in G, \A i \in 1..n : i - 1 \in G => i \in G
  PROVE  0..n \subseteq G
<1> DEFINE Bad == (0..n) \ G
<1>1. Bad \in SUBSET Nat
  OBVIOUS
<1>2. ASSUME Bad # {}
      PROVE  FALSE
  <2>1. PICK m \in Bad : \A x \in Bad : m <= x
    <3> HIDE DEF Bad
    <3> QED
      BY <1>1, <1>2, Least
  <2>2. m # 0
    OBVIOUS
  <2>3. m \in 1..n /\ m - 1 \in 0..n
    BY <2>2
  <2>4. m - 1 \in G
    BY <2>1, <2>3
  <2> QED
    BY <2>3, <2>4
<1> QED
  BY <1>2

LEMMA ReachedEnd ==
  ASSUME NEW n, n \in Nat, NEW G, 0 \in G, \A i \in 1..n : i - 1 \in G => i \in G
  PROVE  n \in G
<1>1. 0..n \subseteq G
  BY Reached
<1> QED
  BY <1>1

LEMMA GreatestOf ==
  ASSUME NEW n \in Nat, NEW S \in SUBSET (1..n), S # {}
  PROVE  Max(S) \in S /\ \A x \in S : x <= Max(S)
<1> DEFINE D == {n - x : x \in S}
<1>a. \A x \in S : x \in 1..n
  OBVIOUS
<1>1. D \in SUBSET Nat /\ D # {}
  BY <1>a
<1>2. PICK d \in D : \A x \in D : d <= x
  <2> HIDE DEF D
  <2> QED
    BY <1>1, Least
<1>3. PICK m \in S : d = n - m
  OBVIOUS
<1>4. ASSUME NEW x \in S
      PROVE  m >= x
  <2>1. n - m <= n - x
    BY <1>2, <1>3
  <2>2. x \in Int /\ m \in Int
    BY <1>a
  <2> QED
    BY <2>1, <2>2
<1>5. \E y \in S : \A x \in S : y >= x
  BY <1>4
<1>6. Max(S) \in S /\ \A x \in S : Max(S) >= x
  BY <1>5 DEF Max
<1> QED
  BY <1>6, <1>a

LEMMA UpTo ==
  ASSUME NEW n \in Nat, NEW i \in 1..n
  PROVE  1..i \in SUBSET (1..n) /\ 1..i # {} /\ Max(1..i) = i /\ (1..i) \ {i} = 1..(i - 1)
<1>1. 1..i \in SUBSET (1..n) /\ i \in 1..i
  OBVIOUS
<1>2. Max(1..i) \in 1..i /\ \A x \in 1..i : x <= Max(1..i)
  BY <1>1, GreatestOf
<1>3. Max(1..i) = i
  BY <1>1, <1>2
<1> QED
  BY <1>1, <1>3

LEMMA SameInterval ==
  ASSUME NEW m \in Nat, NEW n \in Nat, 1..m = 1..n
  PROVE  m = n
<1>1. m > n => m \in 1..m /\ m \notin 1..n
  OBVIOUS
<1>2. n > m => n \in 1..n /\ n \notin 1..m
  OBVIOUS
<1> QED
  BY <1>1, <1>2

FunctionOn(f, D) == f = [x \in D |-> f[x]]

LEMMA FunctionIsSeq ==
  ASSUME NEW S, NEW n \in Nat, NEW f \in [1..n -> S]
  PROVE  f \in Seq(S) /\ Len(f) = n /\ DOMAIN f = 1..n
<1>1. f \in Seq(S)
  BY SeqDef
<1>2. Len(f) \in Nat /\ DOMAIN f = 1..Len(f)
  BY <1>1, LenProperties
<1>3. DOMAIN f = 1..n
  OBVIOUS
<1> QED
  BY <1>1, <1>2, <1>3, SameInterval

-----------------------------------------------------------------------------
(* Orders: a finite set in order. *)

StrictOrder(R, S) ==
    /\ \A d \in S : <<d, d>> \notin R
    /\ \A c, d, e \in S : <<c, d>> \in R /\ <<d, e>> \in R => <<c, e>> \in R
    /\ \A d, e \in S : d = e \/ <<d, e>> \in R \/ <<e, d>> \in R

BelowIn(R, S, e) == {d \in S : <<d, e>> \in R}

(* A member has fewer below it than there are members, and more than those *)
(* below it have.                                                          *)
LEMMA Places ==
  ASSUME NEW S, IsFiniteSet(S), NEW R, StrictOrder(R, S)
  PROVE  /\ \A e \in S : Cardinality(BelowIn(R, S, e)) \in 0..(Cardinality(S) - 1)
         /\ \A d, e \in S : <<d, e>> \in R <=>
                Cardinality(BelowIn(R, S, d)) < Cardinality(BelowIn(R, S, e))
<1>0. Cardinality(S) \in Nat
  BY FS_CardinalityType
<1>1. ASSUME NEW e \in S
      PROVE  /\ IsFiniteSet(BelowIn(R, S, e)) /\ Cardinality(BelowIn(R, S, e)) \in Nat
             /\ Cardinality(BelowIn(R, S, e)) \in 0..(Cardinality(S) - 1)
  <2>1. IsFiniteSet(S \ {e}) /\ Cardinality(S \ {e}) = Cardinality(S) - 1
    BY FS_RemoveElement
  <2>2. BelowIn(R, S, e) \in SUBSET (S \ {e})
    BY DEF BelowIn, StrictOrder
  <2>3. IsFiniteSet(BelowIn(R, S, e)) /\ Cardinality(BelowIn(R, S, e)) <= Cardinality(S) - 1
    BY <2>1, <2>2, FS_Subset
  <2>4. Cardinality(BelowIn(R, S, e)) \in Nat
    BY <2>3, FS_CardinalityType
  <2> QED
    BY <1>0, <2>3, <2>4
<1>2. ASSUME NEW d \in S, NEW e \in S, <<d, e>> \in R
      PROVE  Cardinality(BelowIn(R, S, d)) < Cardinality(BelowIn(R, S, e))
  <2>1. IsFiniteSet(BelowIn(R, S, e) \ {d})
        /\ Cardinality(BelowIn(R, S, e) \ {d}) = Cardinality(BelowIn(R, S, e)) - 1
    <3>1. d \in BelowIn(R, S, e)
      BY <1>2 DEF BelowIn
    <3> QED
      BY <1>1, <3>1, FS_RemoveElement
  <2>2. BelowIn(R, S, d) \in SUBSET (BelowIn(R, S, e) \ {d})
    <3>1. ASSUME NEW c \in BelowIn(R, S, d)
          PROVE  c \in BelowIn(R, S, e) /\ c # d
      BY <1>2, <3>1 DEF BelowIn, StrictOrder
    <3> QED
      BY <3>1
  <2>3. Cardinality(BelowIn(R, S, d)) <= Cardinality(BelowIn(R, S, e)) - 1
    BY <2>1, <2>2, FS_Subset
  <2> QED
    BY <1>1, <2>3
<1>3. ASSUME NEW d \in S, NEW e \in S,
             Cardinality(BelowIn(R, S, d)) < Cardinality(BelowIn(R, S, e))
      PROVE  <<d, e>> \in R
  <2>1. d # e
    BY <1>1, <1>3
  <2>2. CASE <<e, d>> \in R
    <3>1. Cardinality(BelowIn(R, S, e)) < Cardinality(BelowIn(R, S, d))
      BY <1>2, <2>2
    <3> QED
      BY <1>1, <1>3, <3>1
  <2> QED
    BY <2>1, <2>2 DEF StrictOrder
<1> QED
  BY <1>1, <1>2, <1>3

(* And every place is some member's. *)
LEMMA PlacesAreTaken ==
  ASSUME NEW S, IsFiniteSet(S), NEW R, StrictOrder(R, S), NEW i \in 1..Cardinality(S)
  PROVE  \E e \in S : Cardinality(BelowIn(R, S, e)) = i - 1
<1> DEFINE n == Cardinality(S)
           T == 0..(n - 1)
           place == [e \in S |-> Cardinality(BelowIn(R, S, e))]
<1>1. n \in Nat
  BY FS_CardinalityType
<1>2. IsFiniteSet(T) /\ Cardinality(T) = n
  <2>1. 0 \in Int /\ n - 1 \in Int
    BY <1>1
  <2> QED
    BY <1>1, <2>1, FS_Interval
<1>3. place \in [S -> T]
  BY Places
<1>4. ASSUME NEW d \in S, NEW e \in S, place[d] = place[e]
      PROVE  d = e
  <2>1. place[d] \in Int /\ place[e] \in Int
    BY <1>3
  <2>2. <<d, e>> \notin R /\ <<e, d>> \notin R
    BY <1>4, <2>1, Places
  <2> QED
    BY <2>2 DEF StrictOrder
<1>5. place \in Injection(S, T)
  BY <1>3, <1>4 DEF Injection, IsInjective
<1>6. place \in Surjection(S, T)
  BY <1>2, <1>5, FS_Injection
<1>7. i - 1 \in T
  BY <1>1
<1>8. \E e \in S : place[e] = i - 1
  BY <1>6, <1>7 DEF Surjection
<1> QED
  BY <1>8

(* q lists the members of S in the order R. *)
InOrder(q, R, S) ==
    /\ q \in Seq(S) /\ Len(q) = Cardinality(S)
    /\ \A e \in S : \E i \in DOMAIN q : q[i] = e
    /\ \A i, j \in DOMAIN q : i < j <=> <<q[i], q[j]>> \in R

LEMMA ListedInOrder ==
  ASSUME NEW S, IsFiniteSet(S), NEW R, StrictOrder(R, S), NEW q,
         q = [i \in 1..Cardinality(S) |-> q[i]],
         \A i \in 1..Cardinality(S) : q[i] \in S /\ Cardinality(BelowIn(R, S, q[i])) = i - 1
  PROVE  InOrder(q, R, S)
<1> DEFINE n == Cardinality(S)
<1>1. n \in Nat
  BY FS_CardinalityType
<1>2. q \in Seq(S) /\ Len(q) = n /\ DOMAIN q = 1..n
  <2>1. q \in [1..n -> S]
    OBVIOUS
  <2> HIDE DEF n
  <2> QED
    BY <1>1, <2>1, FunctionIsSeq
<1>3. ASSUME NEW e \in S
      PROVE  \E i \in DOMAIN q : q[i] = e
  <2> DEFINE k == Cardinality(BelowIn(R, S, e))
  <2>1. k \in 0..(n - 1)
    BY Places
  <2>2. k + 1 \in 1..n /\ (k + 1) - 1 = k
    BY <1>1, <2>1
  <2>3. q[k + 1] \in S /\ Cardinality(BelowIn(R, S, q[k + 1])) = k
    BY <2>2
  <2>4. ~(Cardinality(BelowIn(R, S, q[k + 1])) < k) /\ ~(k < Cardinality(BelowIn(R, S, q[k + 1])))
    BY <2>1, <2>3
  <2>5. <<e, q[k + 1]>> \notin R /\ <<q[k + 1], e>> \notin R
    BY <2>3, <2>4, Places
  <2>6. q[k + 1] = e
    BY <2>3, <2>5 DEF StrictOrder
  <2> QED
    BY <1>2, <2>2, <2>6
<1>4. ASSUME NEW i \in DOMAIN q, NEW j \in DOMAIN q
      PROVE  i < j <=> <<q[i], q[j]>> \in R
  <2>1. i \in 1..n /\ j \in 1..n
    BY <1>2
  <2>2. q[i] \in S /\ q[j] \in S
    BY <2>1
  <2>3. Cardinality(BelowIn(R, S, q[i])) = i - 1 /\ Cardinality(BelowIn(R, S, q[j])) = j - 1
    BY <2>1
  <2>4. <<q[i], q[j]>> \in R <=> i - 1 < j - 1
    BY <2>2, <2>3, Places
  <2> QED
    BY <1>1, <2>1, <2>4
<1> QED
  BY <1>2, <1>3, <1>4 DEF InOrder

LEMMA ChosenInOrder ==
  ASSUME NEW S, IsFiniteSet(S), NEW R, StrictOrder(R, S), NEW before,
         \A e \in S : before[e] = Cardinality(BelowIn(R, S, e)), NEW q,
         FunctionOn(q, 1..Cardinality(S)),
         \A i \in 1..Cardinality(S) :
             (\E e \in S : before[e] = i - 1) => q[i] \in S /\ before[q[i]] = i - 1
  PROVE  InOrder(q, R, S)
<1>1. ASSUME NEW i \in 1..Cardinality(S)
      PROVE  q[i] \in S /\ Cardinality(BelowIn(R, S, q[i])) = i - 1
  <2>1. \E e \in S : before[e] = i - 1
    BY PlacesAreTaken
  <2>2. q[i] \in S /\ before[q[i]] = i - 1
    BY <2>1
  <2> QED
    BY <2>2
<1>2. q = [i \in 1..Cardinality(S) |-> q[i]]
  BY DEF FunctionOn
<1> QED
  BY <1>1, <1>2, ListedInOrder

(* FoldLeft: there is a function that folds, and it goes along the sequence. *)

Folds(g, n, base, op) ==
    \A s \in SUBSET (1..n) : g[s] = IF s = {} THEN base ELSE op[<<Max(s), g[s \ {Max(s)}]>>]

LEMMA FoldExists ==
  ASSUME NEW n \in Nat, NEW Acc, NEW base \in Acc, NEW op \in [(1..n) \X Acc -> Acc]
  PROVE  \E g \in [SUBSET (1..n) -> Acc] : Folds(g, n, base, op)
<1> DEFINE G == {m \in 0..n : \E g \in [SUBSET (1..m) -> Acc] : Folds(g, m, base, op)}
<1>1. 0 \in G
  <2> DEFINE g == [s \in SUBSET (1..0) |-> base]
  <2>1. \A s \in SUBSET (1..0) : s = {}
    <3>1. 1..0 = {}
      OBVIOUS
    <3> QED
      BY <3>1
  <2>2. g \in [SUBSET (1..0) -> Acc] /\ Folds(g, 0, base, op)
    BY <2>1 DEF Folds
  <2> QED
    BY <2>2
<1>2. ASSUME NEW i \in 1..n, i - 1 \in G
      PROVE  i \in G
  <2>1. PICK g \in [SUBSET (1..(i - 1)) -> Acc] : Folds(g, i - 1, base, op)
    BY <1>2
  <2> DEFINE Low == SUBSET (1..(i - 1))
             h == [s \in SUBSET (1..i) |-> IF s \in Low THEN g[s] ELSE op[<<i, g[s \ {i}]>>]]
  <2>2. ASSUME NEW s \in SUBSET (1..i), s \notin Low
        PROVE  s # {} /\ Max(s) = i /\ s \ {i} \in Low
    <3>1. i \in s
      <4>1. \A x \in s : x \in 1..i
        OBVIOUS
      <4>2. i \notin s => \A x \in s : x \in 1..(i - 1)
        BY <4>1
      <4> QED
        BY <2>2, <4>2
    <3>2. Max(s) \in s /\ \A x \in s : x <= Max(s)
      <4>1. i \in Nat
        OBVIOUS
      <4> QED
        BY <3>1, <4>1, GreatestOf
    <3>3. Max(s) = i
      <4>1. Max(s) \in 1..i /\ i <= Max(s)
        BY <3>1, <3>2
      <4> QED
        BY <4>1
    <3>4. \A x \in s \ {i} : x \in 1..(i - 1)
      OBVIOUS
    <3> QED
      BY <3>1, <3>3, <3>4
  <2>3. ASSUME NEW s \in Low, s # {}
        PROVE  Max(s) \in s /\ s \ {Max(s)} \in Low
    <3>1. i - 1 \in Nat
      OBVIOUS
    <3> QED
      BY <2>3, <3>1, GreatestOf
  <2>4. \A s \in SUBSET (1..i) : h[s] \in Acc
    <3>1. \A s \in Low : g[s] \in Acc
      OBVIOUS
    <3>2. i \in 1..n /\ \A a \in Acc : op[<<i, a>>] \in Acc
      OBVIOUS
    <3> HIDE DEF Low
    <3> QED
      BY <2>2, <3>1, <3>2
  <2>5. h \in [SUBSET (1..i) -> Acc]
    BY <2>4
  <2>6. \A s \in Low : s \in SUBSET (1..i)
    OBVIOUS
  <2>7. ASSUME NEW s \in SUBSET (1..i)
        PROVE  h[s] = IF s = {} THEN base ELSE op[<<Max(s), h[s \ {Max(s)}]>>]
    <3>1. CASE s \in Low
      <4>1. h[s] = g[s]
        BY <3>1
      <4>2. g[s] = IF s = {} THEN base ELSE op[<<Max(s), g[s \ {Max(s)}]>>]
        BY <2>1, <3>1 DEF Folds
      <4>3. s # {} => h[s \ {Max(s)}] = g[s \ {Max(s)}]
        BY <2>3, <2>6, <3>1
      <4> HIDE DEF h
      <4> QED
        BY <4>1, <4>2, <4>3
    <3>2. CASE s \notin Low
      <4>1. s # {} /\ Max(s) = i /\ s \ {i} \in Low
        BY <2>2, <3>2
      <4>2. h[s] = op[<<i, g[s \ {i}]>>]
        BY <3>2
      <4>3. h[s \ {i}] = g[s \ {i}]
        BY <2>6, <4>1
      <4> HIDE DEF h
      <4> QED
        BY <4>1, <4>2, <4>3
    <3> QED
      BY <3>1, <3>2
  <2> HIDE DEF h
  <2>8. Folds(h, i, base, op)
    BY <2>7 DEF Folds
  <2> QED
    BY <2>5, <2>8
<1> HIDE DEF G
<1>3. n \in G
  <2>1. 0..n \subseteq G
    BY <1>1, <1>2, Reached
  <2> QED
    BY <2>1
<1> QED
  BY <1>3 DEF G

(* A function that goes along a sequence. *)
Run(a, n, Acc, base, op) ==
    a \in [0..n -> Acc] /\ a[0] = base /\ \A i \in 1..n : a[i] = op[<<i, a[i - 1]>>]

LEMMA RunExists ==
  ASSUME NEW n \in Nat, NEW Acc, NEW base \in Acc, NEW op \in [(1..n) \X Acc -> Acc]
  PROVE  \E a : Run(a, n, Acc, base, op)
<1>1. PICK g \in [SUBSET (1..n) -> Acc] : Folds(g, n, base, op)
  BY FoldExists
<1> DEFINE a == [i \in 0..n |-> g[1..i]]
<1>2. \A i \in 0..n : 1..i \in SUBSET (1..n)
  OBVIOUS
<1>3. a \in [0..n -> Acc]
  BY <1>2
<1>4. a[0] = base
  <2>1. 1..0 = {} /\ 0 \in 0..n
    OBVIOUS
  <2> QED
    BY <1>1, <2>1 DEF Folds
<1>5. ASSUME NEW i \in 1..n
      PROVE  a[i] = op[<<i, a[i - 1]>>]
  <2>1. 1..i \in SUBSET (1..n) /\ 1..i # {} /\ Max(1..i) = i /\ (1..i) \ {i} = 1..(i - 1)
    BY UpTo
  <2>2. g[1..i] = op[<<Max(1..i), g[(1..i) \ {Max(1..i)}]>>]
    BY <1>1, <2>1 DEF Folds
  <2>3. i \in 0..n /\ i - 1 \in 0..n
    OBVIOUS
  <2> QED
    BY <2>1, <2>2, <2>3
<1> HIDE DEF a
<1> QED
  BY <1>3, <1>4, <1>5 DEF Run

LEMMA SeqFacts ==
  ASSUME NEW S, NEW s \in Seq(S)
  PROVE  /\ Len(s) \in Nat /\ DOMAIN s = 1..Len(s) /\ s \in [1..Len(s) -> S]
         /\ \A i \in DOMAIN s : s[i] \in S
         /\ s # <<>> <=> Len(s) > 0
<1>1. Len(s) \in Nat /\ DOMAIN s = 1..Len(s) /\ s \in [1..Len(s) -> S]
  BY LenProperties
<1>2. s = <<>> <=> Len(s) = 0
  <2>1. s # <<>> => Len(s) \in Nat \ {0}
    BY EmptySeq
  <2>2. Len(<<>>) = 0
    BY EmptySeq
  <2> QED
    BY <2>1, <2>2
<1> QED
  BY <1>1, <1>2

LEMMA TruncateSeq ==
  ASSUME NEW S, NEW s \in Seq(S), NEW n \in Nat
  PROVE  /\ Truncate(s, n) \in Seq(S) /\ Len(Truncate(s, n)) = Min2(n, Len(s))
         /\ DOMAIN Truncate(s, n) = 1..Min2(n, Len(s))
         /\ \A i \in DOMAIN Truncate(s, n) : i \in DOMAIN s /\ Truncate(s, n)[i] = s[i]
<1> DEFINE m == IF n < Len(s) THEN n ELSE Len(s)
<1>1. Len(s) \in Nat /\ DOMAIN s = 1..Len(s) /\ \A i \in DOMAIN s : s[i] \in S
  BY SeqFacts
<1>2. m \in Nat /\ m = Min2(n, Len(s)) /\ \A i \in 1..m : i \in DOMAIN s /\ s[i] \in S
  BY <1>1 DEF Min2
<1>3. Truncate(s, n) = SubSeq(s, 1, m)
  BY DEF Truncate
<1> HIDE DEF m
<1>4. /\ SubSeq(s, 1, m) \in Seq(S)
      /\ Len(SubSeq(s, 1, m)) = (IF 1 <= m THEN m - 1 + 1 ELSE 0)
      /\ \A i \in 1..(m - 1 + 1) : SubSeq(s, 1, m)[i] = s[1 + i - 1]
  <2>1. 1 \in Int /\ m \in Int
    BY <1>2
  <2> QED
    BY <1>2, <2>1, SubSeqProperties
<1>5. Len(SubSeq(s, 1, m)) = m /\ m - 1 + 1 = m
  BY <1>2, <1>4
<1>6. DOMAIN SubSeq(s, 1, m) = 1..m
  BY <1>4, <1>5, LenProperties
<1>7. \A i \in 1..m : SubSeq(s, 1, m)[i] = s[i]
  BY <1>2, <1>4, <1>5
<1> QED
  BY <1>2, <1>3, <1>4, <1>5, <1>6, <1>7

LEMMA TypeRanks ==
  /\ \A t \in ToSet(TypeOrder) : TypeRank[t] \in Int
  /\ \A t, u \in ToSet(TypeOrder) : TypeRank[t] = TypeRank[u] => t = u
<1>1. ASSUME NEW t \in ToSet(TypeOrder)
      PROVE  TypeRank[t] \in DOMAIN TypeOrder /\ TypeOrder[TypeRank[t]] = t
  <2>1. \E i \in DOMAIN TypeOrder : TypeOrder[i] = t
    BY DEF ToSet
  <2>2. TypeRank[t] = CHOOSE i \in DOMAIN TypeOrder : TypeOrder[i] = t
    BY DEF TypeRank
  <2> HIDE DEF TypeOrder, TypeRank
  <2> QED
    BY <2>1, <2>2
<1>2. DOMAIN TypeOrder \subseteq Int
  BY DEF TypeOrder
<1>3. \A t \in ToSet(TypeOrder) : TypeRank[t] \in Int
  BY <1>1, <1>2
<1>4. \A t, u \in ToSet(TypeOrder) : TypeRank[t] = TypeRank[u] => t = u
  BY <1>1
<1> QED
  BY <1>3, <1>4

(* The first rows of a set: as many as there are and are asked for, each   *)
(* once.                                                                   *)
NoRepeats(s) == \A i, j \in DOMAIN s : s[i] = s[j] => i = j

FirstOf(s, S, limit) ==
    /\ s \in Seq(S) /\ NoRepeats(s) /\ Len(s) = Min2(limit, Cardinality(S))
    /\ Cardinality(S) <= limit => S \subseteq ToSet(s)

LEMMA FirstRowsChosen ==
  ASSUME NEW S, IsFiniteSet(S), NEW R, StrictOrder(R, S), NEW before,
         \A e \in S : before[e] = Cardinality(BelowIn(R, S, e)), NEW q,
         FunctionOn(q, 1..Cardinality(S)),
         \A i \in 1..Cardinality(S) :
             (\E e \in S : before[e] = i - 1) => q[i] \in S /\ before[q[i]] = i - 1,
         NEW limit \in Nat
  PROVE  FirstOf(Truncate(q, limit), S, limit)
<1> DEFINE s == Truncate(q, limit)
<1>1. InOrder(q, R, S)
  BY ChosenInOrder
<1>2. q \in Seq(S) /\ Len(q) = Cardinality(S) /\ DOMAIN q = 1..Len(q) /\ Len(q) \in Nat
  BY <1>1, SeqFacts DEF InOrder
<1>3. /\ s \in Seq(S) /\ Len(s) = Min2(limit, Len(q)) /\ DOMAIN s = 1..Min2(limit, Len(q))
      /\ \A i \in DOMAIN s : i \in DOMAIN q /\ s[i] = q[i]
  BY <1>2, TruncateSeq
<1> HIDE DEF s
<1>4. ASSUME NEW i \in DOMAIN q, NEW j \in DOMAIN q, q[i] = q[j]
      PROVE  i = j
  <2>1. q[i] \in S /\ <<q[i], q[i]>> \notin R
    BY <1>2, SeqFacts DEF StrictOrder
  <2>2. ~(i < j) /\ ~(j < i)
    BY <1>1, <1>4, <2>1 DEF InOrder
  <2> QED
    BY <1>2, <2>2
<1>5. NoRepeats(s)
  BY <1>3, <1>4 DEF NoRepeats
<1>6. ASSUME Cardinality(S) <= limit, NEW e \in S
      PROVE  e \in ToSet(s)
  <2>1. PICK i \in DOMAIN q : q[i] = e
    BY <1>1 DEF InOrder
  <2>2. Min2(limit, Len(q)) = Len(q)
    BY <1>2, <1>6 DEF Min2
  <2>3. i \in DOMAIN s /\ s[i] = e
    BY <1>2, <1>3, <2>1, <2>2
  <2> QED
    BY <2>3 DEF ToSet
<1>7. FirstOf(s, S, limit)
  BY <1>2, <1>3, <1>5, <1>6 DEF FirstOf
<1> QED
  BY <1>7 DEF s

-----------------------------------------------------------------------------
(* The edges of a symbol in the order of the queries. *)

Graph(E) ==
    /\ IsFiniteSet(E) /\ UniqueKeys(E)
    /\ \A e \in E : e.from \in Int /\ e.to \in Int /\ e.type \in ToSet(TypeOrder)

TypesInOrder(S, other) ==
    {p \in S \X S : TypeBefore(p[1], p[2]) \/ (p[1].type = p[2].type /\ other[p[1]] < other[p[2]])}

LEMMA EdgesInOrder ==
  ASSUME NEW S, \A e \in S : e.type \in ToSet(TypeOrder), NEW other \in [S -> Int],
         \A d, e \in S : d.type = e.type /\ other[d] = other[e] => d = e
  PROVE  StrictOrder(TypesInOrder(S, other), S)
<1> DEFINE R == TypesInOrder(S, other)
           kind == [e \in S |-> TypeRank[e.type]]
<1>1. \A e \in S : e.type \in ToSet(TypeOrder)
  OBVIOUS
<1>2. \A e \in S : kind[e] \in Int /\ other[e] \in Int
  BY <1>1, TypeRanks
<1>3. \A d, e \in S : d.type = e.type <=> kind[d] = kind[e]
  BY <1>1, TypeRanks
<1>4. \A d, e \in S : <<d, e>> \in R <=> kind[d] < kind[e] \/ (kind[d] = kind[e] /\ other[d] < other[e])
  <2>1. ASSUME NEW d \in S, NEW e \in S
        PROVE  <<d, e>> \in R <=> kind[d] < kind[e] \/ (kind[d] = kind[e] /\ other[d] < other[e])
    <3>1. <<d, e>> \in R <=> TypeBefore(d, e) \/ (d.type = e.type /\ other[d] < other[e])
      BY DEF TypesInOrder
    <3>2. TypeBefore(d, e) <=> kind[d] < kind[e]
      BY DEF TypeBefore
    <3> QED
      BY <1>3, <3>1, <3>2
  <2> QED
    BY <2>1
<1>5. \A d, e \in S : kind[d] = kind[e] /\ other[d] = other[e] => d = e
  BY <1>3
<1> HIDE DEF R, kind
<1>6. \A d \in S : <<d, d>> \notin R
  BY <1>2, <1>4
<1>7. \A c, d, e \in S : <<c, d>> \in R /\ <<d, e>> \in R => <<c, e>> \in R
  BY <1>2, <1>4
<1>8. ASSUME NEW d \in S, NEW e \in S, d # e
      PROVE  <<d, e>> \in R \/ <<e, d>> \in R
  <2>1. kind[d] < kind[e] \/ kind[e] < kind[d] \/ kind[d] = kind[e]
    BY <1>2
  <2>2. kind[d] = kind[e] => other[d] < other[e] \/ other[e] < other[d]
    BY <1>2, <1>5, <1>8
  <2> QED
    BY <1>4, <2>1, <2>2
<1>9. StrictOrder(R, S)
  BY <1>6, <1>7, <1>8 DEF StrictOrder
<1> QED
  BY <1>9 DEF R

LEMMA ListedFrom ==
  ASSUME NEW E, Graph(E), NEW id, NEW limit \in Nat
  PROVE  FirstOf(ListEdgesFrom(E, id, limit), {e \in E : e.from = id}, limit)
<1> DEFINE S == {e \in E : e.from = id}
           B(d, e) == TypeBefore(d, e) \/ (d.type = e.type /\ d.to < e.to)
           before == [e \in S |-> Cardinality({d \in S : B(d, e)})]
           q == [i \in 1..Cardinality(S) |-> CHOOSE e \in S : before[e] = i - 1]
           other == [e \in S |-> e.to]
           R == TypesInOrder(S, other)
<1>1. ListEdgesFrom(E, id, limit) = Truncate(q, limit)
  BY DEF ListEdgesFrom, FirstRows, Sorted
<1>2. IsFiniteSet(S)
  BY FS_Subset DEF Graph
<1>3. \A e \in S : e.to \in Int /\ e.from = id /\ e.type \in ToSet(TypeOrder)
  BY DEF Graph
<1>4. \A d, e \in S : <<d, e>> \in R <=> B(d, e)
  BY DEF TypesInOrder
<1>5. StrictOrder(R, S)
  <2>1. other \in [S -> Int]
    BY <1>3
  <2>2. \A d, e \in S : d.type = e.type /\ other[d] = other[e] => d = e
    BY DEF Graph, UniqueKeys, Key
  <2> HIDE DEF other, S
  <2> QED
    BY <1>3, <2>1, <2>2, EdgesInOrder
<1> HIDE DEF R, B, S
<1>6. \A e \in S : before[e] = Cardinality(BelowIn(R, S, e))
  <2>1. ASSUME NEW e \in S
        PROVE  {d \in S : B(d, e)} = BelowIn(R, S, e)
    BY <1>4 DEF BelowIn
  <2> QED
    BY <2>1
<1> HIDE DEF before
<1>7. \A i \in 1..Cardinality(S) : (\E e \in S : before[e] = i - 1) => q[i] \in S /\ before[q[i]] = i - 1
  OBVIOUS
<1>8. FunctionOn(q, 1..Cardinality(S))
  BY DEF FunctionOn
<1> HIDE DEF q
<1>9. FirstOf(Truncate(q, limit), S, limit)
  BY <1>2, <1>5, <1>6, <1>7, <1>8, FirstRowsChosen
<1> QED
  BY <1>1, <1>9 DEF S

LEMMA ListedTo ==
  ASSUME NEW E, Graph(E), NEW id, NEW limit \in Nat
  PROVE  FirstOf(ListEdgesTo(E, id, limit), {e \in E : e.to = id}, limit)
<1> DEFINE S == {e \in E : e.to = id}
           B(d, e) == TypeBefore(d, e) \/ (d.type = e.type /\ d.from < e.from)
           before == [e \in S |-> Cardinality({d \in S : B(d, e)})]
           q == [i \in 1..Cardinality(S) |-> CHOOSE e \in S : before[e] = i - 1]
           other == [e \in S |-> e.from]
           R == TypesInOrder(S, other)
<1>1. ListEdgesTo(E, id, limit) = Truncate(q, limit)
  BY DEF ListEdgesTo, FirstRows, Sorted
<1>2. IsFiniteSet(S)
  BY FS_Subset DEF Graph
<1>3. \A e \in S : e.from \in Int /\ e.to = id /\ e.type \in ToSet(TypeOrder)
  BY DEF Graph
<1>4. \A d, e \in S : <<d, e>> \in R <=> B(d, e)
  BY DEF TypesInOrder
<1>5. StrictOrder(R, S)
  <2>1. other \in [S -> Int]
    BY <1>3
  <2>2. \A d, e \in S : d.type = e.type /\ other[d] = other[e] => d = e
    BY DEF Graph, UniqueKeys, Key
  <2> HIDE DEF other, S
  <2> QED
    BY <1>3, <2>1, <2>2, EdgesInOrder
<1> HIDE DEF R, B, S
<1>6. \A e \in S : before[e] = Cardinality(BelowIn(R, S, e))
  <2>1. ASSUME NEW e \in S
        PROVE  {d \in S : B(d, e)} = BelowIn(R, S, e)
    BY <1>4 DEF BelowIn
  <2> QED
    BY <2>1
<1> HIDE DEF before
<1>7. \A i \in 1..Cardinality(S) : (\E e \in S : before[e] = i - 1) => q[i] \in S /\ before[q[i]] = i - 1
  OBVIOUS
<1>8. FunctionOn(q, 1..Cardinality(S))
  BY DEF FunctionOn
<1> HIDE DEF q
<1>9. FirstOf(Truncate(q, limit), S, limit)
  BY <1>2, <1>5, <1>6, <1>7, <1>8, FirstRowsChosen
<1> QED
  BY <1>1, <1>9 DEF S

-----------------------------------------------------------------------------
(* Traversals: what is listed and visited when some edges have been looked *)
(* at, each with the end it leads to.                                      *)

LEMMA OneMore ==
  ASSUME NEW S, NEW s \in Seq(S), NEW x \in S
  PROVE  /\ Append(s, x) \in Seq(S) /\ Len(Append(s, x)) = Len(s) + 1
         /\ ToSet(Append(s, x)) = ToSet(s) \cup {x}
         /\ NoRepeats(s) /\ x \notin ToSet(s) => NoRepeats(Append(s, x))
<1> DEFINE t == Append(s, x)
           n == Len(s)
<1>1. n \in Nat /\ DOMAIN s = 1..n
  BY LenProperties
<1>2. /\ t \in Seq(S) /\ Len(t) = n + 1 /\ t[n + 1] = x
      /\ \A i \in 1..n : t[i] = s[i]
  BY AppendProperties
<1>3. DOMAIN t = 1..(n + 1)
  BY <1>2, LenProperties
<1>4. \A i \in 1..(n + 1) : i \in 1..n \/ i = n + 1
  BY <1>1
<1>5. n + 1 \in 1..(n + 1) /\ \A i \in 1..n : i \in 1..(n + 1)
  BY <1>1
<1> HIDE DEF t, n
<1>6. ToSet(t) = ToSet(s) \cup {x}
  BY <1>1, <1>2, <1>3, <1>4, <1>5 DEF ToSet
<1>7. ASSUME NoRepeats(s), x \notin ToSet(s)
      PROVE  NoRepeats(t)
  <2>1. \A i \in 1..n : s[i] # x
    BY <1>1, <1>7 DEF ToSet
  <2>2. \A i, j \in 1..n : s[i] = s[j] => i = j
    BY <1>1, <1>7 DEF NoRepeats
  <2> QED
    BY <1>2, <1>3, <1>4, <2>1, <2>2 DEF NoRepeats
<1> QED
  BY <1>2, <1>6, <1>7 DEF t, n

Reaches(E) == [edges : Seq(E), nodes : SUBSET Int, next : Seq(Int)]

(* From acc to r: W has the edges looked at on the way. *)
Grows(q, acc, W, r) ==
    /\ Len(acc.edges) <= q.limit => Len(r.edges) <= q.limit
    /\ acc.nodes \subseteq r.nodes
    /\ \A n \in r.nodes \ acc.nodes :
           \E w \in W : n = w[2] /\ w[1].type \in q.types /\ w[1] \in ToSet(r.edges)
    /\ ToSet(acc.edges) \subseteq ToSet(r.edges)
    /\ \A e \in ToSet(r.edges) \ ToSet(acc.edges) : \E w \in W : e = w[1]
    /\ ToSet(r.next) = ToSet(acc.next) \cup (r.nodes \ acc.nodes)
    /\ NoRepeats(acc.next) /\ ToSet(acc.next) \subseteq acc.nodes => NoRepeats(r.next)
    /\ Len(r.edges) < q.limit =>
           /\ Len(acc.edges) < q.limit
           /\ \A w \in W : w[1].type \in q.types => w[2] \in r.nodes
    /\ IsFiniteSet(acc.nodes) =>
           /\ IsFiniteSet(r.nodes)
           /\ Cardinality(r.nodes) - Cardinality(acc.nodes) <= Len(r.edges) - Len(acc.edges)

(* No edge is listed twice when none that was looked at was listed before. *)
StaysDistinct(acc, W, r) ==
    NoRepeats(acc.edges) /\ (\A w \in W : w[1] \notin ToSet(acc.edges)) => NoRepeats(r.edges)

LEMMA NothingGrows ==
  ASSUME NEW E, NEW q, q.limit \in Nat, NEW acc \in Reaches(E)
  PROVE  Grows(q, acc, {}, acc) /\ StaysDistinct(acc, {}, acc)
<1>1. Len(acc.edges) \in Nat
  BY LenProperties DEF Reaches
<1>2. IsFiniteSet(acc.nodes) => Cardinality(acc.nodes) \in Nat
  BY FS_CardinalityType
<1>3. IsFiniteSet(acc.nodes) => Cardinality(acc.nodes) - Cardinality(acc.nodes) <= Len(acc.edges) - Len(acc.edges)
  BY <1>1, <1>2
<1> QED
  BY <1>3 DEF Grows, StaysDistinct

LEMMA GrowsOn ==
  ASSUME NEW E, NEW q, q.limit \in Nat,
         NEW a \in Reaches(E), NEW b \in Reaches(E), NEW c \in Reaches(E), NEW V, NEW W,
         Grows(q, a, V, b), Grows(q, b, W, c)
  PROVE  Grows(q, a, V \cup W, c)
<1>1. Len(a.edges) \in Nat /\ Len(b.edges) \in Nat /\ Len(c.edges) \in Nat
  BY LenProperties DEF Reaches
<1>2. Len(a.edges) <= q.limit => Len(c.edges) <= q.limit
  BY DEF Grows
<1>3. a.nodes \subseteq b.nodes /\ b.nodes \subseteq c.nodes
  BY DEF Grows
<1>4. ASSUME NEW n \in c.nodes \ a.nodes
      PROVE  \E w \in V \cup W : n = w[2] /\ w[1].type \in q.types /\ w[1] \in ToSet(c.edges)
  <2>1. ToSet(b.edges) \subseteq ToSet(c.edges)
    BY DEF Grows
  <2>2. CASE n \in b.nodes
    <3>1. \E w \in V : n = w[2] /\ w[1].type \in q.types /\ w[1] \in ToSet(b.edges)
      BY <1>4, <2>2 DEF Grows
    <3> QED
      BY <2>1, <3>1
  <2>3. CASE n \notin b.nodes
    BY <1>4, <2>3 DEF Grows
  <2> QED
    BY <2>2, <2>3
<1>5. /\ ToSet(a.edges) \subseteq ToSet(c.edges)
      /\ \A e \in ToSet(c.edges) \ ToSet(a.edges) : \E w \in V \cup W : e = w[1]
  BY DEF Grows
<1>6. /\ ToSet(b.next) = ToSet(a.next) \cup (b.nodes \ a.nodes)
      /\ ToSet(c.next) = ToSet(b.next) \cup (c.nodes \ b.nodes)
  BY DEF Grows
<1>7. ToSet(c.next) = ToSet(a.next) \cup (c.nodes \ a.nodes)
  BY <1>3, <1>6
<1>8. ASSUME NoRepeats(a.next), ToSet(a.next) \subseteq a.nodes
      PROVE  NoRepeats(c.next)
  <2>1. NoRepeats(b.next)
    BY <1>8 DEF Grows
  <2>2. ToSet(b.next) \subseteq b.nodes
    BY <1>3, <1>6, <1>8
  <2> QED
    BY <2>1, <2>2 DEF Grows
<1>9. ASSUME Len(c.edges) < q.limit
      PROVE  /\ Len(a.edges) < q.limit
             /\ \A w \in V \cup W : w[1].type \in q.types => w[2] \in c.nodes
  <2>1. Len(b.edges) < q.limit /\ \A w \in W : w[1].type \in q.types => w[2] \in c.nodes
    BY <1>9 DEF Grows
  <2>2. Len(a.edges) < q.limit /\ \A w \in V : w[1].type \in q.types => w[2] \in b.nodes
    BY <2>1 DEF Grows
  <2> QED
    BY <1>3, <2>1, <2>2
<1>10. ASSUME IsFiniteSet(a.nodes)
       PROVE  /\ IsFiniteSet(c.nodes)
              /\ Cardinality(c.nodes) - Cardinality(a.nodes) <= Len(c.edges) - Len(a.edges)
  <2>1. /\ IsFiniteSet(b.nodes)
        /\ Cardinality(b.nodes) - Cardinality(a.nodes) <= Len(b.edges) - Len(a.edges)
    BY <1>10 DEF Grows
  <2>2. /\ IsFiniteSet(c.nodes)
        /\ Cardinality(c.nodes) - Cardinality(b.nodes) <= Len(c.edges) - Len(b.edges)
    BY <2>1 DEF Grows
  <2>3. Cardinality(a.nodes) \in Nat /\ Cardinality(b.nodes) \in Nat /\ Cardinality(c.nodes) \in Nat
    BY <1>10, <2>1, <2>2, FS_CardinalityType
  <2>4. \A x, y, z, k, m, n \in Nat : y - x <= m - k /\ z - y <= n - m => z - x <= n - k
    OBVIOUS
  <2>5. Cardinality(c.nodes) - Cardinality(a.nodes) <= Len(c.edges) - Len(a.edges)
    BY <1>1, <2>1, <2>2, <2>3, <2>4, Zenon
  <2> QED
    BY <2>2, <2>5
<1> QED
  BY <1>2, <1>3, <1>4, <1>5, <1>7, <1>8, <1>9, <1>10 DEF Grows

LEMMA DistinctOn ==
  ASSUME NEW q, NEW a, NEW b, NEW c, NEW V, NEW W,
         Grows(q, a, V, b), StaysDistinct(a, V, b), StaysDistinct(b, W, c),
         \A v \in V, w \in W : v[1] # w[1]
  PROVE  StaysDistinct(a, V \cup W, c)
<1> SUFFICES ASSUME NoRepeats(a.edges), \A w \in V \cup W : w[1] \notin ToSet(a.edges)
             PROVE  NoRepeats(c.edges)
  BY DEF StaysDistinct
<1>1. NoRepeats(b.edges)
  BY DEF StaysDistinct
<1>2. \A e \in ToSet(b.edges) : e \in ToSet(a.edges) \/ \E v \in V : e = v[1]
  BY DEF Grows
<1>3. \A w \in W : w[1] \notin ToSet(b.edges)
  BY <1>2
<1> QED
  BY <1>1, <1>3 DEF StaysDistinct

EndOf(o, e) == o \in {e.from, e.to}

LEMMA FollowGrows ==
  ASSUME NEW E, Graph(E), NEW q, q.limit \in Nat, NEW acc \in Reaches(E),
         NEW e \in E, NEW other, EndOf(other, e)
  PROVE  /\ Follow(q, acc, e, other) \in Reaches(E)
         /\ Grows(q, acc, {<<e, other>>}, Follow(q, acc, e, other))
         /\ StaysDistinct(acc, {<<e, other>>}, Follow(q, acc, e, other))
<1> DEFINE r == Follow(q, acc, e, other)
           W == {<<e, other>>}
<1>1. Len(acc.edges) \in Nat /\ acc.edges \in Seq(E) /\ acc.next \in Seq(Int) /\ acc.nodes \in SUBSET Int
  BY LenProperties DEF Reaches
<1>2. other \in Int
  BY DEF Graph, EndOf
<1>3. IsFiniteSet(acc.nodes) => Cardinality(acc.nodes) \in Nat
  BY FS_CardinalityType
<1>4. \A w \in W : w[1] = e /\ w[2] = other
  OBVIOUS
<1>5. CASE Len(acc.edges) >= q.limit \/ e.type \notin q.types
  <2>1. r = acc
    BY <1>5 DEF Follow
  <2>2. IsFiniteSet(acc.nodes) =>
            Cardinality(acc.nodes) - Cardinality(acc.nodes) <= Len(acc.edges) - Len(acc.edges)
    BY <1>1, <1>3
  <2>3. Len(acc.edges) < q.limit => e.type \notin q.types
    BY <1>1, <1>5
  <2> HIDE DEF r, W
  <2>4. Grows(q, acc, W, acc)
    BY <1>4, <2>2, <2>3 DEF Grows
  <2> QED
    BY <2>1, <2>4 DEF StaysDistinct, r, W
<1>6. CASE Len(acc.edges) < q.limit /\ e.type \in q.types
  <2>1. r = [edges |-> Append(acc.edges, e), nodes |-> acc.nodes \cup {other},
             next |-> IF other \in acc.nodes THEN acc.next ELSE Append(acc.next, other)]
    <3>1. ~(Len(acc.edges) >= q.limit)
      BY <1>1, <1>6
    <3> QED
      BY <1>6, <3>1 DEF Follow
  <2>2. r.edges = Append(acc.edges, e) /\ r.nodes = acc.nodes \cup {other}
        /\ r.next = IF other \in acc.nodes THEN acc.next ELSE Append(acc.next, other)
    BY <2>1
  <2>3. /\ r.edges \in Seq(E) /\ Len(r.edges) = Len(acc.edges) + 1
        /\ ToSet(r.edges) = ToSet(acc.edges) \cup {e}
        /\ NoRepeats(acc.edges) /\ e \notin ToSet(acc.edges) => NoRepeats(r.edges)
    BY <1>1, <2>2, OneMore
  <2>4. /\ r.next \in Seq(Int) /\ ToSet(r.next) = ToSet(acc.next) \cup (r.nodes \ acc.nodes)
        /\ NoRepeats(acc.next) /\ ToSet(acc.next) \subseteq acc.nodes => NoRepeats(r.next)
    <3>1. CASE other \in acc.nodes
      BY <1>1, <2>2, <3>1
    <3>2. CASE other \notin acc.nodes
      <4>1. r.next = Append(acc.next, other) /\ r.nodes \ acc.nodes = {other}
        BY <2>2, <3>2
      <4> HIDE DEF r, W
      <4>2. /\ Append(acc.next, other) \in Seq(Int)
            /\ ToSet(Append(acc.next, other)) = ToSet(acc.next) \cup {other}
            /\ NoRepeats(acc.next) /\ other \notin ToSet(acc.next) => NoRepeats(Append(acc.next, other))
        BY <1>1, <1>2, OneMore
      <4> QED
        BY <3>2, <4>1, <4>2
    <3> QED
      BY <3>1, <3>2
  <2>5. r \in Reaches(E)
    <3>1. r.nodes \in SUBSET Int
      BY <1>1, <1>2, <2>2
    <3> QED
      BY <2>1, <2>3, <2>4, <3>1 DEF Reaches
  <2>6. ASSUME IsFiniteSet(acc.nodes)
        PROVE  /\ IsFiniteSet(r.nodes)
               /\ Cardinality(r.nodes) - Cardinality(acc.nodes) <= Len(r.edges) - Len(acc.edges)
    <3>1. /\ IsFiniteSet(acc.nodes \cup {other})
          /\ \/ Cardinality(acc.nodes \cup {other}) = Cardinality(acc.nodes)
             \/ Cardinality(acc.nodes \cup {other}) = Cardinality(acc.nodes) + 1
      BY <2>6, FS_AddElement
    <3> HIDE DEF r
    <3>2. \/ Cardinality(r.nodes) = Cardinality(acc.nodes)
          \/ Cardinality(r.nodes) = Cardinality(acc.nodes) + 1
      BY <2>2, <3>1
    <3>3. Cardinality(r.nodes) - Cardinality(acc.nodes) <= 1
      BY <1>3, <2>6, <3>2
    <3>4. Len(r.edges) - Len(acc.edges) = 1
      BY <1>1, <2>3
    <3> QED
      BY <2>2, <3>1, <3>3, <3>4
  <2>7. Len(r.edges) <= q.limit /\ (Len(r.edges) < q.limit => Len(acc.edges) < q.limit)
    BY <1>1, <1>6, <2>3
  <2>8. \A n \in r.nodes \ acc.nodes : n = other
    BY <2>2
  <2> HIDE DEF r
  <2>9. <<e, other>> \in W /\ e \in ToSet(r.edges) /\ other \in r.nodes /\ acc.nodes \subseteq r.nodes
    BY <2>2, <2>3
  <2>10. /\ \A n \in r.nodes \ acc.nodes :
                \E w \in W : n = w[2] /\ w[1].type \in q.types /\ w[1] \in ToSet(r.edges)
         /\ \A x \in ToSet(r.edges) \ ToSet(acc.edges) : \E w \in W : x = w[1]
    <3> HIDE DEF W
    <3> QED
      BY <1>4, <1>6, <2>3, <2>8, <2>9
  <2> HIDE DEF W
  <2>11. Grows(q, acc, W, r)
    BY <1>4, <2>3, <2>4, <2>6, <2>7, <2>9, <2>10 DEF Grows
  <2>12. StaysDistinct(acc, W, r)
    BY <1>4, <2>3, <2>9 DEF StaysDistinct
  <2> QED
    BY <2>5, <2>11, <2>12 DEF r, W
<1>7. Len(acc.edges) >= q.limit \/ Len(acc.edges) < q.limit
  BY <1>1
<1> QED
  BY <1>5, <1>6, <1>7

(* The values of a recursive function on the first parts of a sequence. *)
GoesAlong(iter, n, Acc, base, op) ==
    /\ iter[1..0] = base
    /\ \A i \in 1..n : iter[1..(i - 1)] \in Acc => iter[1..i] = op[<<i, iter[1..(i - 1)]>>]

RunEnds(v, n, Acc, base, op) == \E a : Run(a, n, Acc, base, op) /\ a[n] = v

LEMMA FoldRuns ==
  ASSUME NEW n \in Nat, NEW Acc, NEW base \in Acc, NEW op \in [(1..n) \X Acc -> Acc], NEW iter,
         GoesAlong(iter, n, Acc, base, op)
  PROVE  RunEnds(iter[1..n], n, Acc, base, op)
<1> DEFINE a == [i \in 0..n |-> iter[1..i]]
           G == {i \in 0..n : iter[1..i] \in Acc}
<1>0. iter[1..0] = base
  BY DEF GoesAlong
<1>1. 0 \in G
  BY <1>0
<1>2. ASSUME NEW i \in 1..n, i - 1 \in G
      PROVE  i \in G
  <2>1. iter[1..i] = op[<<i, iter[1..(i - 1)]>>] /\ iter[1..(i - 1)] \in Acc /\ i \in 0..n
    BY <1>2 DEF GoesAlong
  <2> QED
    BY <2>1
<1> HIDE DEF G
<1>3. 0..n \subseteq G
  BY <1>1, <1>2, Reached
<1>4. \A i \in 0..n : iter[1..i] \in Acc
  BY <1>3 DEF G
<1>5. a \in [0..n -> Acc] /\ a[0] = base /\ a[n] = iter[1..n]
  BY <1>0, <1>4
<1>6. \A i \in 1..n : i \in 0..n /\ i - 1 \in 0..n
  OBVIOUS
<1>7. \A i \in 1..n : a[i] = iter[1..i] /\ a[i - 1] = iter[1..(i - 1)]
  BY <1>6
<1> HIDE DEF a
<1>8. \A i \in 1..n : a[i] = op[<<i, a[i - 1]>>]
  BY <1>4, <1>6, <1>7 DEF GoesAlong
<1> QED
  BY <1>5, <1>8 DEF Run, RunEnds

(* Edges followed one after the other, each to one of its ends. *)
LEMMA FollowedInTurn ==
  ASSUME NEW E, Graph(E), NEW q, q.limit \in Nat, NEW s \in Seq(E), NEW n, n = Len(s),
         NEW ends, \A i \in 1..n : ends[i] \in {s[i].from, s[i].to},
         NEW a \in [0..n -> Reaches(E)],
         \A i \in 1..n : a[i] = Follow(q, a[i - 1], s[i], ends[i]),
         NoRepeats(s)
  PROVE  /\ Grows(q, a[0], {<<s[i], ends[i]>> : i \in 1..n}, a[n])
         /\ StaysDistinct(a[0], {<<s[i], ends[i]>> : i \in 1..n}, a[n])
<1> DEFINE W(k) == {<<s[i], ends[i]>> : i \in 1..k}
           G == {k \in 0..n : Grows(q, a[0], W(k), a[k]) /\ StaysDistinct(a[0], W(k), a[k])}
<1>0. n \in Nat /\ DOMAIN s = 1..n /\ \A i \in 1..n : s[i] \in E
  BY SeqFacts
<1>1. 0 \in G
  <2>1. W(0) = {}
    OBVIOUS
  <2>2. a[0] \in Reaches(E) /\ 0 \in 0..n
    BY <1>0
  <2> HIDE DEF W
  <2>3. Grows(q, a[0], W(0), a[0]) /\ StaysDistinct(a[0], W(0), a[0])
    BY <2>1, <2>2, NothingGrows
  <2> QED
    BY <2>2, <2>3
<1>2. ASSUME NEW k \in 1..n, k - 1 \in G
      PROVE  k \in G
  <2>1. k \in 0..n /\ k - 1 \in 0..n /\ 0 \in 0..n
    BY <1>0
  <2>2. a[k] \in Reaches(E) /\ a[k - 1] \in Reaches(E) /\ a[0] \in Reaches(E)
    BY <2>1
  <2>3. Grows(q, a[0], W(k - 1), a[k - 1]) /\ StaysDistinct(a[0], W(k - 1), a[k - 1])
    <3> HIDE DEF W
    <3> QED
      BY <1>2
  <2>4. /\ Grows(q, a[k - 1], {<<s[k], ends[k]>>}, a[k])
        /\ StaysDistinct(a[k - 1], {<<s[k], ends[k]>>}, a[k])
    <3>1. s[k] \in E /\ EndOf(ends[k], s[k])
      BY <1>0 DEF EndOf
    <3>2. a[k] = Follow(q, a[k - 1], s[k], ends[k])
      OBVIOUS
    <3>3. /\ Grows(q, a[k - 1], {<<s[k], ends[k]>>}, Follow(q, a[k - 1], s[k], ends[k]))
          /\ StaysDistinct(a[k - 1], {<<s[k], ends[k]>>}, Follow(q, a[k - 1], s[k], ends[k]))
      BY <2>2, <3>1, FollowGrows, Zenon
    <3> QED
      BY <3>2, <3>3
  <2>5. W(k) = W(k - 1) \cup {<<s[k], ends[k]>>}
    <3>1. 1..k = (1..(k - 1)) \cup {k}
      BY <1>0
    <3> QED
      BY <3>1
  <2>6. \A v \in W(k - 1), w \in {<<s[k], ends[k]>>} : v[1] # w[1]
    <3>1. \A i \in 1..(k - 1) : i \in 1..n /\ i # k
      BY <1>0
    <3>2. \A i \in 1..(k - 1) : s[i] # s[k]
      BY <1>0, <3>1 DEF NoRepeats
    <3> QED
      BY <3>2
  <2> HIDE DEF W
  <2>7. Grows(q, a[0], W(k), a[k])
    BY <2>2, <2>3, <2>4, <2>5, GrowsOn
  <2>8. StaysDistinct(a[0], W(k), a[k])
    BY <2>3, <2>4, <2>5, <2>6, DistinctOn
  <2> QED
    BY <2>1, <2>7, <2>8
<1> HIDE DEF G
<1>3. n \in G
  BY <1>0, <1>1, <1>2, ReachedEnd
<1> QED
  BY <1>3 DEF G

AllDown(q, acc, s) == FoldLeft(LAMBDA a, e : Follow(q, a, e, e.to), acc, s)

LEMMA FollowedDown ==
  ASSUME NEW E, Graph(E), NEW q, q.limit \in Nat, NEW acc \in Reaches(E), NEW s \in Seq(E), NoRepeats(s)
  PROVE  /\ AllDown(q, acc, s) \in Reaches(E)
         /\ Grows(q, acc, {<<e, e.to>> : e \in ToSet(s)}, AllDown(q, acc, s))
         /\ StaysDistinct(acc, {<<e, e.to>> : e \in ToSet(s)}, AllDown(q, acc, s))
<1> DEFINE n == Len(s)
           Acc == Reaches(E)
           Op(a, e) == Follow(q, a, e, e.to)
           op == [p \in (1..n) \X Acc |-> Op(p[2], s[p[1]])]
           F(g) == [S \in SUBSET (1..n) |-> IF S = {} THEN acc ELSE Op(g[S \ {Max(S)}], s[Max(S)])]
           iter == CHOOSE g : g = F(g)
           fold == AllDown(q, acc, s)
<1>0. n \in Nat /\ DOMAIN s = 1..n /\ \A i \in 1..n : s[i] \in E
  BY SeqFacts
<1>1. fold = iter[1..n]
  BY <1>0 DEF AllDown, FoldLeft, MapThenFoldSet
<1>2. ASSUME NEW i \in 1..n, NEW a \in Acc
      PROVE  Op(a, s[i]) \in Acc
  <2>1. s[i] \in E /\ EndOf(s[i].to, s[i]) /\ EndOf(s[i].from, s[i])
    BY <1>0 DEF EndOf
  <2> QED
    BY <2>1, FollowGrows
<1> HIDE DEF fold, Op, Acc, n
<1>3. op \in [(1..n) \X Acc -> Acc]
  BY <1>2
<1>4. acc \in Acc
  BY DEF Acc
<1>5. PICK g \in [SUBSET (1..n) -> Acc] : Folds(g, n, acc, op)
  <2> HIDE DEF op
  <2> QED
    BY <1>0, <1>3, <1>4, FoldExists, Zenon
<1>6. ASSUME NEW S \in SUBSET (1..n), S # {}
      PROVE  op[<<Max(S), g[S \ {Max(S)}]>>] = Op(g[S \ {Max(S)}], s[Max(S)])
  <2>1. Max(S) \in 1..n /\ S \ {Max(S)} \in SUBSET (1..n)
    BY <1>0, <1>6, GreatestOf
  <2>2. g[S \ {Max(S)}] \in Acc
    BY <2>1
  <2> QED
    BY <2>1, <2>2
<1>7. \A i \in 1..n, a \in Acc : op[<<i, a>>] = Op(a, s[i])
  OBVIOUS
<1> HIDE DEF op
<1>8. g = F(g)
  BY <1>5, <1>6 DEF Folds
<1>9. iter = F(iter)
  <2> HIDE DEF F
  <2> QED
    BY <1>8
<1> HIDE DEF iter
<1>10. iter[1..0] = acc
  <2>1. 1..0 = {} /\ {} \in SUBSET (1..n)
    OBVIOUS
  <2>2. iter[{}] = acc
    BY <1>9, <2>1
  <2> QED
    BY <2>1, <2>2
<1>11. ASSUME NEW i \in 1..n, iter[1..(i - 1)] \in Acc
       PROVE  iter[1..i] = op[<<i, iter[1..(i - 1)]>>]
  <2>1. 1..i \in SUBSET (1..n) /\ 1..i # {} /\ Max(1..i) = i /\ (1..i) \ {i} = 1..(i - 1)
    BY <1>0, UpTo
  <2>2. \A S \in SUBSET (1..n) : S # {} => iter[S] = Op(iter[S \ {Max(S)}], s[Max(S)])
    BY <1>9
  <2>3. iter[1..i] = Op(iter[1..(i - 1)], s[i])
    BY <2>1, <2>2
  <2> QED
    BY <1>7, <1>11, <2>3
<1>12. PICK a : Run(a, n, Acc, acc, op) /\ a[n] = iter[1..n]
  <2>1. GoesAlong(iter, n, Acc, acc, op)
    BY <1>10, <1>11 DEF GoesAlong
  <2> HIDE DEF F
  <2>2. RunEnds(iter[1..n], n, Acc, acc, op)
    BY <1>0, <1>3, <1>4, <2>1, FoldRuns, Zenon
  <2> QED
    BY <2>2 DEF RunEnds
<1>13. a \in [0..n -> Acc] /\ a[0] = acc /\ a[n] = fold
  BY <1>1, <1>12 DEF Run
<1>14. \A i \in 1..n : a[i] = Op(a[i - 1], s[i])
  <2>1. \A i \in 1..n : a[i] = op[<<i, a[i - 1]>>] /\ i - 1 \in 0..n
    BY <1>0, <1>12 DEF Run
  <2> QED
    BY <1>7, <1>13, <2>1
<1> DEFINE ends == [i \in 1..n |-> s[i].to]
<1>15. \A i \in 1..n : a[i] = Follow(q, a[i - 1], s[i], ends[i]) /\ ends[i] \in {s[i].from, s[i].to}
  BY <1>14 DEF Op
<1>16. {<<s[i], ends[i]>> : i \in 1..n} = {<<e, e.to>> : e \in ToSet(s)}
  BY <1>0 DEF ToSet
<1> HIDE DEF ends
<1>17. /\ Grows(q, a[0], {<<s[i], ends[i]>> : i \in 1..n}, a[n])
       /\ StaysDistinct(a[0], {<<s[i], ends[i]>> : i \in 1..n}, a[n])
  <2>1. n = Len(s) /\ a \in [0..n -> Reaches(E)]
    BY <1>13 DEF n, Acc
  <2> QED
    BY <1>15, <2>1, FollowedInTurn
<1>18. fold \in Reaches(E)
  BY <1>0, <1>13 DEF Acc
<1> QED
  BY <1>13, <1>16, <1>17, <1>18 DEF fold

AllUp(q, acc, s) == FoldLeft(LAMBDA a, e : Follow(q, a, e, e.from), acc, s)

LEMMA FollowedUp ==
  ASSUME NEW E, Graph(E), NEW q, q.limit \in Nat, NEW acc \in Reaches(E), NEW s \in Seq(E), NoRepeats(s)
  PROVE  /\ AllUp(q, acc, s) \in Reaches(E)
         /\ Grows(q, acc, {<<e, e.from>> : e \in ToSet(s)}, AllUp(q, acc, s))
         /\ StaysDistinct(acc, {<<e, e.from>> : e \in ToSet(s)}, AllUp(q, acc, s))
<1> DEFINE n == Len(s)
           Acc == Reaches(E)
           Op(a, e) == Follow(q, a, e, e.from)
           op == [p \in (1..n) \X Acc |-> Op(p[2], s[p[1]])]
           F(g) == [S \in SUBSET (1..n) |-> IF S = {} THEN acc ELSE Op(g[S \ {Max(S)}], s[Max(S)])]
           iter == CHOOSE g : g = F(g)
           fold == AllUp(q, acc, s)
<1>0. n \in Nat /\ DOMAIN s = 1..n /\ \A i \in 1..n : s[i] \in E
  BY SeqFacts
<1>1. fold = iter[1..n]
  BY <1>0 DEF AllUp, FoldLeft, MapThenFoldSet
<1>2. ASSUME NEW i \in 1..n, NEW a \in Acc
      PROVE  Op(a, s[i]) \in Acc
  <2>1. s[i] \in E /\ EndOf(s[i].to, s[i]) /\ EndOf(s[i].from, s[i])
    BY <1>0 DEF EndOf
  <2> QED
    BY <2>1, FollowGrows
<1> HIDE DEF fold, Op, Acc, n
<1>3. op \in [(1..n) \X Acc -> Acc]
  BY <1>2
<1>4. acc \in Acc
  BY DEF Acc
<1>5. PICK g \in [SUBSET (1..n) -> Acc] : Folds(g, n, acc, op)
  <2> HIDE DEF op
  <2> QED
    BY <1>0, <1>3, <1>4, FoldExists, Zenon
<1>6. ASSUME NEW S \in SUBSET (1..n), S # {}
      PROVE  op[<<Max(S), g[S \ {Max(S)}]>>] = Op(g[S \ {Max(S)}], s[Max(S)])
  <2>1. Max(S) \in 1..n /\ S \ {Max(S)} \in SUBSET (1..n)
    BY <1>0, <1>6, GreatestOf
  <2>2. g[S \ {Max(S)}] \in Acc
    BY <2>1
  <2> QED
    BY <2>1, <2>2
<1>7. \A i \in 1..n, a \in Acc : op[<<i, a>>] = Op(a, s[i])
  OBVIOUS
<1> HIDE DEF op
<1>8. g = F(g)
  BY <1>5, <1>6 DEF Folds
<1>9. iter = F(iter)
  <2> HIDE DEF F
  <2> QED
    BY <1>8
<1> HIDE DEF iter
<1>10. iter[1..0] = acc
  <2>1. 1..0 = {} /\ {} \in SUBSET (1..n)
    OBVIOUS
  <2>2. iter[{}] = acc
    BY <1>9, <2>1
  <2> QED
    BY <2>1, <2>2
<1>11. ASSUME NEW i \in 1..n, iter[1..(i - 1)] \in Acc
       PROVE  iter[1..i] = op[<<i, iter[1..(i - 1)]>>]
  <2>1. 1..i \in SUBSET (1..n) /\ 1..i # {} /\ Max(1..i) = i /\ (1..i) \ {i} = 1..(i - 1)
    BY <1>0, UpTo
  <2>2. \A S \in SUBSET (1..n) : S # {} => iter[S] = Op(iter[S \ {Max(S)}], s[Max(S)])
    BY <1>9
  <2>3. iter[1..i] = Op(iter[1..(i - 1)], s[i])
    BY <2>1, <2>2
  <2> QED
    BY <1>7, <1>11, <2>3
<1>12. PICK a : Run(a, n, Acc, acc, op) /\ a[n] = iter[1..n]
  <2>1. GoesAlong(iter, n, Acc, acc, op)
    BY <1>10, <1>11 DEF GoesAlong
  <2> HIDE DEF F
  <2>2. RunEnds(iter[1..n], n, Acc, acc, op)
    BY <1>0, <1>3, <1>4, <2>1, FoldRuns, Zenon
  <2> QED
    BY <2>2 DEF RunEnds
<1>13. a \in [0..n -> Acc] /\ a[0] = acc /\ a[n] = fold
  BY <1>1, <1>12 DEF Run
<1>14. \A i \in 1..n : a[i] = Op(a[i - 1], s[i])
  <2>1. \A i \in 1..n : a[i] = op[<<i, a[i - 1]>>] /\ i - 1 \in 0..n
    BY <1>0, <1>12 DEF Run
  <2> QED
    BY <1>7, <1>13, <2>1
<1> DEFINE ends == [i \in 1..n |-> s[i].from]
<1>15. \A i \in 1..n : a[i] = Follow(q, a[i - 1], s[i], ends[i]) /\ ends[i] \in {s[i].from, s[i].to}
  BY <1>14 DEF Op
<1>16. {<<s[i], ends[i]>> : i \in 1..n} = {<<e, e.from>> : e \in ToSet(s)}
  BY <1>0 DEF ToSet
<1> HIDE DEF ends
<1>17. /\ Grows(q, a[0], {<<s[i], ends[i]>> : i \in 1..n}, a[n])
       /\ StaysDistinct(a[0], {<<s[i], ends[i]>> : i \in 1..n}, a[n])
  <2>1. n = Len(s) /\ a \in [0..n -> Reaches(E)]
    BY <1>13 DEF n, Acc
  <2> QED
    BY <1>15, <2>1, FollowedInTurn
<1>18. fold \in Reaches(E)
  BY <1>0, <1>13 DEF Acc
<1> QED
  BY <1>13, <1>16, <1>17, <1>18 DEF fold

-----------------------------------------------------------------------------
(* One symbol expanded, and the symbols of a level. *)

UpList(q, E, id) == IF q.up THEN ListEdgesTo(E, id, q.limit) ELSE <<>>
DownList(q, E, id) == IF q.down THEN ListEdgesFrom(E, id, q.limit) ELSE <<>>
Looked(q, E, id) ==
    {<<e, e.from>> : e \in ToSet(UpList(q, E, id))} \cup {<<e, e.to>> : e \in ToSet(DownList(q, E, id))}
OneWay(q) == ~(q.up /\ q.down)

ListIs(s, E, S, limit) ==
    /\ s \in Seq(E) /\ NoRepeats(s)
    /\ \A e \in ToSet(s) : e \in S
    /\ Cardinality(S) <= limit => \A e \in S : e \in ToSet(s)

LEMMA Lists ==
  ASSUME NEW E, Graph(E), NEW q, q.limit \in Nat, NEW id
  PROVE  /\ ListIs(UpList(q, E, id), E, {e \in E : q.up /\ e.to = id}, q.limit)
         /\ ListIs(DownList(q, E, id), E, {e \in E : q.down /\ e.from = id}, q.limit)
<1>1. /\ <<>> \in Seq(E) /\ NoRepeats(<<>>) /\ ToSet(<<>>) = {}
  BY EmptySeq DEF NoRepeats, ToSet
<1>2. \A S \in SUBSET E : \A s \in Seq(S) : s \in Seq(E) /\ \A e \in ToSet(s) : e \in S
  <2> TAKE S \in SUBSET E
  <2> TAKE s \in Seq(S)
  <2>1. DOMAIN s = 1..Len(s) /\ Len(s) \in Nat /\ \A i \in DOMAIN s : s[i] \in S
    BY SeqFacts
  <2>2. s \in Seq(E)
    BY SeqFacts, SeqDef
  <2> QED
    BY <2>1, <2>2 DEF ToSet
<1>3. ListIs(UpList(q, E, id), E, {e \in E : q.up /\ e.to = id}, q.limit)
  <2> DEFINE S == {e \in E : e.to = id}
             s == ListEdgesTo(E, id, q.limit)
  <2>1. FirstOf(s, S, q.limit)
    BY ListedTo
  <2>2. CASE q.up
    <3>1. UpList(q, E, id) = s /\ S = {e \in E : q.up /\ e.to = id}
      BY <2>2 DEF UpList
    <3>2. s \in Seq(S) /\ NoRepeats(s) /\ (Cardinality(S) <= q.limit => S \subseteq ToSet(s))
      BY <2>1 DEF FirstOf
    <3>3. S \in SUBSET E
      OBVIOUS
    <3> HIDE DEF s, S
    <3>4. s \in Seq(E) /\ \A e \in ToSet(s) : e \in S
      BY <1>2, <3>2, <3>3
    <3>5. ListIs(s, E, S, q.limit)
      BY <3>2, <3>4 DEF ListIs
    <3> QED
      BY <3>1, <3>5
  <2>3. CASE ~q.up
    <3>1. UpList(q, E, id) = <<>> /\ {e \in E : q.up /\ e.to = id} = {}
      BY <2>3 DEF UpList
    <3>2. ListIs(<<>>, E, {}, q.limit)
      BY <1>1 DEF ListIs
    <3> QED
      BY <3>1, <3>2
  <2> QED
    BY <2>2, <2>3
<1>4. ListIs(DownList(q, E, id), E, {e \in E : q.down /\ e.from = id}, q.limit)
  <2> DEFINE S == {e \in E : e.from = id}
             s == ListEdgesFrom(E, id, q.limit)
  <2>1. FirstOf(s, S, q.limit)
    BY ListedFrom
  <2>2. CASE q.down
    <3>1. DownList(q, E, id) = s /\ S = {e \in E : q.down /\ e.from = id}
      BY <2>2 DEF DownList
    <3>2. s \in Seq(S) /\ NoRepeats(s) /\ (Cardinality(S) <= q.limit => S \subseteq ToSet(s))
      BY <2>1 DEF FirstOf
    <3>3. S \in SUBSET E
      OBVIOUS
    <3> HIDE DEF s, S
    <3>4. s \in Seq(E) /\ \A e \in ToSet(s) : e \in S
      BY <1>2, <3>2, <3>3
    <3>5. ListIs(s, E, S, q.limit)
      BY <3>2, <3>4 DEF ListIs
    <3> QED
      BY <3>1, <3>5
  <2>3. CASE ~q.down
    <3>1. DownList(q, E, id) = <<>> /\ {e \in E : q.down /\ e.from = id} = {}
      BY <2>3 DEF DownList
    <3>2. ListIs(<<>>, E, {}, q.limit)
      BY <1>1 DEF ListIs
    <3> QED
      BY <3>1, <3>2
  <2> QED
    BY <2>2, <2>3
<1> QED
  BY <1>3, <1>4

LEMMA LookedEdges ==
  ASSUME NEW E, Graph(E), NEW q, q.limit \in Nat, NEW id, NEW w \in Looked(q, E, id)
  PROVE  /\ w[1] \in E
         /\ \/ q.up /\ w[1].to = id /\ w[2] = w[1].from
            \/ q.down /\ w[1].from = id /\ w[2] = w[1].to
<1>1. CASE \E e \in ToSet(UpList(q, E, id)) : w = <<e, e.from>>
  <2>1. PICK e \in ToSet(UpList(q, E, id)) : w = <<e, e.from>>
    BY <1>1
  <2>2. ListIs(UpList(q, E, id), E, {x \in E : q.up /\ x.to = id}, q.limit)
    BY Lists
  <2>3. q.up /\ e \in E /\ e.to = id
    BY <2>2 DEF ListIs
  <2> QED
    BY <2>1, <2>3
<1>2. CASE \E e \in ToSet(DownList(q, E, id)) : w = <<e, e.to>>
  <2>1. PICK e \in ToSet(DownList(q, E, id)) : w = <<e, e.to>>
    BY <1>2
  <2>2. ListIs(DownList(q, E, id), E, {x \in E : q.down /\ x.from = id}, q.limit)
    BY Lists
  <2>3. q.down /\ e \in E /\ e.from = id
    BY <2>2 DEF ListIs
  <2> QED
    BY <2>1, <2>3
<1> QED
  BY <1>1, <1>2 DEF Looked

LEMMA ExpandGrows ==
  ASSUME NEW E, Graph(E), NEW q, q.limit \in Nat, NEW acc \in Reaches(E), NEW id
  PROVE  /\ Expand(q, E, acc, id) \in Reaches(E)
         /\ Grows(q, acc, Looked(q, E, id), Expand(q, E, acc, id))
         /\ OneWay(q) => StaysDistinct(acc, Looked(q, E, id), Expand(q, E, acc, id))
<1> DEFINE up == UpList(q, E, id)
           down == DownList(q, E, id)
           V == {<<e, e.from>> : e \in ToSet(up)}
           W == {<<e, e.to>> : e \in ToSet(down)}
           above == AllUp(q, acc, up)
           r == AllDown(q, above, down)
<1>1. Expand(q, E, acc, id) = r /\ Looked(q, E, id) = V \cup W
  BY DEF Expand, UpList, DownList, Looked, AllUp, AllDown
<1>2. /\ up \in Seq(E) /\ NoRepeats(up) /\ down \in Seq(E) /\ NoRepeats(down)
      /\ \A e \in ToSet(up) : q.up
      /\ \A e \in ToSet(down) : q.down
  BY Lists DEF ListIs
<1>3. above \in Reaches(E) /\ Grows(q, acc, V, above) /\ StaysDistinct(acc, V, above)
  <2> HIDE DEF up, down
  <2> QED
    BY <1>2, FollowedUp, Zenon
<1> HIDE DEF above
<1>4. r \in Reaches(E) /\ Grows(q, above, W, r) /\ StaysDistinct(above, W, r)
  <2> HIDE DEF up, down
  <2> QED
    BY <1>2, <1>3, FollowedDown, Zenon
<1> HIDE DEF r
<1>5. Grows(q, acc, V \cup W, r)
  <2> HIDE DEF V, W
  <2> QED
    BY <1>3, <1>4, GrowsOn
<1>6. ASSUME OneWay(q)
      PROVE  StaysDistinct(acc, V \cup W, r)
  <2>1. \A v \in V, w \in W : v[1] # w[1]
    BY <1>2, <1>6 DEF OneWay
  <2> HIDE DEF V, W
  <2> QED
    BY <1>3, <1>4, <2>1, DistinctOn
<1> HIDE DEF V, W
<1> QED
  BY <1>1, <1>4, <1>5, <1>6

(* The symbols of a level expanded one after the other. *)
LookedAt(q, E, L, k) == UNION {Looked(q, E, L[i]) : i \in 1..k}

LEMMA ExpandedInTurn ==
  ASSUME NEW E, Graph(E), NEW q, q.limit \in Nat, NEW L, NEW n \in Nat,
         NEW a \in [0..n -> Reaches(E)],
         \A i \in 1..n : a[i] = Expand(q, E, a[i - 1], L[i])
  PROVE  /\ Grows(q, a[0], LookedAt(q, E, L, n), a[n])
         /\ OneWay(q) /\ (\A i, j \in 1..n : L[i] = L[j] => i = j) =>
                StaysDistinct(a[0], LookedAt(q, E, L, n), a[n])
<1> DEFINE W(k) == LookedAt(q, E, L, k)
           Apart == OneWay(q) /\ \A i, j \in 1..n : L[i] = L[j] => i = j
           G == {k \in 0..n : Grows(q, a[0], W(k), a[k]) /\ (Apart => StaysDistinct(a[0], W(k), a[k]))}
<1>1. 0 \in G
  <2>1. W(0) = {}
    BY DEF LookedAt
  <2>2. a[0] \in Reaches(E) /\ 0 \in 0..n
    OBVIOUS
  <2> HIDE DEF W
  <2>3. Grows(q, a[0], W(0), a[0]) /\ StaysDistinct(a[0], W(0), a[0])
    BY <2>1, <2>2, NothingGrows
  <2> QED
    BY <2>2, <2>3
<1>2. ASSUME NEW k \in 1..n, k - 1 \in G
      PROVE  k \in G
  <2>1. k \in 0..n /\ k - 1 \in 0..n /\ 0 \in 0..n
    OBVIOUS
  <2>2. a[k] \in Reaches(E) /\ a[k - 1] \in Reaches(E) /\ a[0] \in Reaches(E)
    BY <2>1
  <2>3. Grows(q, a[0], W(k - 1), a[k - 1]) /\ (Apart => StaysDistinct(a[0], W(k - 1), a[k - 1]))
    <3> HIDE DEF W, Apart
    <3> QED
      BY <1>2
  <2>4. /\ Grows(q, a[k - 1], Looked(q, E, L[k]), a[k])
        /\ OneWay(q) => StaysDistinct(a[k - 1], Looked(q, E, L[k]), a[k])
    <3>1. a[k] = Expand(q, E, a[k - 1], L[k])
      OBVIOUS
    <3> QED
      BY <2>2, <3>1, ExpandGrows
  <2>5. W(k) = W(k - 1) \cup Looked(q, E, L[k])
    <3>1. 1..k = (1..(k - 1)) \cup {k}
      OBVIOUS
    <3> QED
      BY <3>1 DEF LookedAt
  <2>6. ASSUME Apart, NEW v \in W(k - 1), NEW w \in Looked(q, E, L[k])
        PROVE  v[1] # w[1]
    <3>1. PICK i \in 1..(k - 1) : v \in Looked(q, E, L[i])
      BY <2>6 DEF LookedAt
    <3>2. i \in 1..n /\ i # k
      OBVIOUS
    <3>3. L[i] # L[k]
      BY <2>6, <3>2
    <3>4. ASSUME NEW id, NEW x \in Looked(q, E, id)
          PROVE  (q.up /\ x[1].to = id) \/ (q.down /\ x[1].from = id)
      BY <3>4, LookedEdges
    <3> QED
      BY <2>6, <3>1, <3>3, <3>4 DEF OneWay
  <2> HIDE DEF W
  <2>7. Grows(q, a[0], W(k), a[k])
    BY <2>2, <2>3, <2>4, <2>5, GrowsOn
  <2>8. Apart => StaysDistinct(a[0], W(k), a[k])
    <3>1. ASSUME Apart
          PROVE  StaysDistinct(a[0], W(k), a[k])
      <4>1. OneWay(q) /\ \A v \in W(k - 1), w \in Looked(q, E, L[k]) : v[1] # w[1]
        BY <2>6, <3>1
      <4>2. StaysDistinct(a[0], W(k - 1), a[k - 1])
        BY <2>3, <3>1
      <4>3. StaysDistinct(a[k - 1], Looked(q, E, L[k]), a[k])
        BY <2>4, <4>1
      <4> HIDE DEF Apart
      <4> QED
        BY <2>3, <2>5, <4>1, <4>2, <4>3, DistinctOn
    <3> QED
      BY <3>1
  <2> HIDE DEF Apart
  <2> QED
    BY <2>1, <2>7, <2>8
<1> HIDE DEF G
<1>3. n \in G
  BY <1>1, <1>2, ReachedEnd
<1> QED
  BY <1>3 DEF G

ExpandAll(q, E, acc, s) == FoldLeft(LAMBDA a, id : Expand(q, E, a, id), acc, s)

LEMMA LevelGrows ==
  ASSUME NEW E, Graph(E), NEW q, q.limit \in Nat, NEW acc \in Reaches(E), NEW s \in Seq(Int)
  PROVE  /\ ExpandAll(q, E, acc, s) \in Reaches(E)
         /\ Grows(q, acc, LookedAt(q, E, s, Len(s)), ExpandAll(q, E, acc, s))
         /\ OneWay(q) /\ NoRepeats(s) =>
                StaysDistinct(acc, LookedAt(q, E, s, Len(s)), ExpandAll(q, E, acc, s))
<1> DEFINE n == Len(s)
           Acc == Reaches(E)
           Op(a, id) == Expand(q, E, a, id)
           op == [p \in (1..n) \X Acc |-> Op(p[2], s[p[1]])]
           F(g) == [S \in SUBSET (1..n) |-> IF S = {} THEN acc ELSE Op(g[S \ {Max(S)}], s[Max(S)])]
           iter == CHOOSE g : g = F(g)
           fold == ExpandAll(q, E, acc, s)
<1>0. n \in Nat /\ DOMAIN s = 1..n /\ \A i \in 1..n : s[i] \in Int
  BY SeqFacts
<1>1. fold = iter[1..n]
  BY <1>0 DEF ExpandAll, FoldLeft, MapThenFoldSet
<1>2. ASSUME NEW i \in 1..n, NEW a \in Acc
      PROVE  Op(a, s[i]) \in Acc
  BY ExpandGrows
<1> HIDE DEF fold, Op, Acc, n
<1>3. op \in [(1..n) \X Acc -> Acc]
  BY <1>2
<1>4. acc \in Acc
  BY DEF Acc
<1>5. PICK g \in [SUBSET (1..n) -> Acc] : Folds(g, n, acc, op)
  <2> HIDE DEF op
  <2> QED
    BY <1>0, <1>3, <1>4, FoldExists, Zenon
<1>6. ASSUME NEW S \in SUBSET (1..n), S # {}
      PROVE  op[<<Max(S), g[S \ {Max(S)}]>>] = Op(g[S \ {Max(S)}], s[Max(S)])
  <2>1. Max(S) \in 1..n /\ S \ {Max(S)} \in SUBSET (1..n)
    BY <1>0, <1>6, GreatestOf
  <2>2. g[S \ {Max(S)}] \in Acc
    BY <2>1
  <2> QED
    BY <2>1, <2>2
<1>7. \A i \in 1..n, a \in Acc : op[<<i, a>>] = Op(a, s[i])
  OBVIOUS
<1> HIDE DEF op
<1>8. g = F(g)
  BY <1>5, <1>6 DEF Folds
<1>9. iter = F(iter)
  <2> HIDE DEF F
  <2> QED
    BY <1>8
<1> HIDE DEF iter
<1>10. iter[1..0] = acc
  <2>1. 1..0 = {} /\ {} \in SUBSET (1..n)
    OBVIOUS
  <2>2. iter[{}] = acc
    BY <1>9, <2>1
  <2> QED
    BY <2>1, <2>2
<1>11. ASSUME NEW i \in 1..n, iter[1..(i - 1)] \in Acc
       PROVE  iter[1..i] = op[<<i, iter[1..(i - 1)]>>]
  <2>1. 1..i \in SUBSET (1..n) /\ 1..i # {} /\ Max(1..i) = i /\ (1..i) \ {i} = 1..(i - 1)
    BY <1>0, UpTo
  <2>2. \A S \in SUBSET (1..n) : S # {} => iter[S] = Op(iter[S \ {Max(S)}], s[Max(S)])
    BY <1>9
  <2>3. iter[1..i] = Op(iter[1..(i - 1)], s[i])
    BY <2>1, <2>2
  <2> QED
    BY <1>7, <1>11, <2>3
<1>12. PICK a : Run(a, n, Acc, acc, op) /\ a[n] = iter[1..n]
  <2>1. GoesAlong(iter, n, Acc, acc, op)
    BY <1>10, <1>11 DEF GoesAlong
  <2> HIDE DEF F
  <2>2. RunEnds(iter[1..n], n, Acc, acc, op)
    BY <1>0, <1>3, <1>4, <2>1, FoldRuns, Zenon
  <2> QED
    BY <2>2 DEF RunEnds
<1>13. a \in [0..n -> Acc] /\ a[0] = acc /\ a[n] = fold
  BY <1>1, <1>12 DEF Run
<1>14. \A i \in 1..n : a[i] = Op(a[i - 1], s[i])
  <2>1. \A i \in 1..n : a[i] = op[<<i, a[i - 1]>>] /\ i - 1 \in 0..n
    BY <1>0, <1>12 DEF Run
  <2> QED
    BY <1>7, <1>13, <2>1
<1>15. \A i \in 1..n : a[i] = Expand(q, E, a[i - 1], s[i])
  BY <1>14 DEF Op
<1>16. NoRepeats(s) => \A i, j \in 1..n : s[i] = s[j] => i = j
  BY <1>0 DEF NoRepeats
<1>17. /\ Grows(q, a[0], LookedAt(q, E, s, n), a[n])
       /\ OneWay(q) /\ (\A i, j \in 1..n : s[i] = s[j] => i = j) =>
              StaysDistinct(a[0], LookedAt(q, E, s, n), a[n])
  <2>1. n \in Nat /\ a \in [0..n -> Reaches(E)]
    BY <1>0, <1>13 DEF Acc
  <2> QED
    BY <1>15, <2>1, ExpandedInTurn
<1>18. fold \in Reaches(E)
  BY <1>0, <1>13 DEF Acc
<1>19. LookedAt(q, E, s, n) = LookedAt(q, E, s, Len(s))
  BY DEF n
<1> QED
  BY <1>13, <1>16, <1>17, <1>18, <1>19 DEF fold

-----------------------------------------------------------------------------
(* A traversal level by level.  B is what lies within the depth of the     *)
(* level and near what lies within the whole depth.                        *)

Joined(q, E, a) ==
    {e.to : e \in {d \in E : q.down /\ d.from = a /\ d.type \in q.types}}
    \cup {e.from : e \in {d \in E : q.up /\ d.to = a /\ d.type \in q.types}}
Spread(q, E, B) == B \cup UNION {Joined(q, E, a) : a \in B}

Origin(q, e) == IF q.down THEN e.from ELSE e.to

\* The limit of the queries leaves no edge of these symbols out.
Whole(q, E, near) ==
    \A n \in near : /\ q.down => Cardinality({e \in E : e.from = n}) <= q.limit
                    /\ q.up => Cardinality({e \in E : e.to = n}) <= q.limit

LevelOK(q, E, root, near, B, acc) ==
    /\ acc \in Reaches(E) /\ Len(acc.edges) <= q.limit
    /\ root \in acc.nodes /\ acc.nodes \subseteq B
    /\ IsFiniteSet(acc.nodes) /\ Cardinality(acc.nodes) <= 1 + Len(acc.edges)
    /\ ToSet(acc.next) \subseteq acc.nodes /\ NoRepeats(acc.next)
    /\ \A n \in acc.nodes \ {root} : \E e \in ToSet(acc.edges) : n \in {e.from, e.to}
    /\ OneWay(q) => /\ NoRepeats(acc.edges)
                    /\ \A e \in ToSet(acc.edges) : Origin(q, e) \in acc.nodes \ ToSet(acc.next)
    /\ Len(acc.edges) < q.limit /\ Whole(q, E, near) =>
           /\ B \subseteq acc.nodes
           /\ \A a \in acc.nodes \ ToSet(acc.next) : Joined(q, E, a) \subseteq acc.nodes

LevelStep(q, E, acc) ==
    IF Len(acc.edges) >= q.limit THEN acc
    ELSE ExpandAll(q, E, [acc EXCEPT !.next = <<>>], acc.next)

Start(root) == [edges |-> <<>>, nodes |-> {root}, next |-> <<root>>]

LEMMA StartOK ==
  ASSUME NEW E, NEW q, q.limit \in Nat, NEW root \in Int, NEW near
  PROVE  LevelOK(q, E, root, near, {root}, Start(root))
<1>1. /\ <<>> \in Seq(E) /\ Len(<<>>) = 0 /\ ToSet(<<>>) = {} /\ NoRepeats(<<>>)
  BY EmptySeq DEF ToSet, NoRepeats
<1>2. /\ <<root>> \in Seq(Int) /\ ToSet(<<root>>) = {root} /\ NoRepeats(<<root>>)
  <2> DEFINE s == <<root>>
  <2>1. s \in Seq(Int) /\ DOMAIN s = {1} /\ s[1] = root
    OBVIOUS
  <2> HIDE DEF s
  <2>2. ToSet(s) = {root} /\ NoRepeats(s)
    BY <2>1 DEF ToSet, NoRepeats
  <2> QED
    BY <2>1, <2>2 DEF s
<1>3. IsFiniteSet({root}) /\ Cardinality({root}) <= 1 + 0
  <2>1. IsFiniteSet({root}) /\ Cardinality({root}) = 1
    BY FS_Singleton
  <2> QED
    BY <2>1
<1>4. /\ Start(root).edges = <<>> /\ Start(root).nodes = {root} /\ Start(root).next = <<root>>
      /\ Start(root) \in Reaches(E)
  BY <1>1, <1>2 DEF Start, Reaches
<1>5. {root} \ {root} = {}
  OBVIOUS
<1> QED
  BY <1>1, <1>2, <1>3, <1>4, <1>5 DEF LevelOK

(* With no edge left out, what is joined to an expanded symbol was looked at. *)
LEMMA JoinedAreLookedAt ==
  ASSUME NEW E, Graph(E), NEW q, q.limit \in Nat, NEW near, Whole(q, E, near), NEW a \in near,
         NEW n \in Joined(q, E, a)
  PROVE  \E w \in Looked(q, E, a) : w[1].type \in q.types /\ w[2] = n
<1>1. CASE \E e \in E : q.down /\ e.from = a /\ e.type \in q.types /\ n = e.to
  <2>1. PICK e \in E : q.down /\ e.from = a /\ e.type \in q.types /\ n = e.to
    BY <1>1
  <2>2. ListIs(DownList(q, E, a), E, {x \in E : q.down /\ x.from = a}, q.limit)
    BY Lists
  <2>3. {x \in E : q.down /\ x.from = a} = {x \in E : x.from = a}
    BY <2>1
  <2>4. Cardinality({x \in E : x.from = a}) <= q.limit
    BY <2>1 DEF Whole
  <2>5. e \in ToSet(DownList(q, E, a))
    BY <2>1, <2>2, <2>3, <2>4 DEF ListIs
  <2>6. <<e, e.to>> \in Looked(q, E, a)
    BY <2>5 DEF Looked
  <2> QED
    BY <2>1, <2>6
<1>2. CASE \E e \in E : q.up /\ e.to = a /\ e.type \in q.types /\ n = e.from
  <2>1. PICK e \in E : q.up /\ e.to = a /\ e.type \in q.types /\ n = e.from
    BY <1>2
  <2>2. ListIs(UpList(q, E, a), E, {x \in E : q.up /\ x.to = a}, q.limit)
    BY Lists
  <2>3. {x \in E : q.up /\ x.to = a} = {x \in E : x.to = a}
    BY <2>1
  <2>4. Cardinality({x \in E : x.to = a}) <= q.limit
    BY <2>1 DEF Whole
  <2>5. e \in ToSet(UpList(q, E, a))
    BY <2>1, <2>2, <2>3, <2>4 DEF ListIs
  <2>6. <<e, e.from>> \in Looked(q, E, a)
    BY <2>5 DEF Looked
  <2> QED
    BY <2>1, <2>6
<1> QED
  BY <1>1, <1>2 DEF Joined

LEMMA LevelStepOK ==
  ASSUME NEW E, Graph(E), NEW q, q.limit \in Nat, NEW root, NEW near, NEW B \in SUBSET near,
         NEW acc, LevelOK(q, E, root, near, B, acc)
  PROVE  LevelOK(q, E, root, near, Spread(q, E, B), LevelStep(q, E, acc))
<1>1. acc \in Reaches(E) /\ Len(acc.edges) \in Nat /\ acc.next \in Seq(Int)
  BY LenProperties DEF LevelOK, Reaches
<1>2. B \subseteq Spread(q, E, B)
  BY DEF Spread
<1>3. CASE Len(acc.edges) >= q.limit
  <2>1. LevelStep(q, E, acc) = acc
    BY <1>3 DEF LevelStep
  <2>2. ~(Len(acc.edges) < q.limit)
    BY <1>1, <1>3
  <2>3. acc.nodes \subseteq Spread(q, E, B)
    BY <1>2 DEF LevelOK
  <2> QED
    BY <2>1, <2>2, <2>3 DEF LevelOK
<1>4. CASE Len(acc.edges) < q.limit
  <2> DEFINE base == [acc EXCEPT !.next = <<>>]
             L == acc.next
             W == LookedAt(q, E, L, Len(L))
             r == ExpandAll(q, E, base, L)
  <2>1. LevelStep(q, E, acc) = r
    BY <1>1, <1>4 DEF LevelStep
  <2>2. /\ base \in Reaches(E) /\ base.edges = acc.edges /\ base.nodes = acc.nodes /\ base.next = <<>>
    BY <1>1, EmptySeq DEF Reaches
  <2>3. ToSet(<<>>) = {} /\ NoRepeats(<<>>)
    BY DEF ToSet, NoRepeats
  <2>4. NoRepeats(L) /\ ToSet(L) \subseteq acc.nodes
    BY DEF LevelOK
  <2> HIDE DEF base
  <2>5. /\ r \in Reaches(E) /\ Grows(q, base, W, r)
        /\ OneWay(q) => StaysDistinct(base, W, r)
    BY <1>1, <2>2, <2>4, LevelGrows
  <2>6. ASSUME NEW w \in W
        PROVE  /\ w[1] \in E
               /\ \E id \in ToSet(L) :
                      \/ q.up /\ w[1].to = id /\ w[2] = w[1].from
                      \/ q.down /\ w[1].from = id /\ w[2] = w[1].to
    <3>1. PICK i \in 1..Len(L) : w \in Looked(q, E, L[i])
      BY <2>6 DEF LookedAt
    <3>2. L[i] \in ToSet(L)
      BY <1>1, SeqFacts DEF ToSet
    <3>3. /\ w[1] \in E
          /\ \/ q.up /\ w[1].to = L[i] /\ w[2] = w[1].from
             \/ q.down /\ w[1].from = L[i] /\ w[2] = w[1].to
      BY <3>1, LookedEdges
    <3> QED
      BY <3>2, <3>3
  <2>7. \A id \in ToSet(L) : Looked(q, E, id) \subseteq W
    <3>1. \A id \in ToSet(L) : \E i \in 1..Len(L) : L[i] = id
      BY <1>1, SeqFacts DEF ToSet
    <3> QED
      BY <3>1 DEF LookedAt
  <2> HIDE DEF r, W, L
  <2>8. Len(r.edges) <= q.limit /\ root \in r.nodes /\ Len(r.edges) \in Nat
    BY <1>1, <2>2, <2>5, LenProperties DEF Grows, LevelOK, Reaches
  <2>9. r.nodes \subseteq Spread(q, E, B)
    <3>1. ASSUME NEW n \in r.nodes, n \notin acc.nodes
          PROVE  n \in Spread(q, E, B)
      <4>1. PICK w \in W : n = w[2] /\ w[1].type \in q.types
        BY <2>2, <2>5, <3>1 DEF Grows
      <4>2. w[1] \in E
        BY <2>6
      <4>3. PICK id \in ToSet(L) : \/ q.up /\ w[1].to = id /\ w[2] = w[1].from
                                   \/ q.down /\ w[1].from = id /\ w[2] = w[1].to
        BY <2>6
      <4>4. n \in Joined(q, E, id)
        BY <4>1, <4>2, <4>3 DEF Joined
      <4>5. id \in B
        BY <2>4 DEF LevelOK
      <4> QED
        BY <4>4, <4>5 DEF Spread
    <3>2. acc.nodes \subseteq Spread(q, E, B)
      BY <1>2 DEF LevelOK
    <3> QED
      BY <3>1, <3>2
  <2>10. IsFiniteSet(r.nodes) /\ Cardinality(r.nodes) <= 1 + Len(r.edges)
    <3>1. IsFiniteSet(acc.nodes) /\ Cardinality(acc.nodes) <= 1 + Len(acc.edges)
      BY DEF LevelOK
    <3>2. /\ IsFiniteSet(r.nodes)
          /\ Cardinality(r.nodes) - Cardinality(acc.nodes) <= Len(r.edges) - Len(acc.edges)
      BY <2>2, <2>5, <3>1 DEF Grows
    <3>3. Cardinality(r.nodes) \in Nat /\ Cardinality(acc.nodes) \in Nat
      BY <3>1, <3>2, FS_CardinalityType
    <3>4. \A x, y, k, m \in Nat : x <= 1 + k /\ y - x <= m - k => y <= 1 + m
      OBVIOUS
    <3>5. Cardinality(r.nodes) <= 1 + Len(r.edges)
      BY <1>1, <2>8, <3>1, <3>2, <3>3, <3>4, Zenon
    <3> QED
      BY <3>2, <3>5
  <2>11. /\ ToSet(r.next) = r.nodes \ acc.nodes /\ NoRepeats(r.next) /\ acc.nodes \subseteq r.nodes
    BY <2>2, <2>3, <2>5 DEF Grows
  <2>12. ASSUME NEW n \in r.nodes \ {root}
         PROVE  \E e \in ToSet(r.edges) : n \in {e.from, e.to}
    <3>1. CASE n \in acc.nodes
      <4>1. PICK e \in ToSet(acc.edges) : n \in {e.from, e.to}
        BY <2>12, <3>1 DEF LevelOK
      <4>2. e \in ToSet(r.edges)
        BY <2>2, <2>5, <4>1 DEF Grows
      <4> QED
        BY <4>1, <4>2
    <3>2. CASE n \notin acc.nodes
      <4>1. PICK w \in W : n = w[2] /\ w[1] \in ToSet(r.edges)
        BY <2>2, <2>5, <2>12, <3>2 DEF Grows
      <4>2. w[2] = w[1].from \/ w[2] = w[1].to
        BY <2>6
      <4> QED
        BY <4>1, <4>2
    <3> QED
      BY <3>1, <3>2
  <2>13. ASSUME OneWay(q)
         PROVE  /\ NoRepeats(r.edges)
                /\ \A e \in ToSet(r.edges) : Origin(q, e) \in r.nodes \ ToSet(r.next)
    <3>1. /\ NoRepeats(acc.edges)
          /\ \A e \in ToSet(acc.edges) : Origin(q, e) \in acc.nodes \ ToSet(L)
      BY <2>13 DEF LevelOK, L
    <3>2. \A w \in W : Origin(q, w[1]) \in ToSet(L)
      BY <2>6, <2>13 DEF OneWay, Origin
    <3>3. \A w \in W : w[1] \notin ToSet(acc.edges)
      BY <3>1, <3>2
    <3>4. NoRepeats(r.edges)
      BY <2>2, <2>5, <2>13, <3>1, <3>3 DEF StaysDistinct
    <3>5. \A e \in ToSet(r.edges) : e \in ToSet(acc.edges) \/ \E w \in W : e = w[1]
      BY <2>2, <2>5 DEF Grows
    <3>6. \A e \in ToSet(r.edges) : Origin(q, e) \in acc.nodes
      BY <2>4, <3>1, <3>2, <3>5
    <3> QED
      BY <2>11, <3>4, <3>6
  <2>14. ASSUME Len(r.edges) < q.limit, Whole(q, E, near)
         PROVE  /\ Spread(q, E, B) \subseteq r.nodes
                /\ \A a \in r.nodes \ ToSet(r.next) : Joined(q, E, a) \subseteq r.nodes
    <3>1. /\ B \subseteq acc.nodes
          /\ \A a \in acc.nodes \ ToSet(L) : Joined(q, E, a) \subseteq acc.nodes
      BY <1>4, <2>14 DEF LevelOK, L
    <3>2. \A w \in W : w[1].type \in q.types => w[2] \in r.nodes
      BY <2>5, <2>14 DEF Grows
    <3>3. ASSUME NEW a \in acc.nodes
          PROVE  Joined(q, E, a) \subseteq r.nodes
      <4>1. CASE a \notin ToSet(L)
        BY <2>11, <3>1, <3>3, <4>1
      <4>2. CASE a \in ToSet(L)
        <5>1. a \in near
          BY <3>3 DEF LevelOK
        <5>2. ASSUME NEW n \in Joined(q, E, a)
              PROVE  n \in r.nodes
          <6>1. PICK w \in Looked(q, E, a) : w[1].type \in q.types /\ w[2] = n
            BY <2>14, <5>1, JoinedAreLookedAt
          <6> QED
            BY <2>7, <3>2, <4>2, <6>1
        <5> QED
          BY <5>2
      <4> QED
        BY <4>1, <4>2
    <3>4. r.nodes \ ToSet(r.next) \subseteq acc.nodes
      BY <2>11
    <3>5. Spread(q, E, B) \subseteq r.nodes
      BY <2>11, <3>1, <3>3 DEF Spread
    <3> QED
      BY <3>3, <3>4, <3>5
  <2>15. ToSet(r.next) \subseteq r.nodes
    BY <2>11
  <2>16. LevelOK(q, E, root, near, Spread(q, E, B), r)
    BY <2>5, <2>8, <2>9, <2>10, <2>11, <2>12, <2>13, <2>14, <2>15 DEF LevelOK
  <2> QED
    BY <2>1, <2>16
<1>5. Len(acc.edges) >= q.limit \/ Len(acc.edges) < q.limit
  BY <1>1
<1> QED
  BY <1>3, <1>4, <1>5

(* The recursive function of Within goes from ball to ball. *)
BallsOf(b, q, E, root) ==
    /\ b \in [0..q.depth -> SUBSET Int] /\ b[0] = {root}
    /\ \A d \in 1..q.depth : b[d] = Spread(q, E, b[d - 1])

LEMMA JoinedAreInts ==
  ASSUME NEW E, Graph(E), NEW q, NEW B \in SUBSET Int
  PROVE  Spread(q, E, B) \in SUBSET Int
<1>1. \A a : Joined(q, E, a) \subseteq Int
  BY DEF Joined, Graph
<1> QED
  BY <1>1 DEF Spread

LEMMA BallsExist ==
  ASSUME NEW E, Graph(E), NEW q, q.depth \in Nat, NEW root \in Int
  PROVE  \E b : BallsOf(b, q, E, root) /\ b[q.depth] = Within(q, E, root)
<1> DEFINE n == q.depth
           Acc == SUBSET Int
           op == [p \in (1..n) \X Acc |-> Spread(q, E, p[2])]
           B(g) == [d \in 0..n |-> IF d = 0 THEN {root} ELSE Spread(q, E, g[d - 1])]
           ball == CHOOSE g : g = B(g)
<1>1. Within(q, E, root) = ball[n]
  BY DEF Within, Spread, Joined
<1> HIDE DEF n, Acc
<1>2. n \in Nat /\ {root} \in Acc
  BY DEF n, Acc
<1>3. op \in [(1..n) \X Acc -> Acc]
  BY JoinedAreInts DEF Acc
<1> HIDE DEF op
<1>4. PICK a : Run(a, n, Acc, {root}, op)
  BY <1>2, <1>3, RunExists
<1>5. a \in [0..n -> Acc] /\ a[0] = {root} /\ \A d \in 1..n : a[d] = Spread(q, E, a[d - 1])
  <2>1. \A d \in 1..n : a[d] = op[<<d, a[d - 1]>>] /\ a[d - 1] \in Acc
    BY <1>2, <1>4 DEF Run
  <2>2. \A d \in 1..n, S \in Acc : op[<<d, S>>] = Spread(q, E, S)
    BY DEF op
  <2> QED
    BY <1>4, <2>1, <2>2 DEF Run
<1>6. a = B(a)
  <2>1. \A d \in 0..n : d = 0 \/ d \in 1..n
    BY <1>2
  <2>2. \A d \in 0..n : a[d] = IF d = 0 THEN {root} ELSE Spread(q, E, a[d - 1])
    BY <1>5, <2>1
  <2> QED
    BY <1>5, <2>2
<1>7. ball = B(ball)
  <2> HIDE DEF B
  <2> QED
    BY <1>6
<1> HIDE DEF ball
<1>8. /\ DOMAIN ball = 0..n /\ ball[0] = {root}
      /\ \A d \in 1..n : d \in 0..n /\ ball[d] = Spread(q, E, ball[d - 1])
  <2>1. 0 \in 0..n /\ \A d \in 1..n : d \in 0..n /\ d # 0
    BY <1>2
  <2> QED
    BY <1>7, <2>1
<1> DEFINE G == {d \in 0..n : ball[d] = a[d]}
<1>9. 0 \in G
  <2>1. 0 \in 0..n /\ ball[0] = a[0]
    BY <1>2, <1>5, <1>8
  <2> QED
    BY <2>1
<1>10. ASSUME NEW d \in 1..n, d - 1 \in G
       PROVE  d \in G
  BY <1>5, <1>8, <1>10
<1> HIDE DEF G
<1>11. 0..n \subseteq G
  BY <1>2, <1>9, <1>10, Reached
<1>12. ball[n] = a[n]
  BY <1>2, <1>11 DEF G
<1>13. BallsOf(a, q, E, root)
  BY <1>5 DEF BallsOf, n, Acc
<1> QED
  BY <1>1, <1>12, <1>13 DEF n

LevelsOf(l, q, E, root) ==
    /\ l \in [0..q.depth -> Reaches(E)] /\ l[0] = Start(root)
    /\ \A d \in 1..q.depth : l[d] = LevelStep(q, E, l[d - 1])
    /\ Traverse(q, E, root) = [nodes |-> l[q.depth].nodes, edges |-> l[q.depth].edges]

LEMMA LevelsExist ==
  ASSUME NEW E, Graph(E), NEW q, q.depth \in Nat, q.limit \in Nat, NEW root \in Int
  PROVE  \E l : LevelsOf(l, q, E, root)
<1> DEFINE n == q.depth
           Acc == Reaches(E)
           op == [p \in (1..n) \X Acc |-> LevelStep(q, E, p[2])]
           B(g) == [d \in 0..n |-> IF d = 0 THEN Start(root) ELSE LevelStep(q, E, g[d - 1])]
           level == CHOOSE g : g = B(g)
<1>1. Traverse(q, E, root) = [nodes |-> level[n].nodes, edges |-> level[n].edges]
  BY DEF Traverse, LevelStep, Start, ExpandAll
<1> HIDE DEF n, Acc
<1>2. n \in Nat
  BY DEF n
<1>3. Start(root) \in Acc
  <2>1. LevelOK(q, E, root, {}, {root}, Start(root))
    BY StartOK
  <2> QED
    BY <2>1 DEF LevelOK, Acc
<1>4. ASSUME NEW acc \in Acc
      PROVE  LevelStep(q, E, acc) \in Acc
  <2>1. acc.next \in Seq(Int) /\ [acc EXCEPT !.next = <<>>] \in Reaches(E)
    BY <1>4, EmptySeq DEF Acc, Reaches
  <2>2. ExpandAll(q, E, [acc EXCEPT !.next = <<>>], acc.next) \in Reaches(E)
    BY <2>1, LevelGrows
  <2> QED
    BY <1>4, <2>2 DEF LevelStep, Acc
<1>5. op \in [(1..n) \X Acc -> Acc]
  BY <1>4
<1> HIDE DEF op
<1>6. PICK a : Run(a, n, Acc, Start(root), op)
  BY <1>2, <1>3, <1>5, RunExists
<1>7. a \in [0..n -> Acc] /\ a[0] = Start(root) /\ \A d \in 1..n : a[d] = LevelStep(q, E, a[d - 1])
  <2>1. \A d \in 1..n : a[d] = op[<<d, a[d - 1]>>] /\ a[d - 1] \in Acc
    BY <1>2, <1>6 DEF Run
  <2>2. \A d \in 1..n, x \in Acc : op[<<d, x>>] = LevelStep(q, E, x)
    BY DEF op
  <2> QED
    BY <1>6, <2>1, <2>2 DEF Run
<1>8. a = B(a)
  <2>1. \A d \in 0..n : d = 0 \/ d \in 1..n
    BY <1>2
  <2>2. \A d \in 0..n : a[d] = IF d = 0 THEN Start(root) ELSE LevelStep(q, E, a[d - 1])
    BY <1>7, <2>1
  <2> QED
    BY <1>7, <2>2
<1>9. level = B(level)
  <2> HIDE DEF B
  <2> QED
    BY <1>8
<1> HIDE DEF level
<1>10. /\ level[0] = Start(root)
       /\ \A d \in 1..n : d \in 0..n /\ level[d] = LevelStep(q, E, level[d - 1])
  <2>1. 0 \in 0..n /\ \A d \in 1..n : d \in 0..n /\ d # 0
    BY <1>2
  <2> QED
    BY <1>9, <2>1
<1> DEFINE G == {d \in 0..n : level[d] = a[d]}
<1>11. 0 \in G
  BY <1>2, <1>7, <1>10
<1>12. ASSUME NEW d \in 1..n, d - 1 \in G
       PROVE  d \in G
  BY <1>7, <1>10, <1>12
<1> HIDE DEF G
<1>13. 0..n \subseteq G
  BY <1>2, <1>11, <1>12, Reached
<1>14. level[n] = a[n]
  BY <1>2, <1>13 DEF G
<1>15. LevelsOf(a, q, E, root)
  BY <1>1, <1>7, <1>14 DEF LevelsOf, n, Acc
<1> QED
  BY <1>15

(* The graph of a query is exact. *)
LEMMA TraversalExact ==
  ASSUME NEW E, Graph(E), NEW q, q.depth \in Nat, q.limit \in Nat, NEW root \in Int
  PROVE  LET g == Traverse(q, E, root)
             near == Within(q, E, root)
         IN  /\ Len(g.edges) <= q.limit /\ g.edges \in Seq(E)
             /\ g.nodes \subseteq near /\ g.nodes \subseteq Int /\ root \in g.nodes
             /\ IsFiniteSet(g.nodes) /\ Cardinality(g.nodes) <= 1 + Len(g.edges)
             /\ \A n \in g.nodes \ {root} : \E e \in ToSet(g.edges) : n \in {e.from, e.to}
             /\ OneWay(q) => NoRepeats(g.edges)
             /\ Len(g.edges) < q.limit /\ Whole(q, E, near) => near \subseteq g.nodes
<1> DEFINE g == Traverse(q, E, root)
           near == Within(q, E, root)
           n == q.depth
<1>1. PICK b : BallsOf(b, q, E, root) /\ b[n] = near
  BY BallsExist
<1>l. PICK l : LevelsOf(l, q, E, root)
  BY LevelsExist
<1>2. /\ l \in [0..n -> Reaches(E)] /\ l[0] = Start(root)
      /\ \A d \in 1..n : l[d] = LevelStep(q, E, l[d - 1])
      /\ g = [nodes |-> l[n].nodes, edges |-> l[n].edges]
  BY <1>l DEF LevelsOf
<1> HIDE DEF g, near, n
<1>3. n \in Nat /\ b[0] = {root} /\ \A d \in 1..n : b[d] = Spread(q, E, b[d - 1])
  BY <1>1 DEF BallsOf, n
<1>4. \A d \in 0..n : b[d] \subseteq near
  <2> DEFINE G == {k \in 0..n : b[n - k] \subseteq near}
  <2>1. 0 \in G
    BY <1>1, <1>3
  <2>2. ASSUME NEW k \in 1..n, k - 1 \in G
        PROVE  k \in G
    <3>1. n - (k - 1) \in 1..n /\ (n - (k - 1)) - 1 = n - k /\ k \in 0..n
      BY <1>3
    <3>2. b[n - (k - 1)] = Spread(q, E, b[n - k])
      BY <1>3, <3>1
    <3>3. b[n - k] \subseteq b[n - (k - 1)]
      BY <3>2 DEF Spread
    <3> QED
      BY <2>2, <3>1, <3>3
  <2> HIDE DEF G
  <2>3. 0..n \subseteq G
    BY <1>3, <2>1, <2>2, Reached
  <2>4. \A d \in 0..n : n - d \in 0..n /\ n - (n - d) = d
    BY <1>3
  <2> QED
    BY <2>3, <2>4 DEF G
<1> DEFINE G == {d \in 0..n : LevelOK(q, E, root, near, b[d], l[d])}
<1>5. 0 \in G
  BY <1>2, <1>3, StartOK
<1>6. ASSUME NEW d \in 1..n, d - 1 \in G
      PROVE  d \in G
  <2>1. d \in 0..n /\ d - 1 \in 0..n
    BY <1>3
  <2>2. b[d - 1] \in SUBSET near /\ b[d] = Spread(q, E, b[d - 1]) /\ l[d] = LevelStep(q, E, l[d - 1])
    BY <1>2, <1>3, <1>4, <2>1
  <2>3. LevelOK(q, E, root, near, b[d], l[d])
    BY <1>6, <2>2, LevelStepOK
  <2> QED
    BY <2>1, <2>3
<1> HIDE DEF G
<1>7. 0..n \subseteq G
  BY <1>3, <1>5, <1>6, Reached
<1>8. LevelOK(q, E, root, near, near, l[n])
  BY <1>1, <1>3, <1>7 DEF G
<1>9. g.nodes = l[n].nodes /\ g.edges = l[n].edges
  BY <1>2
<1>10. g.edges \in Seq(E) /\ g.nodes \subseteq Int
  BY <1>8, <1>9 DEF LevelOK, Reaches
<1> QED
  BY <1>8, <1>9, <1>10 DEF LevelOK, g, near

-----------------------------------------------------------------------------
(* The stored graph. *)

LEMMA ImageFinite ==
  ASSUME NEW S, IsFiniteSet(S), NEW f, f = [x \in S |-> f[x]]
  PROVE  IsFiniteSet({f[x] : x \in S})
<1> DEFINE T == {f[x] : x \in S}
<1>1. f \in Surjection(S, T)
  BY DEF Surjection
<1> QED
  BY <1>1, FS_Surjection

LEMMA RowsFinite == IsFiniteSet(AllRows)
<1> HIDE DEF Files
<1>1. ASSUME NEW f \in Files, NEW v \in DOMAIN Source[f]
      PROVE  IsFiniteSet(RowsOf(f, v))
  <2> DEFINE D == DOMAIN Rows[f][v]
             g == [k \in D |-> Rows[f][v][k]]
             n == Len(Source[f][v].symbols)
  <2>1. D \subseteq 0..n
    BY RowFacts
  <2>2. n \in Nat
    <3>1. IsSeq(Source[f][v].symbols)
      BY SourceAssumption DEF IsContent
    <3> QED
      BY <3>1, SeqDomain
  <2> HIDE DEF n, D
  <2>3. IsFiniteSet(0..n)
    BY <2>2, FS_Interval
  <2>4. IsFiniteSet(D)
    BY <2>1, <2>3, FS_Subset
  <2>5. g = [k \in D |-> g[k]]
    OBVIOUS
  <2>6. RowsOf(f, v) = {g[k] : k \in D}
    BY DEF RowsOf, D
  <2> HIDE DEF g
  <2> QED
    BY <2>4, <2>5, <2>6, ImageFinite
<1>2. ASSUME NEW f \in Files
      PROVE  IsFiniteSet(UNION {RowsOf(f, v) : v \in DOMAIN Source[f]})
  <2> DEFINE D == DOMAIN Source[f]
             g == [v \in D |-> RowsOf(f, v)]
  <2>1. IsFiniteSet(D)
    <3>1. Len(Source[f]) \in Nat /\ D = 1..Len(Source[f])
      BY Versions
    <3>2. IsFiniteSet(1..Len(Source[f]))
      BY <3>1, FS_Interval
    <3> QED
      BY <3>1, <3>2
  <2>2. \A v \in D : IsFiniteSet(g[v])
    BY <1>1
  <2>3. {RowsOf(f, v) : v \in D} = {g[v] : v \in D}
    OBVIOUS
  <2>4. g = [v \in D |-> g[v]]
    OBVIOUS
  <2> HIDE DEF g, D
  <2>5. IsFiniteSet({g[v] : v \in D})
    BY <2>1, <2>4, ImageFinite
  <2>6. IsFiniteSet(UNION {g[v] : v \in D})
    BY <2>2, <2>5, FS_UNION
  <2> QED
    BY <2>3, <2>6 DEF D
<1> DEFINE h == [f \in Files |-> UNION {RowsOf(f, v) : v \in DOMAIN Source[f]}]
<1>3. AllRows = UNION {h[f] : f \in Files}
  BY DEF AllRows
<1>4. \A f \in Files : IsFiniteSet(h[f])
  BY <1>2
<1>5. h = [f \in Files |-> h[f]]
  OBVIOUS
<1>6. IsFiniteSet(Files)
  BY GraphFilesAssumption
<1> HIDE DEF h
<1>7. IsFiniteSet({h[f] : f \in Files})
  BY <1>5, <1>6, ImageFinite
<1>8. IsFiniteSet(UNION {h[f] : f \in Files})
  BY <1>4, <1>7, FS_UNION
<1> QED
  BY <1>3, <1>8

LEMMA StoredGraph ==
  ASSUME IndInv
  PROVE  Ids \subseteq Int /\ IsFiniteSet(Ids) /\ Graph(edges)
<1>1. symbols \subseteq AllRows /\ edges \in SUBSET EdgeRows(Ids) /\ UniqueKeys(edges)
  BY DEF IndInv, RowsInv, EdgesInv
<1>2. Ids \subseteq Int
  <2>1. ASSUME NEW r \in AllRows
        PROVE  r.id \in Int
    <3>1. r.id = SymbolId(r.file, r.name, IF r.exported THEN 0 ELSE r.start) /\ HashedOf(r) \in AllHashed
      BY AllRowsFacts
    <3>2. \A x \in AllHashed : SymbolId(x[1], x[2], x[3]) \in Nat
      BY HashAssumption
    <3> HIDE DEF SymbolId
    <3>3. SymbolId(HashedOf(r)[1], HashedOf(r)[2], HashedOf(r)[3]) \in Nat
      BY <3>1, <3>2
    <3> QED
      BY <3>1, <3>3 DEF HashedOf
  <2> QED
    BY <1>1, <2>1 DEF Ids
<1>3. IsFiniteSet(Ids)
  <2> DEFINE g == [r \in symbols |-> r.id]
  <2>1. IsFiniteSet(symbols)
    BY <1>1, RowsFinite, FS_Subset
  <2>2. Ids = {g[r] : r \in symbols} /\ g = [r \in symbols |-> g[r]]
    BY DEF Ids
  <2> HIDE DEF g
  <2> QED
    BY <2>1, <2>2, ImageFinite
<1>4. \A e \in edges : e.from \in Ids /\ e.to \in Ids /\ e.type \in EdgeTypes
  BY <1>1 DEF EdgeRows
<1>5. EdgeTypes = ToSet(TypeOrder)
  BY DEF EdgeTypes, ToSet
<1>6. IsFiniteSet(edges)
  <2> DEFINE T == Ids \X (Ids \X EdgeTypes)
             g == [e \in edges |-> <<e.from, <<e.to, e.type>>>>]
  <2>1. IsFiniteSet(EdgeTypes)
    <3> DEFINE o == [i \in 1..8 |-> TypeOrder[i]]
    <3>1. IsFiniteSet(1..8)
      <4>1. PICK n \in Int : n = 8
        OBVIOUS
      <4>2. 1 \in Int
        OBVIOUS
      <4>3. IsFiniteSet(1..n) /\ Cardinality(1..n) = IF 1 > n THEN 0 ELSE n - 1 + 1
        BY <4>1, <4>2, FS_Interval
      <4>4. IsFiniteSet(1..n)
        BY <4>3
      <4> QED
        BY <4>1, <4>4, Zenon
    <3>2. EdgeTypes = {o[i] : i \in 1..8} /\ o = [i \in 1..8 |-> o[i]]
      <4>1. DOMAIN TypeOrder = 1..8
        BY DEF TypeOrder
      <4> QED
        BY <4>1 DEF EdgeTypes
    <3> HIDE DEF o
    <3> QED
      BY <3>1, <3>2, ImageFinite
  <2>2. IsFiniteSet(T)
    <3>1. IsFiniteSet(Ids \X EdgeTypes)
      BY <1>3, <2>1, FS_Product
    <3> QED
      BY <1>3, <3>1, FS_Product
  <2>3. g \in [edges -> T]
    BY <1>4
  <2>4. \A d, e \in edges : g[d] = g[e] => d = e
    BY <1>1 DEF UniqueKeys, Key
  <2>5. g \in Injection(edges, T)
    BY <2>3, <2>4 DEF Injection, IsInjective
  <2> HIDE DEF g, T
  <2> QED
    BY <2>2, <2>5, FS_Injection
<1>7. Graph(edges)
  <2> HIDE DEF EdgeTypes, Ids, TypeOrder
  <2> QED
    BY <1>1, <1>2, <1>4, <1>5, <1>6 DEF Graph
<1> QED
  BY <1>2, <1>3, <1>7

LEMMA DistinctMembers ==
  ASSUME NEW S, NEW s \in Seq(S), NoRepeats(s)
  PROVE  Cardinality({s[i] : i \in DOMAIN s}) = Len(s) /\ IsFiniteSet({s[i] : i \in DOMAIN s})
<1> DEFINE T == {s[i] : i \in DOMAIN s}
<1>1. Len(s) \in Nat /\ DOMAIN s = 1..Len(s) /\ s \in [1..Len(s) -> S]
  BY SeqFacts
<1>2. s \in Injection(1..Len(s), T) /\ s \in Surjection(1..Len(s), T)
  BY <1>1 DEF Injection, IsInjective, Surjection, NoRepeats
<1>3. IsFiniteSet(1..Len(s)) /\ Cardinality(1..Len(s)) = Len(s)
  <2>1. 1 \in Int /\ Len(s) \in Int
    BY <1>1
  <2>2. IsFiniteSet(1..Len(s)) /\ Cardinality(1..Len(s)) = IF 1 > Len(s) THEN 0 ELSE Len(s) - 1 + 1
    BY <2>1, FS_Interval
  <2> QED
    BY <1>1, <2>2
<1> HIDE DEF T
<1>4. IsFiniteSet(T) /\ Cardinality(T) = Cardinality(1..Len(s))
  BY <1>2, <1>3, FS_Surjection
<1> QED
  BY <1>3, <1>4 DEF T

(* The queries looked at. *)
LEMMA QueryFacts ==
  ASSUME NEW q \in Queries
  PROVE  q.depth \in Nat /\ q.limit \in Nat
<1>1. Depths \subseteq Nat /\ Limits \subseteq Nat
  BY GraphBoundsAssumption
<1> QED
  BY <1>1 DEF Queries, DependencyQuery, CallQuery, TypeQuery

LEMMA IndInvTraversals == IndInv => TraversalsAreExact
<1> SUFFICES ASSUME IndInv, NEW q \in Queries, NEW root \in Ids
             PROVE  LET g == Traverse(q, edges, root)
                        near == Within(q, edges, root)
                    IN  /\ Len(g.edges) <= q.limit
                        /\ g.nodes \subseteq near
                        /\ \A n \in g.nodes \ {root} :
                               \E i \in DOMAIN g.edges : n \in {g.edges[i].from, g.edges[i].to}
                        /\ ~(q.up /\ q.down) =>
                               Cardinality({g.edges[i] : i \in DOMAIN g.edges}) = Len(g.edges)
                        /\ Len(g.edges) < q.limit /\ Unlimited(q, near) => g.nodes = near
  BY DEF TraversalsAreExact
<1> DEFINE g == Traverse(q, edges, root)
           near == Within(q, edges, root)
<1>1. root \in Int /\ Graph(edges) /\ q.depth \in Nat /\ q.limit \in Nat
  BY StoredGraph, QueryFacts
<1>2. /\ Len(g.edges) <= q.limit /\ g.edges \in Seq(edges)
      /\ g.nodes \subseteq near
      /\ \A n \in g.nodes \ {root} : \E e \in ToSet(g.edges) : n \in {e.from, e.to}
      /\ OneWay(q) => NoRepeats(g.edges)
      /\ Len(g.edges) < q.limit /\ Whole(q, edges, near) => near \subseteq g.nodes
  BY <1>1, TraversalExact
<1> HIDE DEF g, near
<1>3. \A n \in g.nodes \ {root} : \E i \in DOMAIN g.edges : n \in {g.edges[i].from, g.edges[i].to}
  BY <1>2 DEF ToSet
<1>4. ~(q.up /\ q.down) => Cardinality({g.edges[i] : i \in DOMAIN g.edges}) = Len(g.edges)
  BY <1>2, DistinctMembers DEF OneWay
<1>5. Unlimited(q, near) => Whole(q, edges, near)
  BY DEF Unlimited, Whole, Degree
<1>6. Len(g.edges) < q.limit /\ Unlimited(q, near) => g.nodes = near
  BY <1>2, <1>5
<1> QED
  BY <1>2, <1>3, <1>4, <1>6 DEF g, near

(* Of the graph answers, on the graph a run leaves: no more edges than the *)
(* limit, the symbols shown are within the depth and each on a listed      *)
(* edge, no edge twice when one direction is asked for, and nothing within *)
(* the depth is missing when the limit cut nothing off -- whatever the     *)
(* graph, cycles included, the depth and the limit.                        *)
THEOREM TraversalsStayExact == Spec => []TraversalsAreExact
<1>1. IndInv => TraversalsAreExact
  BY IndInvTraversals
<1> QED
  BY <1>1, Invariance, PTL

-----------------------------------------------------------------------------
(* The rows of the notes: finitely many, in lines, and each place once. *)

TodoRows(T) ==
    /\ IsFiniteSet(T) /\ \A n \in T : n.line \in Int
    /\ \A m, n \in T : m.file = n.file /\ m.line = n.line => m = n

PatternRows(P) ==
    /\ IsFiniteSet(P) /\ \A n \in P : n.is.line \in Int /\ n.nth \in Int
    /\ \A m, n \in P : m.file = n.file /\ m.nth = n.nth /\ m.is.line = n.is.line => m = n

LEMMA FewerNotes ==
  ASSUME NEW S, NEW T \in SUBSET S
  PROVE  (TodoRows(S) => TodoRows(T)) /\ (PatternRows(S) => PatternRows(T))
<1>1. IsFiniteSet(S) => IsFiniteSet(T)
  BY FS_Subset
<1>2. TodoRows(S) => TodoRows(T)
  BY <1>1 DEF TodoRows
<1>3. PatternRows(S) => PatternRows(T)
  BY <1>1 DEF PatternRows
<1> QED
  BY <1>2, <1>3

LEMMA IndicesFinite ==
  ASSUME NEW s, IsSeq(s), NEW K \in SUBSET DOMAIN s
  PROVE  IsFiniteSet(K) /\ K \subseteq Nat
<1>1. Len(s) \in Nat /\ DOMAIN s = 1 .. Len(s)
  BY SeqDomain
<1>2. 1 \in Int /\ Len(s) \in Int
  BY <1>1
<1>3. IsFiniteSet(1 .. Len(s)) /\ 1 .. Len(s) \subseteq Nat
  BY <1>1, <1>2, FS_Interval
<1> QED
  BY <1>1, <1>3, FS_Subset

LEMMA TodosUpserted ==
  ASSUME NEW old, TodoRows(old), NEW f, NEW found, IsSeq(found),
         \A i \in DOMAIN found : found[i].line \in Nat
  PROVE  TodoRows(UpsertTodos(old, f, found))
<1> DEFINE last == {i \in DOMAIN found : \A j \in (i + 1)..Len(found) : found[j].line # found[i].line}
           row == [i \in last |-> [file |-> f, line |-> found[i].line, kind |-> found[i].kind,
                                   symbol |-> found[i].symbol]]
           new == {row[i] : i \in last}
           kept == {o \in old : \A n \in new : ~(o.file = n.file /\ o.line = n.line)}
<1>1. UpsertTodos(old, f, found) = kept \cup new
  BY DEF UpsertTodos
<1>2. IsFiniteSet(last) /\ last \subseteq Nat
  BY IndicesFinite
<1>3. ASSUME NEW i \in last, NEW j \in last, found[i].line = found[j].line
      PROVE  i = j
  <2>1. Len(found) \in Nat /\ DOMAIN found = 1 .. Len(found)
    BY SeqDomain
  <2>2. ~(i < j) /\ ~(j < i)
    BY <1>3, <2>1
  <2> QED
    BY <1>2, <2>2
<1>4. \A i \in last : row[i].file = f /\ row[i].line = found[i].line /\ row[i].line \in Int
  OBVIOUS
<1>5. row = [i \in last |-> row[i]]
  OBVIOUS
<1> HIDE DEF row, last
<1>6. IsFiniteSet(new)
  BY <1>2, <1>5, ImageFinite
<1>7. IsFiniteSet(kept)
  BY FS_Subset DEF TodoRows
<1>8. IsFiniteSet(kept \cup new)
  BY <1>6, <1>7, FS_Union
<1>9. \A n \in new : \E i \in last : n = row[i] /\ n.file = f /\ n.line = found[i].line /\ n.line \in Int
  BY <1>4
<1>10. \A m, n \in new : m.file = n.file /\ m.line = n.line => m = n
  BY <1>3, <1>9
<1>11. \A m \in kept, n \in new : ~(m.file = n.file /\ m.line = n.line)
  OBVIOUS
<1>12. kept \subseteq old
  OBVIOUS
<1> HIDE DEF new, kept
<1> QED
  BY <1>1, <1>8, <1>9, <1>10, <1>11, <1>12 DEF TodoRows

LEMMA PatternsUpserted ==
  ASSUME NEW old, PatternRows(old), NEW f, NEW found, IsSeq(found),
         \A i \in DOMAIN found : found[i].line \in Nat
  PROVE  PatternRows(UpsertPatterns(old, f, found))
<1> DEFINE D == DOMAIN found
           row == [i \in D |-> [file |-> f, nth |-> i, is |-> found[i]]]
           new == {row[i] : i \in D}
           kept == {o \in old : \A n \in new :
                        ~(o.file = n.file /\ o.nth = n.nth /\ o.is.line = n.is.line)}
<1>1. UpsertPatterns(old, f, found) = kept \cup new
  BY DEF UpsertPatterns
<1>2. IsFiniteSet(D) /\ D \subseteq Nat
  BY IndicesFinite
<1>3. \A i \in D : /\ row[i].file = f /\ row[i].nth = i /\ i \in Int
                   /\ row[i].is.line = found[i].line /\ row[i].is.line \in Int
  BY <1>2
<1>4. row = [i \in D |-> row[i]]
  OBVIOUS
<1> HIDE DEF row, D
<1>5. IsFiniteSet(new)
  BY <1>2, <1>4, ImageFinite
<1>6. IsFiniteSet(kept)
  BY FS_Subset DEF PatternRows
<1>7. IsFiniteSet(kept \cup new)
  BY <1>5, <1>6, FS_Union
<1>8. \A n \in new : \E i \in D : n = row[i] /\ n.nth = i /\ n.nth \in Int /\ n.is.line \in Int
  BY <1>3
<1>9. \A m, n \in new : m.nth = n.nth => m = n
  BY <1>8
<1>10. \A m \in kept, n \in new : ~(m.file = n.file /\ m.nth = n.nth /\ m.is.line = n.is.line)
  OBVIOUS
<1>11. kept \subseteq old
  OBVIOUS
<1> HIDE DEF new, kept
<1> QED
  BY <1>1, <1>7, <1>8, <1>9, <1>10, <1>11 DEF PatternRows

NoteRowsInv == TodoRows(todos) /\ PatternRows(patterns)

LEMMA NoteRowsInit == Init => NoteRowsInv
<1>1. IsFiniteSet({})
  BY FS_EmptySet
<1> QED
  BY <1>1 DEF Init, NoteRowsInv, TodoRows, PatternRows

LEMMA NoteRowsStep == FilesInv /\ NoteRowsInv /\ [Next]_vars => NoteRowsInv'
<1> SUFFICES ASSUME FilesInv, NoteRowsInv, [Next]_vars
             PROVE  NoteRowsInv'
  OBVIOUS
<1> HIDE DEF Files
<1>1. CASE \/ StartRun \/ EndFiles \/ Rank \/ Cut \/ UNCHANGED vars
           \/ \E f \in Files : Edit(f) \/ Delete(f) \/ PassOver(f) \/ StoreSymbols(f)
  <2>1. todos' \subseteq todos /\ patterns' \subseteq patterns
    BY <1>1 DEF StartRun, EndFiles, Rank, Cut, Edit, Delete, PassOver, StoreSymbols, NotesOfOthers,
                vars, tables, notes
  <2> QED
    BY <2>1, FewerNotes DEF NoteRowsInv
<1>2. ASSUME NEW f \in Files, StoreEdges(f)
      PROVE  NoteRowsInv'
  <2> DEFINE c == Source[f][busy[f]]
  <2>1. /\ f \in DOMAIN busy
        /\ todos' = UpsertTodos(todos, f, c.todos)
        /\ patterns' = UpsertPatterns(patterns, f, c.patterns)
    BY <1>2 DEF StoreEdges
  <2>2. busy[f] \in DOMAIN Source[f]
    <3>1. busy[f] = disk[f] /\ disk[f] # 0 /\ disk[f] \in 0 .. Len(Source[f])
      BY <2>1 DEF FilesInv, Absent
    <3> QED
      BY <3>1, Versions
  <2>3. IsContent(c)
    BY <2>2, SourceAssumption
  <2>4. /\ IsSeq(c.todos) /\ \A i \in DOMAIN c.todos : c.todos[i].line \in Nat
        /\ IsSeq(c.patterns) /\ \A i \in DOMAIN c.patterns : c.patterns[i].line \in Nat
    BY <2>3 DEF IsContent
  <2> HIDE DEF c
  <2> QED
    BY <2>1, <2>4, TodosUpserted, PatternsUpserted DEF NoteRowsInv
<1> QED
  BY <1>1, <1>2 DEF Next

-----------------------------------------------------------------------------
(* trace_data_flow: what is reported and reached when some edges have been  *)
(* looked at, d steps from the root.                                       *)

TraceReaches == [flows : Seq([id : Int, steps : Nat]), visited : SUBSET Int, next : Seq(Int)]

EachOnce(s) == \A i, j \in DOMAIN s : s[i].id = s[j].id => i = j

FlowsOK(acc) == EachOnce(acc.flows) /\ \A x \in ToSet(acc.flows) : x.id \in acc.visited

(* From acc to r: W has the edges looked at on the way. *)
Traces(limit, d, acc, W, r) ==
    /\ acc.visited \subseteq r.visited
    /\ \A n \in r.visited \ acc.visited : \E e \in W : n = e.to /\ e.type \in TracedTypes
    /\ \A x \in ToSet(r.flows) :
           x \in ToSet(acc.flows) \/ (x.steps = d /\ x.id \in r.visited \ acc.visited)
    /\ ToSet(r.next) = ToSet(acc.next) \cup (r.visited \ acc.visited)
    /\ FlowsOK(acc) => FlowsOK(r)
    /\ Len(r.flows) < limit =>
           /\ Len(acc.flows) < limit
           /\ \A e \in W : e.type \in TracedTypes => e.to \in r.visited

LEMMA NothingTraced ==
  ASSUME NEW limit, NEW d, NEW acc
  PROVE  Traces(limit, d, acc, {}, acc)
BY DEF Traces

LEMMA TracesOn ==
  ASSUME NEW limit, NEW d, NEW a, NEW b, NEW c, NEW V, NEW W,
         Traces(limit, d, a, V, b), Traces(limit, d, b, W, c)
  PROVE  Traces(limit, d, a, V \cup W, c)
<1>1. a.visited \subseteq b.visited /\ b.visited \subseteq c.visited
  BY DEF Traces
<1>2. \A n \in c.visited \ a.visited : \E e \in V \cup W : n = e.to /\ e.type \in TracedTypes
  <2>1. \A n \in b.visited \ a.visited : \E e \in V : n = e.to /\ e.type \in TracedTypes
    BY DEF Traces
  <2>2. \A n \in c.visited \ b.visited : \E e \in W : n = e.to /\ e.type \in TracedTypes
    BY DEF Traces
  <2> QED
    BY <2>1, <2>2
<1>3. ASSUME NEW x \in ToSet(c.flows)
      PROVE  x \in ToSet(a.flows) \/ (x.steps = d /\ x.id \in c.visited \ a.visited)
  <2>1. x \in ToSet(b.flows) \/ (x.steps = d /\ x.id \in c.visited \ b.visited)
    BY DEF Traces
  <2>2. x \in ToSet(b.flows) =>
            x \in ToSet(a.flows) \/ (x.steps = d /\ x.id \in b.visited \ a.visited)
    BY DEF Traces
  <2> QED
    BY <1>1, <2>1, <2>2
<1>4. ToSet(c.next) = ToSet(a.next) \cup (c.visited \ a.visited)
  <2>1. /\ ToSet(b.next) = ToSet(a.next) \cup (b.visited \ a.visited)
        /\ ToSet(c.next) = ToSet(b.next) \cup (c.visited \ b.visited)
    BY DEF Traces
  <2> QED
    BY <1>1, <2>1
<1>5. FlowsOK(a) => FlowsOK(c)
  BY DEF Traces
<1>6. ASSUME Len(c.flows) < limit
      PROVE  /\ Len(a.flows) < limit
             /\ \A e \in V \cup W : e.type \in TracedTypes => e.to \in c.visited
  <2>1. Len(b.flows) < limit /\ \A e \in W : e.type \in TracedTypes => e.to \in c.visited
    BY <1>6 DEF Traces
  <2>2. Len(a.flows) < limit /\ \A e \in V : e.type \in TracedTypes => e.to \in b.visited
    BY <2>1 DEF Traces
  <2> QED
    BY <1>1, <2>1, <2>2
<1> QED
  BY <1>1, <1>2, <1>3, <1>4, <1>5, <1>6 DEF Traces

LEMMA TraceStepTraces ==
  ASSUME NEW E, Graph(E), NEW limit \in Nat, NEW d \in Nat, NEW acc \in TraceReaches, NEW e \in E
  PROVE  /\ TraceStep(limit, acc, e, d) \in TraceReaches
         /\ Traces(limit, d, acc, {e}, TraceStep(limit, acc, e, d))
<1> DEFINE r == TraceStep(limit, acc, e, d)
           x == [id |-> e.to, steps |-> d]
           Flow == [id : Int, steps : Nat]
<1>1. /\ Len(acc.flows) \in Nat /\ acc.flows \in Seq(Flow) /\ acc.next \in Seq(Int)
      /\ acc.visited \in SUBSET Int
  BY LenProperties DEF TraceReaches
<1>2. e.to \in Int
  BY DEF Graph
<1>3. CASE Len(acc.flows) >= limit \/ e.type \notin TracedTypes \/ e.to \in acc.visited
  <2>1. r = acc
    BY <1>3 DEF TraceStep
  <2>2. Len(acc.flows) < limit => (e.type \in TracedTypes => e.to \in acc.visited)
    BY <1>1, <1>3
  <2> HIDE DEF r
  <2> QED
    BY <2>1, <2>2 DEF Traces, r
<1>4. CASE Len(acc.flows) < limit /\ e.type \in TracedTypes /\ e.to \notin acc.visited
  <2>1. r = [flows |-> Append(acc.flows, x), visited |-> acc.visited \cup {e.to},
             next |-> Append(acc.next, e.to)]
    <3>1. ~(Len(acc.flows) >= limit)
      BY <1>1, <1>4
    <3> QED
      BY <1>4, <3>1 DEF TraceStep
  <2>2. /\ r.flows = Append(acc.flows, x) /\ r.visited = acc.visited \cup {e.to}
        /\ r.next = Append(acc.next, e.to)
    BY <2>1
  <2>3. x \in Flow /\ x.id = e.to /\ x.steps = d
    BY <1>2
  <2> HIDE DEF x, Flow, r
  <2>4. /\ r.flows \in Seq(Flow) /\ Len(r.flows) = Len(acc.flows) + 1
        /\ ToSet(r.flows) = ToSet(acc.flows) \cup {x}
    BY <1>1, <2>2, <2>3, OneMore
  <2>5. r.next \in Seq(Int) /\ ToSet(r.next) = ToSet(acc.next) \cup {e.to}
    BY <1>1, <1>2, <2>2, OneMore
  <2>6. r \in TraceReaches
    <3>1. r.visited \in SUBSET Int
      BY <1>1, <1>2, <2>2
    <3> QED
      BY <2>1, <2>4, <2>5, <3>1 DEF TraceReaches, Flow, r
  <2>7. ASSUME FlowsOK(acc)
        PROVE  FlowsOK(r)
    <3>1. \A y \in ToSet(acc.flows) : y.id # x.id /\ y.id \in acc.visited
      BY <1>4, <2>3, <2>7 DEF FlowsOK
    <3>2. EachOnce(acc.flows)
      BY <2>7 DEF FlowsOK
    <3>3. EachOnce(r.flows)
      <4>1. /\ DOMAIN acc.flows = 1..Len(acc.flows) /\ DOMAIN r.flows = 1..(Len(acc.flows) + 1)
        BY <1>1, <2>4, SeqFacts
      <4>2. \A i \in 1..Len(acc.flows) : r.flows[i] = acc.flows[i]
        BY <1>1, <2>2, <2>3, AppendProperties
      <4>3. r.flows[Len(acc.flows) + 1] = x
        BY <1>1, <2>2, <2>3, AppendProperties
      <4>4. \A i \in 1..Len(acc.flows) : acc.flows[i].id # x.id
        BY <3>1, <4>1 DEF ToSet
      <4>5. \A i, j \in 1..Len(acc.flows) : acc.flows[i].id = acc.flows[j].id => i = j
        BY <3>2, <4>1 DEF EachOnce
      <4> DEFINE n == Len(acc.flows)
      <4>6. \A i \in 1..(n + 1) : i \in 1..n \/ i = n + 1
        BY <1>1
      <4> HIDE DEF n
      <4>7. \A i, j \in 1..(n + 1) : r.flows[i].id = r.flows[j].id => i = j
        BY <4>2, <4>3, <4>4, <4>5, <4>6 DEF n
      <4> QED
        BY <4>1, <4>7 DEF EachOnce, n
    <3> QED
      BY <2>2, <2>3, <2>4, <3>1, <3>3 DEF FlowsOK
  <2>8. ToSet(r.next) = ToSet(acc.next) \cup (r.visited \ acc.visited)
    BY <1>4, <2>2, <2>5
  <2>9. Len(r.flows) < limit => Len(acc.flows) < limit
    BY <1>4
  <2>10. \A y \in ToSet(r.flows) :
             y \in ToSet(acc.flows) \/ (y.steps = d /\ y.id \in r.visited \ acc.visited)
    BY <1>4, <2>2, <2>3, <2>4
  <2>11. \A n \in r.visited \ acc.visited : \E f \in {e} : n = f.to /\ f.type \in TracedTypes
    BY <1>4, <2>2
  <2>12. acc.visited \subseteq r.visited /\ e.to \in r.visited
    BY <2>2
  <2>13. Traces(limit, d, acc, {e}, r)
    BY <2>7, <2>8, <2>9, <2>10, <2>11, <2>12 DEF Traces
  <2> QED
    BY <2>6, <2>13 DEF r
<1>5. Len(acc.flows) >= limit \/ Len(acc.flows) < limit
  BY <1>1
<1> QED
  BY <1>3, <1>4, <1>5

UpToPlace(V, n) == UNION {V[i] : i \in 1..n}
EachTraces(limit, d, a, V, n) == \A i \in 1..n : Traces(limit, d, a[i - 1], V[i], a[i])

LEMMA TracedInTurn ==
  ASSUME NEW limit, NEW d, NEW n \in Nat, NEW a, NEW V, EachTraces(limit, d, a, V, n)
  PROVE  Traces(limit, d, a[0], UpToPlace(V, n), a[n])
<1> DEFINE W(k) == UpToPlace(V, k)
           G == {k \in 0..n : Traces(limit, d, a[0], W(k), a[k])}
<1>1. 0 \in G
  <2>1. W(0) = {} /\ 0 \in 0..n
    BY DEF UpToPlace
  <2> HIDE DEF W
  <2>2. Traces(limit, d, a[0], W(0), a[0])
    BY <2>1, NothingTraced
  <2> QED
    BY <2>1, <2>2
<1>2. ASSUME NEW k \in 1..n, k - 1 \in G
      PROVE  k \in G
  <2>1. W(k) = W(k - 1) \cup V[k]
    <3>1. 1..k = (1..(k - 1)) \cup {k}
      OBVIOUS
    <3> QED
      BY <3>1 DEF UpToPlace
  <2>2. k \in 0..n
    OBVIOUS
  <2> HIDE DEF W
  <2>3. Traces(limit, d, a[0], W(k - 1), a[k - 1])
    BY <1>2
  <2>4. Traces(limit, d, a[k - 1], V[k], a[k])
    BY DEF EachTraces
  <2>5. Traces(limit, d, a[0], W(k), a[k])
    BY <2>1, <2>3, <2>4, TracesOn
  <2> QED
    BY <2>2, <2>5
<1> HIDE DEF G
<1>3. n \in G
  BY <1>1, <1>2, ReachedEnd
<1> QED
  BY <1>3 DEF G

TraceAll(limit, acc, s, d) == FoldLeft(LAMBDA b, e : TraceStep(limit, b, e, d), acc, s)

LEMMA EdgesTraced ==
  ASSUME NEW E, Graph(E), NEW limit \in Nat, NEW d \in Nat, NEW acc \in TraceReaches,
         NEW s \in Seq(E)
  PROVE  /\ TraceAll(limit, acc, s, d) \in TraceReaches
         /\ Traces(limit, d, acc, ToSet(s), TraceAll(limit, acc, s, d))
<1> DEFINE n == Len(s)
           Acc == TraceReaches
           Op(a, e) == TraceStep(limit, a, e, d)
           op == [p \in (1..n) \X Acc |-> Op(p[2], s[p[1]])]
           F(g) == [S \in SUBSET (1..n) |-> IF S = {} THEN acc ELSE Op(g[S \ {Max(S)}], s[Max(S)])]
           iter == CHOOSE g : g = F(g)
           fold == TraceAll(limit, acc, s, d)
<1>0. n \in Nat /\ DOMAIN s = 1..n /\ \A i \in 1..n : s[i] \in E
  BY SeqFacts
<1>1. fold = iter[1..n]
  BY <1>0 DEF TraceAll, FoldLeft, MapThenFoldSet
<1>2. ASSUME NEW i \in 1..n, NEW a \in Acc
      PROVE  Op(a, s[i]) \in Acc /\ Traces(limit, d, a, {s[i]}, Op(a, s[i]))
  BY <1>0, TraceStepTraces
<1> HIDE DEF fold, Op, Acc, n
<1>3. op \in [(1..n) \X Acc -> Acc]
  BY <1>2
<1>4. acc \in Acc
  BY DEF Acc
<1>5. PICK g \in [SUBSET (1..n) -> Acc] : Folds(g, n, acc, op)
  <2> HIDE DEF op
  <2> QED
    BY <1>0, <1>3, <1>4, FoldExists, Zenon
<1>6. ASSUME NEW S \in SUBSET (1..n), S # {}
      PROVE  op[<<Max(S), g[S \ {Max(S)}]>>] = Op(g[S \ {Max(S)}], s[Max(S)])
  <2>1. Max(S) \in 1..n /\ S \ {Max(S)} \in SUBSET (1..n)
    BY <1>0, <1>6, GreatestOf
  <2>2. g[S \ {Max(S)}] \in Acc
    BY <2>1
  <2> QED
    BY <2>1, <2>2
<1>7. \A i \in 1..n, a \in Acc : op[<<i, a>>] = Op(a, s[i])
  OBVIOUS
<1> HIDE DEF op
<1>8. g = F(g)
  BY <1>5, <1>6 DEF Folds
<1>9. iter = F(iter)
  <2> HIDE DEF F
  <2> QED
    BY <1>8
<1> HIDE DEF iter
<1>10. iter[1..0] = acc
  <2>1. 1..0 = {} /\ {} \in SUBSET (1..n)
    OBVIOUS
  <2>2. iter[{}] = acc
    BY <1>9, <2>1
  <2> QED
    BY <2>1, <2>2
<1>11. ASSUME NEW i \in 1..n, iter[1..(i - 1)] \in Acc
       PROVE  iter[1..i] = op[<<i, iter[1..(i - 1)]>>]
  <2>1. 1..i \in SUBSET (1..n) /\ 1..i # {} /\ Max(1..i) = i /\ (1..i) \ {i} = 1..(i - 1)
    BY <1>0, UpTo
  <2>2. \A S \in SUBSET (1..n) : S # {} => iter[S] = Op(iter[S \ {Max(S)}], s[Max(S)])
    BY <1>9
  <2>3. iter[1..i] = Op(iter[1..(i - 1)], s[i])
    BY <2>1, <2>2
  <2> QED
    BY <1>7, <1>11, <2>3
<1>12. PICK a : Run(a, n, Acc, acc, op) /\ a[n] = iter[1..n]
  <2>1. GoesAlong(iter, n, Acc, acc, op)
    BY <1>10, <1>11 DEF GoesAlong
  <2> HIDE DEF F
  <2>2. RunEnds(iter[1..n], n, Acc, acc, op)
    BY <1>0, <1>3, <1>4, <2>1, FoldRuns, Zenon
  <2> QED
    BY <2>2 DEF RunEnds
<1>13. a \in [0..n -> Acc] /\ a[0] = acc /\ a[n] = fold
  BY <1>1, <1>12 DEF Run
<1>14. \A i \in 1..n : a[i] = Op(a[i - 1], s[i]) /\ a[i - 1] \in Acc
  <2>1. \A i \in 1..n : a[i] = op[<<i, a[i - 1]>>] /\ i - 1 \in 0..n
    BY <1>0, <1>12 DEF Run
  <2> QED
    BY <1>7, <1>13, <2>1
<1> DEFINE V == [i \in 1..n |-> {s[i]}]
<1>15. \A i \in 1..n : Traces(limit, d, a[i - 1], V[i], a[i])
  <2>1. ASSUME NEW i \in 1..n
        PROVE  Traces(limit, d, a[i - 1], V[i], a[i])
    <3>1. Traces(limit, d, a[i - 1], {s[i]}, Op(a[i - 1], s[i]))
      BY <1>2, <1>14
    <3>2. a[i] = Op(a[i - 1], s[i])
      BY <1>14
    <3> QED
      BY <3>1, <3>2
  <2> QED
    BY <2>1
<1>16. UpToPlace(V, n) = ToSet(s)
  BY <1>0 DEF ToSet, UpToPlace
<1> HIDE DEF V
<1>17. Traces(limit, d, a[0], UpToPlace(V, n), a[n])
  <2>1. EachTraces(limit, d, a, V, n)
    BY <1>15 DEF EachTraces
  <2> QED
    BY <1>0, <2>1, TracedInTurn
<1>18. fold \in TraceReaches
  BY <1>0, <1>13 DEF Acc
<1> QED
  BY <1>13, <1>16, <1>17, <1>18 DEF fold

LEMMA SymbolTraced ==
  ASSUME NEW E, Graph(E), NEW limit \in Nat, NEW d \in Nat, NEW acc \in TraceReaches, NEW id
  PROVE  /\ TraceAll(limit, acc, ListEdgesFrom(E, id, limit), d) \in TraceReaches
         /\ Traces(limit, d, acc, ToSet(ListEdgesFrom(E, id, limit)),
                   TraceAll(limit, acc, ListEdgesFrom(E, id, limit), d))
<1> DEFINE s == ListEdgesFrom(E, id, limit)
           S == {e \in E : e.from = id}
<1>1. s \in Seq(S)
  BY ListedFrom DEF FirstOf
<1>2. s \in Seq(E)
  <2>1. S \subseteq E
    OBVIOUS
  <2> HIDE DEF s, S
  <2>2. Len(s) \in Nat /\ s \in [1..Len(s) -> E]
    BY <1>1, <2>1, SeqFacts
  <2> QED
    BY <2>2, SeqDef
<1> HIDE DEF s
<1> QED
  BY <1>2, EdgesTraced DEF s

TraceLevel(limit, E, acc, s, d) ==
    FoldLeft(LAMBDA a, id : TraceAll(limit, a, ListEdgesFrom(E, id, limit), d), acc, s)

LEMMA LevelTraced ==
  ASSUME NEW E, Graph(E), NEW limit \in Nat, NEW d \in Nat, NEW acc \in TraceReaches,
         NEW s \in Seq(Int)
  PROVE  /\ TraceLevel(limit, E, acc, s, d) \in TraceReaches
         /\ Traces(limit, d, acc, UNION {ToSet(ListEdgesFrom(E, s[i], limit)) : i \in 1..Len(s)},
                   TraceLevel(limit, E, acc, s, d))
<1> DEFINE n == Len(s)
           Acc == TraceReaches
           Op(a, e) == TraceAll(limit, a, ListEdgesFrom(E, e, limit), d)
           op == [p \in (1..n) \X Acc |-> Op(p[2], s[p[1]])]
           F(g) == [S \in SUBSET (1..n) |-> IF S = {} THEN acc ELSE Op(g[S \ {Max(S)}], s[Max(S)])]
           iter == CHOOSE g : g = F(g)
           fold == TraceLevel(limit, E, acc, s, d)
<1>0. n \in Nat /\ DOMAIN s = 1..n /\ \A i \in 1..n : s[i] \in Int
  BY SeqFacts
<1>1. fold = iter[1..n]
  BY <1>0 DEF TraceLevel, FoldLeft, MapThenFoldSet
<1>2. ASSUME NEW i \in 1..n, NEW a \in Acc
      PROVE  /\ Op(a, s[i]) \in Acc
             /\ Traces(limit, d, a, ToSet(ListEdgesFrom(E, s[i], limit)), Op(a, s[i]))
  BY SymbolTraced
<1> HIDE DEF fold, Op, Acc, n
<1>3. op \in [(1..n) \X Acc -> Acc]
  BY <1>2
<1>4. acc \in Acc
  BY DEF Acc
<1>5. PICK g \in [SUBSET (1..n) -> Acc] : Folds(g, n, acc, op)
  <2> HIDE DEF op
  <2> QED
    BY <1>0, <1>3, <1>4, FoldExists, Zenon
<1>6. ASSUME NEW S \in SUBSET (1..n), S # {}
      PROVE  op[<<Max(S), g[S \ {Max(S)}]>>] = Op(g[S \ {Max(S)}], s[Max(S)])
  <2>1. Max(S) \in 1..n /\ S \ {Max(S)} \in SUBSET (1..n)
    BY <1>0, <1>6, GreatestOf
  <2>2. g[S \ {Max(S)}] \in Acc
    BY <2>1
  <2> QED
    BY <2>1, <2>2
<1>7. \A i \in 1..n, a \in Acc : op[<<i, a>>] = Op(a, s[i])
  OBVIOUS
<1> HIDE DEF op
<1>8. g = F(g)
  BY <1>5, <1>6 DEF Folds
<1>9. iter = F(iter)
  <2> HIDE DEF F
  <2> QED
    BY <1>8
<1> HIDE DEF iter
<1>10. iter[1..0] = acc
  <2>1. 1..0 = {} /\ {} \in SUBSET (1..n)
    OBVIOUS
  <2>2. iter[{}] = acc
    BY <1>9, <2>1
  <2> QED
    BY <2>1, <2>2
<1>11. ASSUME NEW i \in 1..n, iter[1..(i - 1)] \in Acc
       PROVE  iter[1..i] = op[<<i, iter[1..(i - 1)]>>]
  <2>1. 1..i \in SUBSET (1..n) /\ 1..i # {} /\ Max(1..i) = i /\ (1..i) \ {i} = 1..(i - 1)
    BY <1>0, UpTo
  <2>2. \A S \in SUBSET (1..n) : S # {} => iter[S] = Op(iter[S \ {Max(S)}], s[Max(S)])
    BY <1>9
  <2>3. iter[1..i] = Op(iter[1..(i - 1)], s[i])
    BY <2>1, <2>2
  <2> QED
    BY <1>7, <1>11, <2>3
<1>12. PICK a : Run(a, n, Acc, acc, op) /\ a[n] = iter[1..n]
  <2>1. GoesAlong(iter, n, Acc, acc, op)
    BY <1>10, <1>11 DEF GoesAlong
  <2> HIDE DEF F
  <2>2. RunEnds(iter[1..n], n, Acc, acc, op)
    BY <1>0, <1>3, <1>4, <2>1, FoldRuns, Zenon
  <2> QED
    BY <2>2 DEF RunEnds
<1>13. a \in [0..n -> Acc] /\ a[0] = acc /\ a[n] = fold
  BY <1>1, <1>12 DEF Run
<1>14. \A i \in 1..n : a[i] = Op(a[i - 1], s[i]) /\ a[i - 1] \in Acc
  <2>1. \A i \in 1..n : a[i] = op[<<i, a[i - 1]>>] /\ i - 1 \in 0..n
    BY <1>0, <1>12 DEF Run
  <2> QED
    BY <1>7, <1>13, <2>1
<1> DEFINE V == [i \in 1..n |-> ToSet(ListEdgesFrom(E, s[i], limit))]
<1>15. \A i \in 1..n : Traces(limit, d, a[i - 1], V[i], a[i])
  <2>1. ASSUME NEW i \in 1..n
        PROVE  Traces(limit, d, a[i - 1], V[i], a[i])
    <3>1. Traces(limit, d, a[i - 1], ToSet(ListEdgesFrom(E, s[i], limit)), Op(a[i - 1], s[i]))
      BY <1>2, <1>14
    <3>2. a[i] = Op(a[i - 1], s[i])
      BY <1>14
    <3> QED
      BY <3>1, <3>2
  <2> QED
    BY <2>1
<1>16. UpToPlace(V, n) = UNION {ToSet(ListEdgesFrom(E, s[i], limit)) : i \in 1..Len(s)}
  BY <1>0 DEF n, UpToPlace
<1> HIDE DEF V
<1>17. Traces(limit, d, a[0], UpToPlace(V, n), a[n])
  <2>1. EachTraces(limit, d, a, V, n)
    BY <1>15 DEF EachTraces
  <2> QED
    BY <1>0, <2>1, TracedInTurn
<1>18. fold \in TraceReaches
  BY <1>0, <1>13 DEF Acc
<1> QED
  BY <1>13, <1>16, <1>17, <1>18 DEF fold

(* Level by level: what is reported at a step is first reached there.  b has *)
(* what lies within each distance and near what lies within the depth.      *)
TraceOK(q, E, near, b, d, acc) ==
    /\ acc \in TraceReaches /\ FlowsOK(acc)
    /\ acc.visited \subseteq b[d] /\ ToSet(acc.next) \subseteq acc.visited
    /\ \A x \in ToSet(acc.flows) : x.steps \in 1..d /\ x.id \in b[x.steps]
    /\ Len(acc.flows) < q.limit /\ Whole(q, E, near) =>
           /\ b[d] \subseteq acc.visited
           /\ \A a \in acc.visited \ ToSet(acc.next) : Joined(q, E, a) \subseteq acc.visited
           /\ \A x \in ToSet(acc.flows) : x.id \notin b[x.steps - 1]

TraceLevelStep(limit, E, acc, d) ==
    IF Len(acc.flows) >= limit THEN acc
    ELSE TraceLevel(limit, E, [acc EXCEPT !.next = <<>>], acc.next, d)

TraceStart(root) == [flows |-> <<>>, visited |-> {root}, next |-> <<root>>]

LEMMA TraceStartOK ==
  ASSUME NEW E, NEW q, NEW near, NEW root \in Int, NEW b, b[0] = {root}
  PROVE  TraceStart(root) \in TraceReaches /\ TraceOK(q, E, near, b, 0, TraceStart(root))
<1> DEFINE s == TraceStart(root)
<1>1. /\ s.flows = <<>> /\ s.visited = {root} /\ s.next = <<root>>
      /\ s = [flows |-> s.flows, visited |-> s.visited, next |-> s.next]
  BY DEF TraceStart
<1>2. <<>> \in Seq([id : Int, steps : Nat]) /\ DOMAIN <<>> = {} /\ ToSet(<<>>) = {}
  BY EmptySeq DEF ToSet
<1>3. <<root>> \in Seq(Int) /\ ToSet(<<root>>) = {root}
  BY DEF ToSet
<1> HIDE DEF s
<1>4. s \in TraceReaches
  BY <1>1, <1>2, <1>3 DEF TraceReaches
<1>5. FlowsOK(s)
  BY <1>1, <1>2 DEF FlowsOK, EachOnce
<1>6. s.visited \ ToSet(s.next) = {}
  BY <1>1, <1>3
<1> QED
  BY <1>1, <1>2, <1>3, <1>4, <1>5, <1>6 DEF TraceOK, s

LEMMA TracedEdges ==
  ASSUME NEW E, Graph(E), NEW limit \in Nat, NEW id
  PROVE  /\ \A e \in ToSet(ListEdgesFrom(E, id, limit)) : e \in E /\ e.from = id
         /\ Cardinality({e \in E : e.from = id}) <= limit =>
                \A e \in E : e.from = id => e \in ToSet(ListEdgesFrom(E, id, limit))
<1> DEFINE s == ListEdgesFrom(E, id, limit)
           S == {e \in E : e.from = id}
<1>1. s \in Seq(S) /\ (Cardinality(S) <= limit => S \subseteq ToSet(s))
  BY ListedFrom DEF FirstOf
<1>2. \A e \in S : e \in E /\ e.from = id
  OBVIOUS
<1>3. \A e \in E : e.from = id => e \in S
  OBVIOUS
<1> HIDE DEF s, S
<1>4. \A e \in ToSet(s) : e \in S
  BY <1>1, SeqFacts DEF ToSet
<1> QED
  BY <1>1, <1>2, <1>3, <1>4 DEF s, S

LEMMA TraceLevelStepOK ==
  ASSUME NEW E, Graph(E), NEW limit \in Nat, NEW q, q.up = FALSE, q.down = TRUE,
         q.types = TracedTypes, q.limit = limit, NEW near, NEW b,
         NEW d \in Nat, d > 0, b[d - 1] \subseteq near, b[d] = Spread(q, E, b[d - 1]),
         NEW acc, TraceOK(q, E, near, b, d - 1, acc)
  PROVE  TraceOK(q, E, near, b, d, TraceLevelStep(limit, E, acc, d))
<1>1. acc \in TraceReaches /\ Len(acc.flows) \in Nat /\ acc.next \in Seq(Int)
  BY LenProperties DEF TraceOK, TraceReaches
<1>2. b[d - 1] \subseteq b[d]
  BY DEF Spread
<1>3. \A x \in ToSet(acc.flows) : x.steps \in 1..d /\ x.id \in b[x.steps]
  BY DEF TraceOK
<1>4. CASE Len(acc.flows) >= limit
  <2>1. TraceLevelStep(limit, E, acc, d) = acc
    BY <1>4 DEF TraceLevelStep
  <2>2. ~(Len(acc.flows) < q.limit)
    BY <1>1, <1>4
  <2>3. acc.visited \subseteq b[d]
    BY <1>2 DEF TraceOK
  <2> QED
    BY <1>3, <2>1, <2>2, <2>3 DEF TraceOK
<1>5. CASE Len(acc.flows) < limit
  <2> DEFINE base == [acc EXCEPT !.next = <<>>]
             L == acc.next
             W == UNION {ToSet(ListEdgesFrom(E, L[i], limit)) : i \in 1..Len(L)}
             r == TraceLevel(limit, E, base, L, d)
  <2>1. TraceLevelStep(limit, E, acc, d) = r
    BY <1>1, <1>5 DEF TraceLevelStep
  <2>2. /\ base \in TraceReaches /\ base.flows = acc.flows /\ base.visited = acc.visited
        /\ base.next = <<>>
    BY <1>1, EmptySeq DEF TraceReaches
  <2>3. ToSet(<<>>) = {}
    BY DEF ToSet
  <2>4. ToSet(L) \subseteq acc.visited /\ acc.visited \subseteq b[d - 1] /\ FlowsOK(acc)
    BY DEF TraceOK
  <2> HIDE DEF base
  <2>5. r \in TraceReaches /\ Traces(limit, d, base, W, r)
    <3> HIDE DEF L
    <3> QED
      BY <1>1, <2>2, LevelTraced DEF L
  <2>6. \A e \in W : e \in E /\ e.from \in ToSet(L)
    <3>1. \A i \in 1..Len(L) : L[i] \in ToSet(L)
      BY <1>1, SeqFacts DEF ToSet
    <3>2. ASSUME NEW e \in W
          PROVE  e \in E /\ e.from \in ToSet(L)
      <4>1. PICK i \in 1..Len(L) : e \in ToSet(ListEdgesFrom(E, L[i], limit))
        OBVIOUS
      <4>2. e \in E /\ e.from = L[i]
        BY <4>1, TracedEdges
      <4> QED
        BY <3>1, <4>2
    <3> QED
      BY <3>2
  <2>7. \A id \in ToSet(L) : \A e \in ToSet(ListEdgesFrom(E, id, limit)) : e \in W
    <3>1. \A id \in ToSet(L) : \E i \in 1..Len(L) : L[i] = id
      BY <1>1, SeqFacts DEF ToSet
    <3> QED
      BY <3>1
  <2>8. \A a, e : e \in E /\ e.from = a /\ e.type \in TracedTypes => e.to \in Joined(q, E, a)
    BY DEF Joined
  <2>9. \A a, n : n \in Joined(q, E, a) => \E e \in E : e.from = a /\ e.type \in TracedTypes /\ n = e.to
    BY DEF Joined
  <2> HIDE DEF r, W, L
  <2>10. acc.visited \subseteq r.visited /\ ToSet(r.next) = r.visited \ acc.visited
    BY <2>2, <2>3, <2>5 DEF Traces
  <2>11. ASSUME NEW n \in r.visited \ acc.visited
         PROVE  n \in b[d]
    <3>1. PICK e \in W : n = e.to /\ e.type \in TracedTypes
      BY <2>2, <2>5 DEF Traces
    <3>2. n \in Joined(q, E, e.from) /\ e.from \in b[d - 1]
      BY <2>4, <2>6, <2>8, <3>1
    <3> QED
      BY <3>2 DEF Spread
  <2>12. r.visited \subseteq b[d]
    BY <1>2, <2>4, <2>11
  <2>13. \A x \in ToSet(r.flows) :
             x \in ToSet(acc.flows) \/ (x.steps = d /\ x.id \in r.visited \ acc.visited)
    BY <2>2, <2>5 DEF Traces
  <2>14. \A x \in ToSet(r.flows) : x.steps \in 1..d /\ x.id \in b[x.steps]
    <3>1. d \in 1..d
      OBVIOUS
    <3> QED
      BY <1>3, <2>11, <2>13, <3>1
  <2>15. FlowsOK(r)
    <3>1. FlowsOK(base)
      BY <2>2, <2>4 DEF FlowsOK
    <3> QED
      BY <2>5, <3>1 DEF Traces
  <2>16. ASSUME Len(r.flows) < q.limit, Whole(q, E, near)
         PROVE  /\ b[d] \subseteq r.visited
                /\ \A a \in r.visited \ ToSet(r.next) : Joined(q, E, a) \subseteq r.visited
                /\ \A x \in ToSet(r.flows) : x.id \notin b[x.steps - 1]
    <3>1. /\ b[d - 1] \subseteq acc.visited
          /\ \A a \in acc.visited \ ToSet(L) : Joined(q, E, a) \subseteq acc.visited
          /\ \A x \in ToSet(acc.flows) : x.id \notin b[x.steps - 1]
      BY <1>5, <2>16 DEF TraceOK, L
    <3>2. \A e \in W : e.type \in TracedTypes => e.to \in r.visited
      BY <2>5, <2>16 DEF Traces
    <3>3. ASSUME NEW a \in acc.visited, NEW n \in Joined(q, E, a)
          PROVE  n \in r.visited
      <4>1. CASE a \notin ToSet(L)
        BY <2>10, <3>1, <3>3, <4>1
      <4>2. CASE a \in ToSet(L)
        <5>1. PICK e \in E : e.from = a /\ e.type \in TracedTypes /\ n = e.to
          BY <2>9, <3>3
        <5>2. Cardinality({x \in E : x.from = a}) <= limit
          <6>1. a \in near
            BY <2>4, <3>3
          <6> QED
            BY <2>16, <6>1 DEF Whole
        <5>3. e \in ToSet(ListEdgesFrom(E, a, limit))
          BY <5>1, <5>2, TracedEdges
        <5> QED
          BY <2>7, <3>2, <4>2, <5>1, <5>3
      <4> QED
        BY <4>1, <4>2
    <3>4. b[d] \subseteq r.visited
      BY <2>10, <3>1, <3>3 DEF Spread
    <3>5. r.visited \ ToSet(r.next) \subseteq acc.visited
      BY <2>10
    <3>6. \A x \in ToSet(r.flows) : x.id \notin b[x.steps - 1]
      BY <2>13, <3>1
    <3> QED
      BY <3>3, <3>4, <3>5, <3>6
  <2>17. ToSet(r.next) \subseteq r.visited
    BY <2>10
  <2>18. TraceOK(q, E, near, b, d, r)
    BY <2>5, <2>12, <2>14, <2>15, <2>16, <2>17 DEF TraceOK
  <2> QED
    BY <2>1, <2>18
<1>6. Len(acc.flows) >= limit \/ Len(acc.flows) < limit
  BY <1>1
<1> QED
  BY <1>4, <1>5, <1>6

TraceLevelsOf(l, E, root, depth, limit) ==
    /\ l \in [0..depth -> TraceReaches] /\ l[0] = TraceStart(root)
    /\ \A d \in 1..depth : l[d] = TraceLevelStep(limit, E, l[d - 1], d)
    /\ TraceDataFlow(E, root, depth, limit, "both") = l[depth].flows

LEMMA TraceLevelsExist ==
  ASSUME NEW E, Graph(E), NEW depth \in Nat, NEW limit \in Nat, NEW root \in Int
  PROVE  \E l : TraceLevelsOf(l, E, root, depth, limit)
<1> DEFINE n == depth
           Acc == TraceReaches
           op == [p \in (1..n) \X Acc |-> TraceLevelStep(limit, E, p[2], p[1])]
           B(g) == [d \in 0..n |-> IF d = 0 THEN TraceStart(root)
                                   ELSE TraceLevelStep(limit, E, g[d - 1], d)]
           level == CHOOSE g : g = B(g)
<1>1. TraceDataFlow(E, root, depth, limit, "both") = level[n].flows
  BY DEF TraceDataFlow, TraceLevelStep, TraceStart, TraceLevel, TraceAll
<1> HIDE DEF Acc
<1>3. TraceStart(root) \in Acc
  <2>1. [i \in {0} |-> {root}][0] = {root}
    OBVIOUS
  <2> QED
    BY <2>1, TraceStartOK DEF Acc
<1>4. ASSUME NEW acc \in Acc, NEW d \in 1..n
      PROVE  TraceLevelStep(limit, E, acc, d) \in Acc
  <2>1. acc.next \in Seq(Int) /\ [acc EXCEPT !.next = <<>>] \in TraceReaches
    BY <1>4, EmptySeq DEF Acc, TraceReaches
  <2>2. TraceLevel(limit, E, [acc EXCEPT !.next = <<>>], acc.next, d) \in TraceReaches
    <3>1. d \in Nat
      OBVIOUS
    <3> QED
      BY <2>1, <3>1, LevelTraced
  <2> QED
    BY <1>4, <2>2 DEF TraceLevelStep, Acc
<1>5. op \in [(1..n) \X Acc -> Acc]
  BY <1>4
<1> HIDE DEF op
<1>6. PICK a : Run(a, n, Acc, TraceStart(root), op)
  BY <1>3, <1>5, RunExists
<1>7. /\ a \in [0..n -> Acc] /\ a[0] = TraceStart(root)
      /\ \A d \in 1..n : a[d] = TraceLevelStep(limit, E, a[d - 1], d)
  <2>1. \A d \in 1..n : a[d] = op[<<d, a[d - 1]>>] /\ a[d - 1] \in Acc
    BY <1>6 DEF Run
  <2>2. \A d \in 1..n, x \in Acc : op[<<d, x>>] = TraceLevelStep(limit, E, x, d)
    BY DEF op
  <2> QED
    BY <1>6, <2>1, <2>2 DEF Run
<1>8. a = B(a)
  <2>1. \A d \in 0..n : d = 0 \/ d \in 1..n
    OBVIOUS
  <2>2. \A d \in 0..n : a[d] = IF d = 0 THEN TraceStart(root) ELSE TraceLevelStep(limit, E, a[d - 1], d)
    BY <1>7, <2>1
  <2> QED
    BY <1>7, <2>2
<1>9. level = B(level)
  <2> HIDE DEF B
  <2> QED
    BY <1>8
<1> HIDE DEF level
<1>10. /\ level[0] = TraceStart(root)
       /\ \A d \in 1..n : d \in 0..n /\ level[d] = TraceLevelStep(limit, E, level[d - 1], d)
  <2>1. 0 \in 0..n /\ \A d \in 1..n : d \in 0..n /\ d # 0
    OBVIOUS
  <2> QED
    BY <1>9, <2>1
<1> DEFINE G == {d \in 0..n : level[d] = a[d]}
<1>11. 0 \in G
  BY <1>7, <1>10
<1>12. ASSUME NEW d \in 1..n, d - 1 \in G
       PROVE  d \in G
  BY <1>7, <1>10, <1>12
<1> HIDE DEF G
<1>13. 0..n \subseteq G
  BY <1>11, <1>12, Reached
<1>14. level[n] = a[n]
  BY <1>13 DEF G
<1>15. TraceLevelsOf(a, E, root, depth, limit)
  BY <1>1, <1>7, <1>14 DEF TraceLevelsOf, Acc
<1> QED
  BY <1>15

(* What lies within a distance does not depend on how far one looks. *)
LEMMA BallsAgree ==
  ASSUME NEW E, Graph(E), NEW depth \in Nat, NEW limit \in Nat, NEW root \in Int, NEW b,
         BallsOf(b, TracedDown(depth, limit), E, root), NEW k \in 0..depth
  PROVE  b[k] = Within(TracedDown(k, limit), E, root)
<1> DEFINE p == TracedDown(depth, limit)
           q == TracedDown(k, limit)
<1>1. p.depth = depth /\ q.depth = k /\ k \in Nat
  BY DEF TracedDown
<1>2. /\ p.up = FALSE /\ p.down = TRUE /\ p.types = TracedTypes
      /\ q.up = FALSE /\ q.down = TRUE /\ q.types = TracedTypes
  BY DEF TracedDown
<1> HIDE DEF p, q
<1>3. PICK c : BallsOf(c, q, E, root) /\ c[k] = Within(q, E, root)
  BY <1>1, BallsExist
<1>4. \A B : Spread(p, E, B) = Spread(q, E, B)
  <2>1. \A a : Joined(p, E, a) = Joined(q, E, a)
    BY <1>2 DEF Joined
  <2> QED
    BY <2>1 DEF Spread
<1>5. BallsOf(b, p, E, root)
  BY DEF p
<1>6. /\ b[0] = {root} /\ \A d \in 1..depth : b[d] = Spread(p, E, b[d - 1])
      /\ c[0] = {root} /\ \A d \in 1..k : c[d] = Spread(q, E, c[d - 1])
  BY <1>1, <1>3, <1>5 DEF BallsOf
<1> DEFINE G == {i \in 0..k : b[i] = c[i]}
<1>7. 0 \in G
  <2>1. 0 \in 0..k
    BY <1>1
  <2> QED
    BY <1>6, <2>1
<1>8. ASSUME NEW i \in 1..k, i - 1 \in G
      PROVE  i \in G
  <2>1. i \in 1..depth /\ i \in 0..k
    BY <1>1
  <2>2. b[i - 1] = c[i - 1]
    BY <1>8
  <2> QED
    BY <1>4, <1>6, <2>1, <2>2
<1> HIDE DEF G
<1>9. k \in G
  BY <1>1, <1>7, <1>8, ReachedEnd
<1> QED
  BY <1>3, <1>9 DEF G, q

(* The flows reported: each symbol once, at its distance. *)
LEMMA FlowsExact ==
  ASSUME NEW E, Graph(E), NEW depth \in Nat, NEW limit \in Nat, NEW root \in Int
  PROVE  LET flows == TraceDataFlow(E, root, depth, limit, "both")
             near == Within(TracedDown(depth, limit), E, root)
         IN  /\ EachOnce(flows)
             /\ \A x \in ToSet(flows) : x.id \in Within(TracedDown(x.steps, limit), E, root)
             /\ Len(flows) < limit /\ Whole(TracedDown(depth, limit), E, near) =>
                    \A x \in ToSet(flows) : x.id \notin Within(TracedDown(x.steps - 1, limit), E, root)
<1> DEFINE flows == TraceDataFlow(E, root, depth, limit, "both")
           q == TracedDown(depth, limit)
           near == Within(q, E, root)
<1>1. /\ q.depth = depth /\ q.up = FALSE /\ q.down = TRUE /\ q.types = TracedTypes /\ q.limit = limit
  BY DEF TracedDown
<1>b. PICK b : BallsOf(b, q, E, root) /\ b[depth] = near
  <2> HIDE DEF q
  <2> QED
    BY <1>1, BallsExist
<1>l. PICK l : TraceLevelsOf(l, E, root, depth, limit)
  BY TraceLevelsExist
<1>2. \A k \in 0..depth : b[k] = Within(TracedDown(k, limit), E, root)
  BY <1>b, BallsAgree
<1> HIDE DEF q, flows, near
<1>3. b[0] = {root} /\ \A d \in 1..depth : b[d] = Spread(q, E, b[d - 1])
  BY <1>1, <1>b DEF BallsOf
<1>4. \A d \in 0..depth : b[d] \subseteq near
  <2> DEFINE G == {k \in 0..depth : b[depth - k] \subseteq near}
  <2>1. 0 \in G
    BY <1>b
  <2>2. ASSUME NEW k \in 1..depth, k - 1 \in G
        PROVE  k \in G
    <3>1. depth - (k - 1) \in 1..depth /\ (depth - (k - 1)) - 1 = depth - k /\ k \in 0..depth
      OBVIOUS
    <3>2. b[depth - (k - 1)] = Spread(q, E, b[depth - k])
      BY <1>3, <3>1
    <3>3. b[depth - k] \subseteq b[depth - (k - 1)]
      BY <3>2 DEF Spread
    <3> QED
      BY <2>2, <3>1, <3>3
  <2> HIDE DEF G
  <2>3. 0..depth \subseteq G
    BY <2>1, <2>2, Reached
  <2>4. \A d \in 0..depth : depth - d \in 0..depth /\ depth - (depth - d) = d
    OBVIOUS
  <2> QED
    BY <2>3, <2>4 DEF G
<1>5. /\ l[0] = TraceStart(root) /\ flows = l[depth].flows
      /\ \A d \in 1..depth : l[d] = TraceLevelStep(limit, E, l[d - 1], d)
  BY <1>l DEF TraceLevelsOf, flows
<1> DEFINE G == {d \in 0..depth : TraceOK(q, E, near, b, d, l[d])}
<1>6. 0 \in G
  <2>1. 0 \in 0..depth /\ TraceOK(q, E, near, b, 0, TraceStart(root))
    BY <1>3, TraceStartOK
  <2> QED
    BY <1>5, <2>1
<1>7. ASSUME NEW d \in 1..depth, d - 1 \in G
      PROVE  d \in G
  <2>1. d \in 0..depth /\ d - 1 \in 0..depth /\ d \in Nat /\ d > 0
    OBVIOUS
  <2>2. b[d - 1] \subseteq near /\ b[d] = Spread(q, E, b[d - 1]) /\ TraceOK(q, E, near, b, d - 1, l[d - 1])
    BY <1>3, <1>4, <1>7, <2>1
  <2>3. TraceOK(q, E, near, b, d, TraceLevelStep(limit, E, l[d - 1], d))
    BY <1>1, <2>1, <2>2, TraceLevelStepOK
  <2> QED
    BY <1>5, <2>1, <2>3
<1> HIDE DEF G
<1>8. depth \in G
  BY <1>6, <1>7, ReachedEnd
<1>9. TraceOK(q, E, near, b, depth, l[depth])
  BY <1>8 DEF G
<1>10. EachOnce(flows) /\ \A x \in ToSet(flows) : x.steps \in 1..depth /\ x.id \in b[x.steps]
  BY <1>5, <1>9 DEF TraceOK, FlowsOK
<1>11. Len(flows) < limit /\ Whole(q, E, near) => \A x \in ToSet(flows) : x.id \notin b[x.steps - 1]
  BY <1>1, <1>5, <1>9 DEF TraceOK
<1>12. \A k \in 1..depth : k \in 0..depth /\ k - 1 \in 0..depth
  OBVIOUS
<1>13. \A x \in ToSet(flows) : /\ b[x.steps] = Within(TracedDown(x.steps, limit), E, root)
                               /\ b[x.steps - 1] = Within(TracedDown(x.steps - 1, limit), E, root)
  BY <1>2, <1>10, <1>12
<1> QED
  BY <1>10, <1>11, <1>13 DEF flows, q, near

-----------------------------------------------------------------------------
(* What a test selects from a list, and lists ordered by three numbers.    *)

(* Integers in ascending order. *)
Less(K) == {p \in K \X K : p[1] < p[2]}

LEMMA SortedInts ==
  ASSUME NEW K \in SUBSET Int, IsFiniteSet(K)
  PROVE  /\ InOrder(Sorted(K, LAMBDA i, j : i < j), Less(K), K)
         /\ DOMAIN Sorted(K, LAMBDA i, j : i < j) = 1..Cardinality(K)
<1> DEFINE before == [e \in K |-> Cardinality({d \in K : d < e})]
           q == [i \in 1..Cardinality(K) |-> CHOOSE e \in K : before[e] = i - 1]
<1>1. Sorted(K, LAMBDA i, j : i < j) = q
  BY DEF Sorted
<1>2. StrictOrder(Less(K), K)
  <2>1. \A d, e \in K : <<d, e>> \in Less(K) <=> d < e
    BY DEF Less
  <2> QED
    BY <2>1 DEF StrictOrder
<1>3. ASSUME NEW e \in K
      PROVE  before[e] = Cardinality(BelowIn(Less(K), K, e))
  <2>1. {d \in K : d < e} = BelowIn(Less(K), K, e)
    BY DEF Less, BelowIn
  <2> QED
    BY <2>1
<1>4. /\ FunctionOn(q, 1..Cardinality(K))
      /\ \A i \in 1..Cardinality(K) :
             (\E e \in K : before[e] = i - 1) => q[i] \in K /\ before[q[i]] = i - 1
  <2> HIDE DEF before
  <2> QED
    BY DEF FunctionOn
<1>5. DOMAIN q = 1..Cardinality(K)
  OBVIOUS
<1> HIDE DEF before, q
<1>6. InOrder(q, Less(K), K)
  BY <1>2, <1>3, <1>4, ChosenInOrder
<1> QED
  BY <1>1, <1>5, <1>6

(* What passes a test, in its order: each element of the result is one of  *)
(* those, each of those is in it, and no place of the sequence twice.      *)
Picks(res, s, K) ==
    \E at \in [DOMAIN res -> K] :
        /\ \A k \in DOMAIN res : res[k] = s[at[k]]
        /\ \A i \in K : \E k \in DOMAIN res : at[k] = i
        /\ \A j, k \in DOMAIN res : j < k <=> at[j] < at[k]

LEMMA PositionsFinite ==
  ASSUME NEW n \in Nat, NEW K \in SUBSET (1..n)
  PROVE  IsFiniteSet(K) /\ K \in SUBSET Int /\ Cardinality(K) \in Nat /\ Cardinality(K) <= n
<1>1. IsFiniteSet(1..n) /\ Cardinality(1..n) = n
  <2>1. 1 \in Int /\ n \in Int
    OBVIOUS
  <2>2. (IF 1 > n THEN 0 ELSE n - 1 + 1) = n
    OBVIOUS
  <2> QED
    BY <2>1, <2>2, FS_Interval
<1>2. IsFiniteSet(K) /\ Cardinality(K) <= n
  BY <1>1, FS_Subset
<1>3. \A i \in 1..n : i \in Int
  OBVIOUS
<1> QED
  BY <1>2, <1>3, FS_CardinalityType

(* The sequence of the places K of s. *)
Taken(s, K) ==
    LET at == Sorted(K, LAMBDA i, j : i < j)
    IN  [k \in DOMAIN at |-> s[at[k]]]

LEMMA TakenPicks ==
  ASSUME NEW S, NEW s \in Seq(S), NEW K \in SUBSET DOMAIN s
  PROVE  /\ Taken(s, K) \in Seq(S) /\ Len(Taken(s, K)) = Cardinality(K)
         /\ Picks(Taken(s, K), s, K)
<1> DEFINE at == Sorted(K, LAMBDA i, j : i < j)
           res == [k \in DOMAIN at |-> s[at[k]]]
<1>1. Len(s) \in Nat /\ DOMAIN s = 1..Len(s) /\ s \in [1..Len(s) -> S]
  BY LenProperties
<1>2. IsFiniteSet(K) /\ K \in SUBSET Int /\ Cardinality(K) \in Nat
  BY <1>1, PositionsFinite
<1>3. Taken(s, K) = res
  BY DEF Taken
<1>4. InOrder(at, Less(K), K) /\ DOMAIN at = 1..Cardinality(K)
  BY <1>2, SortedInts
<1> HIDE DEF at
<1>5. at \in [1..Cardinality(K) -> K]
  <2>1. at \in Seq(K) /\ Len(at) = Cardinality(K)
    BY <1>4 DEF InOrder
  <2> QED
    BY <2>1, LenProperties
<1>6. \A k \in 1..Cardinality(K) : at[k] \in K /\ s[at[k]] \in S
  BY <1>1, <1>5
<1>7. res \in [1..Cardinality(K) -> S] /\ DOMAIN res = 1..Cardinality(K)
  BY <1>4, <1>6
<1>8. \A k \in 1..Cardinality(K) : res[k] = s[at[k]]
  BY <1>4
<1> HIDE DEF res
<1>9. res \in Seq(S) /\ Len(res) = Cardinality(K)
  BY <1>2, <1>7, FunctionIsSeq
<1>10. \A j, k \in 1..Cardinality(K) : j < k <=> at[j] < at[k]
  <2>1. \A j, k \in 1..Cardinality(K) : j < k <=> <<at[j], at[k]>> \in Less(K)
    BY <1>4 DEF InOrder
  <2>2. \A d, e \in K : <<d, e>> \in Less(K) <=> d < e
    BY DEF Less
  <2> QED
    BY <1>6, <2>1, <2>2
<1>11. \A i \in K : \E k \in 1..Cardinality(K) : at[k] = i
  BY <1>4 DEF InOrder
<1>12. Picks(res, s, K)
  BY <1>5, <1>7, <1>8, <1>10, <1>11 DEF Picks
<1> QED
  BY <1>3, <1>9, <1>12

LEMMA TakenMembers ==
  ASSUME NEW S, NEW s \in Seq(S), NEW K \in SUBSET DOMAIN s
  PROVE  /\ Taken(s, K) \in Seq(S) /\ Len(Taken(s, K)) \in Nat /\ Len(Taken(s, K)) <= Len(s)
         /\ ToSet(Taken(s, K)) = {s[i] : i \in K}
<1> DEFINE t == Taken(s, K)
<1>1. t \in Seq(S) /\ Len(t) = Cardinality(K) /\ Picks(t, s, K)
  BY TakenPicks
<1>2. Len(s) \in Nat /\ DOMAIN s = 1..Len(s)
  BY SeqFacts
<1>3. Cardinality(K) <= Len(s) /\ Cardinality(K) \in Nat
  BY <1>2, PositionsFinite
<1> HIDE DEF t
<1>4. PICK at \in [DOMAIN t -> K] :
          /\ \A k \in DOMAIN t : t[k] = s[at[k]]
          /\ \A i \in K : \E k \in DOMAIN t : at[k] = i
  BY <1>1 DEF Picks
<1>5. ToSet(t) = {s[i] : i \in K}
  BY <1>4 DEF ToSet
<1> QED
  BY <1>1, <1>3, <1>5 DEF t

ByNumbers(S, f, g, h) ==
    {p \in S \X S : \/ f[p[1]] < f[p[2]]
                    \/ f[p[1]] = f[p[2]] /\ g[p[1]] < g[p[2]]
                    \/ f[p[1]] = f[p[2]] /\ g[p[1]] = g[p[2]] /\ h[p[1]] < h[p[2]]}

LEMMA ByNumbersStrict ==
  ASSUME NEW S, NEW f \in [S -> Int], NEW g \in [S -> Int], NEW h \in [S -> Int],
         \A d, e \in S : f[d] = f[e] /\ g[d] = g[e] /\ h[d] = h[e] => d = e
  PROVE  StrictOrder(ByNumbers(S, f, g, h), S)
<1> DEFINE R == ByNumbers(S, f, g, h)
<1>1. \A e \in S : f[e] \in Int /\ g[e] \in Int /\ h[e] \in Int
  OBVIOUS
<1>2. \A d, e \in S : <<d, e>> \in R <=> \/ f[d] < f[e]
                                         \/ f[d] = f[e] /\ g[d] < g[e]
                                         \/ f[d] = f[e] /\ g[d] = g[e] /\ h[d] < h[e]
  BY DEF ByNumbers
<1> HIDE DEF R
<1>3. \A d \in S : <<d, d>> \notin R
  BY <1>1, <1>2
<1>4. \A c, d, e \in S : <<c, d>> \in R /\ <<d, e>> \in R => <<c, e>> \in R
  BY <1>1, <1>2
<1>5. \A d, e \in S : d # e => <<d, e>> \in R \/ <<e, d>> \in R
  BY <1>1, <1>2
<1>6. StrictOrder(R, S)
  BY <1>3, <1>4, <1>5 DEF StrictOrder
<1> QED
  BY <1>6 DEF R

-----------------------------------------------------------------------------
(* The tools. *)

(* The lists of find_affected_code and search_todos, in order and cut. *)
AffectedRows(N, X, limit) ==
    FirstRows(N, LAMBDA m, n : IF (m \in X) = (n \in X) THEN m < n ELSE m \in X, limit)

TodoList(T, file, limit) ==
    FirstRows({t \in T : file \in {0, t.file}},
              LAMBDA s, t : s.file < t.file \/ (s.file = t.file /\ s.line < t.line), limit)

LEMMA AffectedFirst ==
  ASSUME NEW N \in SUBSET Int, IsFiniteSet(N), NEW X, NEW limit \in Nat
  PROVE  FirstOf(AffectedRows(N, X, limit), N, limit)
<1> DEFINE S == N
           B(d, e) == IF (d \in X) = (e \in X) THEN d < e ELSE d \in X
           before == [e \in S |-> Cardinality({d \in S : B(d, e)})]
           q == [i \in 1..Cardinality(S) |-> CHOOSE e \in S : before[e] = i - 1]
           f == [e \in S |-> IF e \in X THEN 0 ELSE 1]
           g == [e \in S |-> e]
           h == [e \in S |-> 0]
           R == ByNumbers(S, f, g, h)
<1>1. AffectedRows(N, X, limit) = Truncate(q, limit)
  BY DEF AffectedRows, FirstRows, Sorted
<1>2. IsFiniteSet(S)
  OBVIOUS
<1>3. \A e \in S : f[e] \in Int /\ g[e] \in Int /\ h[e] \in Int
  OBVIOUS
<1>4. \A d, e \in S : <<d, e>> \in R <=> B(d, e)
  BY DEF ByNumbers
<1>5. StrictOrder(R, S)
  <2>1. f \in [S -> Int] /\ g \in [S -> Int] /\ h \in [S -> Int]
    BY <1>3
  <2>2. \A d, e \in S : f[d] = f[e] /\ g[d] = g[e] /\ h[d] = h[e] => d = e
    OBVIOUS
  <2> HIDE DEF f, g, h, S
  <2> QED
    BY <2>1, <2>2, ByNumbersStrict
<1> HIDE DEF R, B, S
<1>6. \A e \in S : before[e] = Cardinality(BelowIn(R, S, e))
  <2>1. ASSUME NEW e \in S
        PROVE  {d \in S : B(d, e)} = BelowIn(R, S, e)
    BY <1>4 DEF BelowIn
  <2> QED
    BY <2>1
<1> HIDE DEF before
<1>7. \A i \in 1..Cardinality(S) : (\E e \in S : before[e] = i - 1) => q[i] \in S /\ before[q[i]] = i - 1
  OBVIOUS
<1>8. FunctionOn(q, 1..Cardinality(S))
  BY DEF FunctionOn
<1> HIDE DEF q
<1>9. FirstOf(Truncate(q, limit), S, limit)
  BY <1>2, <1>5, <1>6, <1>7, <1>8, FirstRowsChosen
<1> QED
  BY <1>1, <1>9 DEF S

LEMMA TodosFirst ==
  ASSUME NEW T, TodoRows(T), \A n \in T : n.file \in Int, NEW file, NEW limit \in Nat
  PROVE  FirstOf(TodoList(T, file, limit), {t \in T : file \in {0, t.file}}, limit)
<1> DEFINE S == {t \in T : file \in {0, t.file}}
           B(d, e) == d.file < e.file \/ (d.file = e.file /\ d.line < e.line)
           before == [e \in S |-> Cardinality({d \in S : B(d, e)})]
           q == [i \in 1..Cardinality(S) |-> CHOOSE e \in S : before[e] = i - 1]
           f == [e \in S |-> e.file]
           g == [e \in S |-> e.line]
           h == [e \in S |-> 0]
           R == ByNumbers(S, f, g, h)
<1>1. TodoList(T, file, limit) = Truncate(q, limit)
  BY DEF TodoList, FirstRows, Sorted
<1>2. IsFiniteSet(S)
  BY FS_Subset DEF TodoRows
<1>3. \A e \in S : f[e] \in Int /\ g[e] \in Int /\ h[e] \in Int
  BY DEF TodoRows
<1>4. \A d, e \in S : <<d, e>> \in R <=> B(d, e)
  BY DEF ByNumbers
<1>5. StrictOrder(R, S)
  <2>1. f \in [S -> Int] /\ g \in [S -> Int] /\ h \in [S -> Int]
    BY <1>3
  <2>2. \A d, e \in S : f[d] = f[e] /\ g[d] = g[e] /\ h[d] = h[e] => d = e
    BY DEF TodoRows
  <2> HIDE DEF f, g, h, S
  <2> QED
    BY <2>1, <2>2, ByNumbersStrict
<1> HIDE DEF R, B, S
<1>6. \A e \in S : before[e] = Cardinality(BelowIn(R, S, e))
  <2>1. ASSUME NEW e \in S
        PROVE  {d \in S : B(d, e)} = BelowIn(R, S, e)
    BY <1>4 DEF BelowIn
  <2> QED
    BY <2>1
<1> HIDE DEF before
<1>7. \A i \in 1..Cardinality(S) : (\E e \in S : before[e] = i - 1) => q[i] \in S /\ before[q[i]] = i - 1
  OBVIOUS
<1>8. FunctionOn(q, 1..Cardinality(S))
  BY DEF FunctionOn
<1> HIDE DEF q
<1>9. FirstOf(Truncate(q, limit), S, limit)
  BY <1>2, <1>5, <1>6, <1>7, <1>8, FirstRowsChosen
<1> QED
  BY <1>1, <1>9 DEF S

LEMMA PatternsFirst ==
  ASSUME NEW P, PatternRows(P), NEW file, NEW kind, \A n \in P : n.file \in Int, NEW limit \in Nat
  PROVE  FirstOf(SearchFrameworkPatterns(P, file, kind, limit),
                 {p \in P : file \in {0, p.file} /\ kind \in {"all", p.is.kind}}, limit)
<1> DEFINE S == {p \in P : file \in {0, p.file} /\ kind \in {"all", p.is.kind}}
           B(d, e) == \/ d.file < e.file
                      \/ d.file = e.file /\ d.is.line < e.is.line
                      \/ d.file = e.file /\ d.is.line = e.is.line /\ d.nth < e.nth
           before == [e \in S |-> Cardinality({d \in S : B(d, e)})]
           q == [i \in 1..Cardinality(S) |-> CHOOSE e \in S : before[e] = i - 1]
           f == [e \in S |-> e.file]
           g == [e \in S |-> e.is.line]
           h == [e \in S |-> e.nth]
           R == ByNumbers(S, f, g, h)
<1>1. SearchFrameworkPatterns(P, file, kind, limit) = Truncate(q, limit)
  BY DEF SearchFrameworkPatterns, FirstRows, Sorted
<1>2. IsFiniteSet(S)
  BY FS_Subset DEF PatternRows
<1>3. \A e \in S : f[e] \in Int /\ g[e] \in Int /\ h[e] \in Int
  BY DEF PatternRows
<1>4. \A d, e \in S : <<d, e>> \in R <=> B(d, e)
  BY DEF ByNumbers
<1>5. StrictOrder(R, S)
  <2>1. f \in [S -> Int] /\ g \in [S -> Int] /\ h \in [S -> Int]
    BY <1>3
  <2>2. \A d, e \in S : f[d] = f[e] /\ g[d] = g[e] /\ h[d] = h[e] => d = e
    BY DEF PatternRows
  <2> HIDE DEF f, g, h, S
  <2> QED
    BY <2>1, <2>2, ByNumbersStrict
<1> HIDE DEF R, B, S
<1>6. \A e \in S : before[e] = Cardinality(BelowIn(R, S, e))
  <2>1. ASSUME NEW e \in S
        PROVE  {d \in S : B(d, e)} = BelowIn(R, S, e)
    BY <1>4 DEF BelowIn
  <2> QED
    BY <2>1
<1> HIDE DEF before
<1>7. \A i \in 1..Cardinality(S) : (\E e \in S : before[e] = i - 1) => q[i] \in S /\ before[q[i]] = i - 1
  OBVIOUS
<1>8. FunctionOn(q, 1..Cardinality(S))
  BY DEF FunctionOn
<1> HIDE DEF q
<1>9. FirstOf(Truncate(q, limit), S, limit)
  BY <1>2, <1>5, <1>6, <1>7, <1>8, FirstRowsChosen
<1> QED
  BY <1>1, <1>9 DEF S

LEMMA AllOfFew ==
  ASSUME NEW S, NEW limit, NEW s, FirstOf(s, S, limit), Cardinality(S) <= limit
  PROVE  ToSet(s) = S
<1>1. s \in Seq(S) /\ S \subseteq ToSet(s)
  BY DEF FirstOf
<1>2. \A i \in DOMAIN s : s[i] \in S
  BY <1>1, SeqFacts
<1> QED
  BY <1>1, <1>2 DEF ToSet

LEMMA AffectedExact ==
  ASSUME NEW E, Graph(E), NEW depth \in Nat, NEW limit \in Nat, NEW root \in Int, NEW X
  PROVE  ToSet(Affected(E, root, depth, limit, {}, X))
             = Traverse(DependencyQuery("upstream", depth, limit), E, root).nodes \ {root}
<1> DEFINE q == DependencyQuery("upstream", depth, limit)
           g == Traverse(q, E, root)
           N == g.nodes \ {root}
           s == AffectedRows(N, X, limit)
<1>1. Affected(E, root, depth, limit, {}, X) = s
  <2>1. g.nodes \ ({root} \cup {}) = N
    OBVIOUS
  <2> HIDE DEF N, g
  <2> QED
    BY <2>1 DEF Affected, AffectedRows, g
<1>2. q.depth = depth /\ q.limit = limit
  BY DEF DependencyQuery
<1>3. /\ Len(g.edges) <= q.limit /\ g.edges \in Seq(E)
      /\ g.nodes \subseteq Int /\ root \in g.nodes
      /\ IsFiniteSet(g.nodes) /\ Cardinality(g.nodes) <= 1 + Len(g.edges)
  <2> HIDE DEF q
  <2> QED
    BY <1>2, TraversalExact
<1> HIDE DEF g, q
<1>4. IsFiniteSet(N) /\ Cardinality(N) = Cardinality(g.nodes) - 1
  BY <1>3, FS_RemoveElement
<1>5. Cardinality(g.nodes) \in Nat /\ Len(g.edges) \in Nat
  BY <1>3, FS_CardinalityType, LenProperties
<1>6. Cardinality(N) <= limit
  BY <1>2, <1>3, <1>4, <1>5
<1>7. N \in SUBSET Int
  BY <1>3
<1> HIDE DEF N
<1>8. FirstOf(s, N, limit)
  BY <1>4, <1>7, AffectedFirst
<1> HIDE DEF s
<1>9. ToSet(s) = N
  BY <1>6, <1>8, AllOfFew
<1> QED
  BY <1>1, <1>9 DEF N, g, q

LEMMA FlattenOne ==
  ASSUME NEW S, NEW x \in S, NEW s, FunctionOn(s, 1..1), s[1] = x
  PROVE  FlattenSeq(s) = x
<1>1. s \in [1..1 -> S]
  BY DEF FunctionOn
<1>2. s \in Seq(S) /\ Len(s) = 1
  <2>1. \E n \in Nat : n = 1
    OBVIOUS
  <2> QED
    BY <1>1, <2>1, FunctionIsSeq
<1> DEFINE B(g) == [i \in 1..1 |-> IF i = 1 THEN s[i] ELSE g[i - 1] \o s[i]]
           flatten == CHOOSE g : g = B(g)
<1>3. FlattenSeq(s) = flatten[1]
  <2>1. ~(Len(s) = 0)
    BY <1>2
  <2> QED
    BY <1>2, <2>1 DEF FlattenSeq
<1>4. \A i \in 1..1 : i = 1
  OBVIOUS
<1>5. s = B(s)
  <2>1. \A i \in 1..1 : s[i] = IF i = 1 THEN s[i] ELSE s[i - 1] \o s[i]
    BY <1>4
  <2> QED
    BY <2>1 DEF FunctionOn
<1>6. flatten = B(flatten)
  <2> HIDE DEF B
  <2> QED
    BY <1>5
<1> HIDE DEF flatten
<1>7. flatten[1] = s[1]
  BY <1>6
<1> QED
  BY <1>3, <1>7

LEMMA ReferencesExact ==
  ASSUME NEW E, Graph(E), NEW root, NEW type, type # "all", NEW limit \in Nat,
         Cardinality({e \in E : e.to = root}) <= limit
  PROVE  ToSet(FindReferences(E, <<root>>, type, limit)) = {e \in E : e.to = root /\ e.type = type}
<1> DEFINE S == {e \in E : e.to = root}
           list == ListEdgesTo(E, root, limit * 3)
           K == {i \in DOMAIN list : type = "all" \/ list[i].type = type}
           refs == Taken(list, K)
           found == [i \in 1..1 |-> refs]
<1>1. limit * 3 \in Nat /\ limit <= limit * 3
  OBVIOUS
<1>2. FirstOf(list, S, limit * 3)
  BY <1>1, ListedTo
<1>3. IsFiniteSet(S) /\ Cardinality(S) \in Nat
  BY FS_Subset, FS_CardinalityType DEF Graph
<1>4. FindReferences(E, <<root>>, type, limit) = Truncate(FlattenSeq(found), limit)
  <2>1. DOMAIN <<root>> = 1..1 /\ \A i \in 1..1 : <<root>>[i] = root
    OBVIOUS
  <2>2. [i \in DOMAIN <<root>> |-> Select(ListEdgesTo(E, <<root>>[i], limit * 3),
                                          LAMBDA e : type = "all" \/ e.type = type)]
        = [i \in 1..1 |-> Select(list, LAMBDA e : type = "all" \/ e.type = type)]
    BY <2>1
  <2>3. Select(list, LAMBDA e : type = "all" \/ e.type = type) = refs
    BY DEF Select, Taken
  <2> HIDE DEF list, refs
  <2> QED
    BY <2>2, <2>3 DEF FindReferences, list
<1>5. ToSet(list) = S
  <2>1. Cardinality(S) <= limit * 3
    BY <1>1, <1>3
  <2> HIDE DEF list, S
  <2> QED
    BY <1>2, <2>1, AllOfFew
<1>6. list \in Seq(S) /\ Len(list) <= limit /\ Len(list) \in Nat
  <2> HIDE DEF S, list
  <2>1. list \in Seq(S) /\ Len(list) = Min2(limit * 3, Cardinality(S))
    BY <1>2 DEF FirstOf
  <2> QED
    BY <1>1, <1>3, <2>1, LenProperties DEF Min2, S
<1> HIDE DEF list
<1>7. K \in SUBSET DOMAIN list
  OBVIOUS
<1> HIDE DEF S, K
<1>8. /\ refs \in Seq(S) /\ Len(refs) \in Nat /\ Len(refs) <= Len(list)
      /\ ToSet(refs) = {list[i] : i \in K}
  BY <1>6, <1>7, TakenMembers
<1> HIDE DEF refs
<1>9. FlattenSeq(found) = refs
  <2>1. FunctionOn(found, 1..1) /\ found[1] = refs
    BY DEF FunctionOn
  <2> HIDE DEF found
  <2> QED
    BY <1>8, <2>1, FlattenOne
<1>10. Truncate(refs, limit) = refs
  <2>1. (IF limit < Len(refs) THEN limit ELSE Len(refs)) = Len(refs)
    BY <1>6, <1>8
  <2>2. SubSeq(refs, 1, Len(refs)) = refs
    BY <1>8
  <2> QED
    BY <2>1, <2>2 DEF Truncate
<1>11. ToSet(refs) = {e \in S : e.type = type}
  <2>1. \A i \in DOMAIN list : i \in K <=> list[i].type = type
    BY DEF K
  <2>2. ToSet(refs) = {list[i] : i \in {j \in DOMAIN list : list[j].type = type}}
    BY <1>7, <1>8, <2>1
  <2>3. S = {list[i] : i \in DOMAIN list}
    BY <1>5 DEF ToSet
  <2> QED
    BY <2>2, <2>3
<1> QED
  BY <1>4, <1>9, <1>10, <1>11 DEF S

LEMMA TodosExact ==
  ASSUME NEW T, TodoRows(T), \A n \in T : n.file \in Nat \ {0}, NEW file \in Nat \ {0},
         NEW kind, kind # "all", NEW limit \in Nat,
         Cardinality({n \in T : n.file = file}) <= limit
  PROVE  ToSet(SearchTodos(T, file, kind, limit)) = {n \in T : n.file = file /\ n.kind = kind}
<1> DEFINE S == {n \in T : n.file = file}
           rows == TodoList(T, file, limit)
           K == {i \in DOMAIN rows : kind = "all" \/ rows[i].kind = kind}
<1>1. SearchTodos(T, file, kind, limit) = Taken(rows, K)
  BY DEF SearchTodos, TodoList, Select, Taken
<1>2. {t \in T : file \in {0, t.file}} = S
  OBVIOUS
<1>3. FirstOf(rows, {t \in T : file \in {0, t.file}}, limit)
  BY TodosFirst
<1> HIDE DEF rows
<1>4. FirstOf(rows, S, limit)
  BY <1>2, <1>3
<1>5. ToSet(rows) = S
  <2>1. Cardinality(S) <= limit
    OBVIOUS
  <2> HIDE DEF S
  <2> QED
    BY <1>4, <2>1, AllOfFew
<1>6. rows \in Seq(S)
  BY <1>4 DEF FirstOf
<1>7. ToSet(Taken(rows, K)) = {rows[i] : i \in K}
  <2> HIDE DEF S
  <2>1. K \in SUBSET DOMAIN rows
    OBVIOUS
  <2> HIDE DEF K
  <2> QED
    BY <1>6, <2>1, TakenMembers
<1>8. S = {rows[i] : i \in DOMAIN rows}
  BY <1>5 DEF ToSet
<1>9. K = {i \in DOMAIN rows : rows[i].kind = kind}
  OBVIOUS
<1>10. {rows[i] : i \in K} = {n \in S : n.kind = kind}
  <2> HIDE DEF S, K
  <2> QED
    BY <1>8, <1>9
<1> HIDE DEF K
<1> QED
  BY <1>1, <1>7, <1>10

LEMMA IndInvTools == IndInv /\ NoteRowsInv => ToolsAreExact
<1> SUFFICES ASSUME IndInv, NoteRowsInv, NEW root \in Ids, NEW depth \in Depths, NEW limit \in Limits
             PROVE  /\ AffectedAreComplete(root, depth, limit)
                    /\ FlowsAreShortest(root, depth, limit)
                    /\ ReferencesAreComplete(root, limit)
                    /\ TodosAreComplete(limit)
                    /\ PatternsAreComplete(limit)
  BY DEF ToolsAreExact
<1>1. root \in Int /\ Graph(edges) /\ depth \in Nat /\ limit \in Nat
  BY StoredGraph, GraphBoundsAssumption
<1>2. Files \subseteq Nat \ {0}
  BY GraphFilesAssumption
<1>3. /\ TodoRows(todos) /\ PatternRows(patterns)
      /\ \A n \in todos \cup patterns : n.file \in Nat \ {0}
  BY <1>2 DEF NoteRowsInv, IndInv, NotesInv
<1> HIDE DEF Files
<1>4. ASSUME NEW X
      PROVE  LET affected == Affected(edges, root, depth, limit, {}, X)
             IN  {affected[i] : i \in DOMAIN affected}
                     = Traverse(DependencyQuery("upstream", depth, limit), edges, root).nodes \ {root}
  <2>1. ToSet(Affected(edges, root, depth, limit, {}, X))
            = Traverse(DependencyQuery("upstream", depth, limit), edges, root).nodes \ {root}
    BY <1>1, AffectedExact
  <2> QED
    BY <2>1 DEF ToSet
<1> DEFINE flows == TraceDataFlow(edges, root, depth, limit, "both")
<1>5. /\ EachOnce(flows)
      /\ \A x \in ToSet(flows) : x.id \in Within(TracedDown(x.steps, limit), edges, root)
      /\ Len(flows) < limit
             /\ Whole(TracedDown(depth, limit), edges, Within(TracedDown(depth, limit), edges, root)) =>
             \A x \in ToSet(flows) : x.id \notin Within(TracedDown(x.steps - 1, limit), edges, root)
  BY <1>1, FlowsExact
<1> HIDE DEF flows
<1>6. \A i \in DOMAIN flows : flows[i] \in ToSet(flows)
  BY DEF ToSet
<1>7. Unlimited(TracedDown(depth, limit), Within(TracedDown(depth, limit), edges, root)) =>
          Whole(TracedDown(depth, limit), edges, Within(TracedDown(depth, limit), edges, root))
  BY DEF Unlimited, Whole, Degree
<1>8. /\ \A i, j \in DOMAIN flows : flows[i].id = flows[j].id => i = j
      /\ \A i \in DOMAIN flows : flows[i].id \in Within(TracedDown(flows[i].steps, limit), edges, root)
      /\ Len(flows) < limit
             /\ Unlimited(TracedDown(depth, limit), Within(TracedDown(depth, limit), edges, root)) =>
             \A i \in DOMAIN flows :
                 flows[i].id \notin Within(TracedDown(flows[i].steps - 1, limit), edges, root)
  BY <1>5, <1>6, <1>7 DEF EachOnce
<1>9. ASSUME Cardinality({e \in edges : e.to = root}) <= limit, NEW t \in EdgeTypes
      PROVE  LET refs == FindReferences(edges, <<root>>, t, limit)
             IN  {refs[i] : i \in DOMAIN refs} = {e \in {e \in edges : e.to = root} : e.type = t}
  <2>1. t # "all"
    BY EdgeTypesAre
  <2>2. ToSet(FindReferences(edges, <<root>>, t, limit)) = {e \in edges : e.to = root /\ e.type = t}
    BY <1>1, <1>9, <2>1, ReferencesExact
  <2>3. {e \in {e \in edges : e.to = root} : e.type = t} = {e \in edges : e.to = root /\ e.type = t}
    OBVIOUS
  <2> QED
    BY <2>2, <2>3 DEF ToSet
<1>10. ASSUME NEW kind \in {"todo", "fixme"}, NEW f \in Files,
              Cardinality({n \in todos : n.file = f}) <= limit
       PROVE  LET found == SearchTodos(todos, f, kind, limit)
              IN  {found[i] : i \in DOMAIN found} = {n \in {n \in todos : n.file = f} : n.kind = kind}
  <2>1. kind # "all" /\ f \in Nat \ {0} /\ \A n \in todos : n.file \in Nat \ {0}
    BY <1>2, <1>3
  <2>2. ToSet(SearchTodos(todos, f, kind, limit)) = {n \in todos : n.file = f /\ n.kind = kind}
    BY <1>1, <1>3, <1>10, <2>1, TodosExact
  <2>3. {n \in {n \in todos : n.file = f} : n.kind = kind} = {n \in todos : n.file = f /\ n.kind = kind}
    OBVIOUS
  <2> QED
    BY <2>2, <2>3 DEF ToSet
<1>11. ASSUME NEW f \in Files
       PROVE  LET asked == {n \in patterns : n.file = f /\ n.is.kind = "route"}
                  found == SearchFrameworkPatterns(patterns, f, "route", limit)
              IN  /\ Len(found) = Min2(limit, Cardinality(asked))
                  /\ \A i \in DOMAIN found : found[i] \in asked
  <2> DEFINE asked == {n \in patterns : n.file = f /\ n.is.kind = "route"}
             found == SearchFrameworkPatterns(patterns, f, "route", limit)
  <2>1. f \in Nat \ {0} /\ \A n \in patterns : n.file \in Int
    BY <1>2, <1>3
  <2>2. FirstOf(found, {p \in patterns : f \in {0, p.file} /\ "route" \in {"all", p.is.kind}}, limit)
    BY <1>1, <1>3, <2>1, PatternsFirst
  <2>3. {p \in patterns : f \in {0, p.file} /\ "route" \in {"all", p.is.kind}} = asked
    BY <2>1
  <2> HIDE DEF found, asked
  <2>4. FirstOf(found, asked, limit)
    BY <2>2, <2>3
  <2> QED
    BY <2>4, SeqFacts DEF FirstOf, found, asked
<1>12. AffectedAreComplete(root, depth, limit)
  BY <1>4 DEF AffectedAreComplete
<1>13. FlowsAreShortest(root, depth, limit)
  BY <1>8 DEF FlowsAreShortest, flows
<1>14. ReferencesAreComplete(root, limit)
  BY <1>9 DEF ReferencesAreComplete
<1>15. TodosAreComplete(limit)
  BY <1>10 DEF TodosAreComplete
<1>16. PatternsAreComplete(limit)
  BY <1>11 DEF PatternsAreComplete
<1> QED
  BY <1>12, <1>13, <1>14, <1>15, <1>16

(* The inductive invariant together with what the stored notes are.        *)
THEOREM NotesInvariance == Spec => [](IndInv /\ NoteRowsInv)
<1>1. Init => IndInv /\ NoteRowsInv
  BY IndInvInit, NoteRowsInit
<1>2. (IndInv /\ NoteRowsInv) /\ [Next]_vars => (IndInv /\ NoteRowsInv)'
  BY IndInvStep, NoteRowsStep DEF IndInv
<1> QED
  BY <1>1, <1>2, PTL DEF Spec

(* Of the tools on the stored graph and notes, whatever the graph, the     *)
(* notes, the depth and the limit: the affected code is what the traversal *)
(* reaches, a traced flow is reported once and at its distance, no         *)
(* reference, TODO or pattern is missed that the limit does not cut off.   *)
THEOREM ToolsStayExact == Spec => []ToolsAreExact
<1>1. IndInv /\ NoteRowsInv => ToolsAreExact
  BY IndInvTools
<1> QED
  BY <1>1, NotesInvariance, PTL
================================================================================
