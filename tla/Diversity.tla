------------------------------- MODULE Diversity -------------------------------
(***************************************************************************)
(* Which of the ranked hits are answered: diversification (diversify.rs)   *)
(* and expansion along edges (expansion.rs) of src/src/retrieval/ranking.  *)
(***************************************************************************)
EXTENDS Ranking, GraphQueries

Least(a, b) == IF a < b THEN a ELSE b
Most(a, b) == IF a > b THEN a ELSE b

\* One hit of the pass below: nothing is taken beyond the limit, and one whose
\* group (None: no group) is full is put back.
Take(acc, h, limit, group, max) ==
    IF Len(acc.out) >= limit THEN acc
    ELSE IF group[h.id] # None
            /\ Cardinality({o \in DOMAIN acc.out : group[acc.out[o].id] = group[h.id]}) >= max
         THEN [acc EXCEPT !.deferred = Append(@, h)]
         ELSE [acc EXCEPT !.out = Append(@, h)]

\* One pass over the ranked hits; what was put back fills the rest in order.
TakePerGroup(hits, limit, group, max) ==
    LET end == FoldLeft(LAMBDA acc, h : Take(acc, h, limit, group, max),
                        [out |-> <<>>, deferred |-> <<>>], hits)
    IN  end.out \o Truncate(end.deferred, limit - Len(end.out))

\* Mutant: what is taken of a cluster is not counted.
DiversifyNotCounting(hits, limit, cluster) ==
    IF hits = <<>> \/ limit <= 1 THEN hits
    ELSE TakePerGroup(hits, limit, cluster, limit)

\* At most two hits of a similarity cluster, unless there is nothing else.
DiversifyByCluster(hits, limit, cluster) ==
    IF hits = <<>> \/ limit <= 1 THEN hits
    ELSE TakePerGroup(hits, limit, cluster, 2)

DiversifyByFile(hits, limit) ==
    IF Len(hits) <= limit THEN hits
    ELSE TakePerGroup(hits, limit, [id \in SymbolIds |-> Sym[id].file], Most(limit \div 3, 2))

\* The first definition, the first other and the first test, then the best of
\* what is left; a score below zero ends it.
KindClass(h) ==
    IF PathOf(h.id).test THEN "test"
    ELSE IF Sym[h.id].kind \in DefinitionKinds THEN "def" ELSE "other"

DiversifyByKind(hits, limit) ==
    LET OfClass(c) == Select(hits, LAMBDA h : KindClass(h) = c)
        first == Truncate(FlattenSeq([i \in 1..3 |-> Truncate(OfClass(<<"def", "other", "test">>[i]), 1)]), limit)
        left == Select(hits, LAMBDA h : h.score >= 0 /\ h.id \notin IdsOf(first))
        \* Equal scores: definitions, then tests, then others.
        Order(h) == CASE KindClass(h) = "def" -> 1 [] KindClass(h) = "test" -> 2 [] OTHER -> 3
        rest == SortHits(left, LAMBDA a, b : a.score > b.score \/ (a.score = b.score /\ Order(a) < Order(b)))
    IN  IF Len(hits) <= limit THEN hits ELSE first \o Truncate(rest, limit - Len(first))

Diversify(hits, limit, cluster) ==
    Truncate(DiversifyByKind(DiversifyByFile(DiversifyByCluster(hits, limit, cluster), limit), limit), limit)

-----------------------------------------------------------------------------
(* Expansion.  An edge is a record [from, to, type, evidence, resolution].  *)

CallKinds == {"function", "method"}
TypeKinds == {"struct", "enum", "class", "interface", "trait"}
TypeUses == {"reference", "type", "extends", "implements", "alias"}

\* 1 + ln(1 + n)/4, at most 1.75, in percent.
EvidencePercent(n) ==
    LET table == <<117, 127, 134, 140, 144, 148, 151, 154, 157, 159, 162, 164, 165, 167, 169, 170, 172, 173, 174, 175>>
    IN  IF n = 0 THEN 100 ELSE table[Least(n, Len(table))]

ResolutionPercent(r) == CASE r = "local" -> 100 [] r = "import" -> 90 [] r = "heuristic" -> 75 [] OTHER -> 80

ConfidencePercent(type) ==
    CASE type = "call" -> 100 [] type = "reference" -> 80 [] type = "type" -> 90
      [] type \in {"extends", "implements", "alias"} -> 95 [] OTHER -> 70

Percent(score, p) == (score * p) \div 100

ExpandedScore(parent, e) ==
    Percent(Percent(Percent(Percent(parent, 80), ConfidencePercent(e.type)),
                    EvidencePercent(e.evidence)), ResolutionPercent(e.resolution))

\* The callees of a function, the users of a type: the first five edges by the
\* order of the query, and only then those of a type that counts.
RelatedEdges(edges, id) ==
    IF Sym[id].kind \in CallKinds
    THEN Select(ListEdgesFrom(edges, id, 5), LAMBDA e : e.type = "call")
    ELSE IF Sym[id].kind \in TypeKinds
    THEN Select(ListEdgesTo(edges, id, 5), LAMBDA e : e.type \in TypeUses)
    ELSE <<>>

Related(edges, h) ==
    LET list == RelatedEdges(edges, h.id)
    IN  [i \in DOMAIN list |->
            [id |-> IF Sym[h.id].kind \in CallKinds THEN list[i].to ELSE list[i].from,
             score |-> ExpandedScore(h.score, list[i])]]

\* The neighbours of the first three hits.
Neighbours(edges, hits) == FlattenSeq([i \in 1..Least(3, Len(hits)) |-> Related(edges, hits[i])])

Add(acc, n) == [hits |-> Append(acc.hits, Hit(n.id, n.score, Sym[n.id].lang)), ids |-> acc.ids \cup {n.id}]

\* Mutant: an id that is among the hits already is added again.
ExpandTwice(hits, limit, edges, rows) ==
    LET AddRow(acc, n) == IF n.id \in rows THEN Add(acc, n) ELSE acc
        end == FoldLeft(AddRow, [hits |-> hits, ids |-> {}], Neighbours(edges, hits))
    IN  [hits |-> Truncate(SortHits(end.hits, ByScore), limit), ids |-> end.ids]

AddNew(acc, n, rows) == IF n.id \in rows /\ n.id \notin IdsOf(acc.hits) THEN Add(acc, n) ELSE acc

\* The neighbours that are rows of the store join the hits, each once.
Joined(hits, neighbours, rows) ==
    FoldLeft(LAMBDA acc, n : AddNew(acc, n, rows), [hits |-> hits, ids |-> {}], neighbours)

\* All are sorted again and cut to limit.  An expanded hit is subject to no
\* filter of the query.
ExpandWithEdges(hits, limit, edges, rows) ==
    LET end == Joined(hits, Neighbours(edges, hits), rows)
    IN  [hits |-> Truncate(SortHits(end.hits, ByScore), limit), ids |-> end.ids]
=============================================================================
