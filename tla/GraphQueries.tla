----------------------------- MODULE GraphQueries -----------------------------
(***************************************************************************)
(* What is computed from the tables of symbols and edges: the ordered and  *)
(* limited queries (queries/edges.rs), the traversals of graph/mod.rs, the *)
(* tools of handlers/mod.rs that use them and PageRank (graph/pagerank.rs).*)
(* Every operator takes the edges, a set of records [from, to, type, ...]. *)
(***************************************************************************)
EXTENDS Orders

\* ORDER BY edge_type ASC: the names in alphabetical order.
TypeOrder == <<"alias", "call", "extends", "implements", "reads", "reference", "type", "writes">>
TypeRank == [t \in ToSet(TypeOrder) |-> CHOOSE i \in DOMAIN TypeOrder : TypeOrder[i] = t]

\* ORDER BY edge_type, other end LIMIT limit, applied before any filter by type.
TypeBefore(d, e) == TypeRank[d.type] < TypeRank[e.type]

ListEdgesFrom(edges, id, limit) ==
    FirstRows({e \in edges : e.from = id},
              LAMBDA d, e : TypeBefore(d, e) \/ (d.type = e.type /\ d.to < e.to), limit)

ListEdgesTo(edges, id, limit) ==
    FirstRows({e \in edges : e.to = id},
              LAMBDA d, e : TypeBefore(d, e) \/ (d.type = e.type /\ d.from < e.from), limit)

-----------------------------------------------------------------------------
(* Breadth-first traversal from a root.  q is a record of the edge types    *)
(* followed, whether edges are followed up (to their source) and down, the  *)
(* depth and the limit.                                                     *)

\* Mutant: only the last new symbol of a level is visited in the next.
FollowToLast(q, acc, e, other) ==
    IF Len(acc.edges) >= q.limit \/ e.type \notin q.types
    THEN acc
    ELSE [edges |-> Append(acc.edges, e),
          nodes |-> acc.nodes \cup {other},
          next |-> IF other \in acc.nodes THEN acc.next ELSE <<other>>]

\* One listed edge: dropped once the limit is reached or when its type is not
\* followed, else listed, and its other end visited if it is new.
Follow(q, acc, e, other) ==
    IF Len(acc.edges) >= q.limit \/ e.type \notin q.types
    THEN acc
    ELSE [edges |-> Append(acc.edges, e),
          nodes |-> acc.nodes \cup {other},
          next |-> IF other \in acc.nodes THEN acc.next ELSE Append(acc.next, other)]

Expand(q, edges, acc, id) ==
    LET up == IF q.up THEN ListEdgesTo(edges, id, q.limit) ELSE <<>>
        down == IF q.down THEN ListEdgesFrom(edges, id, q.limit) ELSE <<>>
        above == FoldLeft(LAMBDA a, e : Follow(q, a, e, e.from), acc, up)
    IN  FoldLeft(LAMBDA a, e : Follow(q, a, e, e.to), above, down)

Traverse(q, edges, root) ==
    LET level[d \in 0..q.depth] ==
            IF d = 0 THEN [edges |-> <<>>, nodes |-> {root}, next |-> <<root>>]
            ELSE LET acc == level[d - 1]
                 IN  IF Len(acc.edges) >= q.limit THEN acc
                     ELSE FoldLeft(LAMBDA a, id : Expand(q, edges, a, id),
                                   [acc EXCEPT !.next = <<>>], acc.next)
    IN  [nodes |-> level[q.depth].nodes, edges |-> level[q.depth].edges]

DependencyQuery(direction, depth, limit) ==
    [types |-> {"call", "reference"}, depth |-> depth, limit |-> limit,
     up |-> direction \in {"upstream", "bidirectional"},
     down |-> direction \in {"downstream", "bidirectional"}]

CallQuery(direction, depth, limit) ==
    [types |-> {"call"}, depth |-> depth, limit |-> limit,
     up |-> direction = "callers", down |-> direction # "callers"]

TypeQuery(depth, limit) ==
    [types |-> {"extends", "implements", "alias"}, depth |-> depth, limit |-> limit,
     up |-> FALSE, down |-> TRUE]

\* What the graph of q may show: the symbols at most depth followed edges away.
Within(q, edges, root) ==
    LET joined(a) == {e.to : e \in {d \in edges : q.down /\ d.from = a /\ d.type \in q.types}}
                     \cup {e.from : e \in {d \in edges : q.up /\ d.to = a /\ d.type \in q.types}}
        ball[d \in 0..q.depth] ==
            IF d = 0 THEN {root}
            ELSE ball[d - 1] \cup UNION {joined(a) : a \in ball[d - 1]}
    IN  ball[q.depth]

-----------------------------------------------------------------------------
(* Tools. *)

\* find_affected_code: the graph upstream of a symbol without the symbol itself
\* and without tests unless they are asked for; exported symbols come first,
\* then the order of the paths, and the list is cut at the limit.
Affected(edges, root, depth, limit, tests, exported) ==
    LET found == Traverse(DependencyQuery("upstream", depth, limit), edges, root).nodes
                     \ ({root} \cup tests)
    IN  FirstRows(found, LAMBDA m, n : IF (m \in exported) = (n \in exported) THEN m < n ELSE m \in exported,
                  limit)

\* trace_data_flow: only calls, references and inheritance are followed, all of
\* them as reads; what is reached, each once, with the number of steps to it.
TracedTypes == {"call", "reference", "extends", "implements"}

\* Mutant: what was reached before is reported again.
TraceStepAgain(limit, acc, e, steps) ==
    IF Len(acc.flows) >= limit \/ e.type \notin TracedTypes
    THEN acc
    ELSE [flows |-> Append(acc.flows, [id |-> e.to, steps |-> steps]),
          visited |-> acc.visited \cup {e.to}, next |-> Append(acc.next, e.to)]

TraceStep(limit, acc, e, steps) ==
    IF Len(acc.flows) >= limit \/ e.type \notin TracedTypes \/ e.to \in acc.visited
    THEN acc
    ELSE [flows |-> Append(acc.flows, [id |-> e.to, steps |-> steps]),
          visited |-> acc.visited \cup {e.to}, next |-> Append(acc.next, e.to)]

TraceDataFlow(edges, root, depth, limit, direction) ==
    LET level[d \in 0..depth] ==
            IF d = 0 THEN [flows |-> <<>>, visited |-> {root}, next |-> <<root>>]
            ELSE LET acc == level[d - 1]
                 IN  IF Len(acc.flows) >= limit THEN acc
                     ELSE FoldLeft(LAMBDA a, id : FoldLeft(LAMBDA b, e : TraceStep(limit, b, e, d),
                                                           a, ListEdgesFrom(edges, id, limit)),
                                   [acc EXCEPT !.next = <<>>], acc.next)
    IN  IF direction = "writes" THEN <<>> ELSE level[depth].flows

\* find_references: for each symbol of the name in turn the edges into it, three
\* times the limit at most, of the type asked for, until the limit is reached.
FindReferences(edges, ids, type, limit) ==
    LET wanted(id) == Select(ListEdgesTo(edges, id, limit * 3),
                             LAMBDA e : type = "all" \/ e.type = type)
    IN  Truncate(FlattenSeq([i \in DOMAIN ids |-> wanted(ids[i])]), limit)

\* search_todos: the first rows by file and line; the kind asked for is looked at
\* only after the limit has cut the list.
SearchTodos(todos, file, kind, limit) ==
    LET rows == FirstRows({t \in todos : file \in {0, t.file}},
                          LAMBDA s, t : s.file < t.file \/ (s.file = t.file /\ s.line < t.line), limit)
    IN  Select(rows, LAMBDA t : kind = "all" \/ t.kind = kind)

\* search_framework_patterns: every filter is in the query, before the limit.
SearchFrameworkPatterns(patterns, file, kind, limit) ==
    FirstRows({p \in patterns : file \in {0, p.file} /\ kind \in {"all", p.is.kind}},
              LAMBDA o, p : \/ o.file < p.file
                            \/ o.file = p.file /\ o.is.line < p.is.line
                            \/ o.file = p.file /\ o.is.line = p.is.line /\ o.nth < p.nth, limit)

-----------------------------------------------------------------------------
(* PageRank in fixed point: a score is a number of parts of Unit, divisions  *)
(* round down where the code's round to the nearest double.  damping is a    *)
(* pair <<numerator, denominator>>.                                          *)

BaseScore(n, Unit, damping) == (Unit * (damping[2] - damping[1])) \div (damping[2] * n)

PageRank(ids, edges, Unit, damping, iterations) ==
    LET n == Cardinality(ids)
        valid == {e \in edges : e.from \in ids /\ e.to \in ids}
        out(id) == Cardinality({e \in valid : e.from = id})
        given(s, e) == (damping[1] * s[e.from]) \div (damping[2] * out(e.from))
        sum(s, es) == BaseScore(n, Unit, damping) + MapThenSumSet(LAMBDA e : given(s, e), es)
        score[k \in 0..iterations] ==
            IF k = 0 THEN [id \in ids |-> Unit \div n]
            ELSE LET s == score[k - 1] IN [id \in ids |-> sum(s, {e \in valid : e.to = id})]
    IN  IF ids = {} THEN <<>> ELSE score[iterations]
=============================================================================
