---------------------------- MODULE ContextAssembly ----------------------------
(***************************************************************************)
(* What of the found symbols goes into the text of an answer:              *)
(* src/src/retrieval/assembler.  A text is a sequence of lines, records    *)
(* [tokens, words]; the tokens of a text are the sum over its lines.       *)
(***************************************************************************)
EXTENDS Diversity

CONSTANTS
    TextOf,         \* id -> the text of its row
    DocTokens,      \* id -> the tokens its docstring and heading add
    UsagesOf,       \* id -> sequence of texts, its usage examples
    MaxTokens,      \* max_context_tokens
    HeaderLines, FooterLines,   \* 5 and 3 in smart_truncate
    LongRoot, LongOther         \* the lines from which a text is simplified, 500 and 100

Lines == [tokens : Nat, words : SUBSET STRING]

ASSUME ContextAssumption ==
    /\ \A id \in SymbolIds : /\ TextOf[id] \in Seq(Lines)
                             /\ UsagesOf[id] \in Seq(Seq(Lines))
                             /\ DocTokens[id] \in Nat
    /\ {MaxTokens, HeaderLines, FooterLines} \subseteq Nat

Tokens(text) == Sum([i \in DOMAIN text |-> text[i].tokens])

\* rank_lines_by_relevance: two for a word found, by position among equals.
Relevance(line, query) == 2 * Cardinality({i \in DOMAIN query : query[i] \in line.words})

ByRelevance(text, query) ==
    LET middle == (HeaderLines + 1)..(Len(text) - FooterLines)
        Before(a, b) == Relevance(text[a], query) > Relevance(text[b], query)
                        \/ (Relevance(text[a], query) = Relevance(text[b], query) /\ a < b)
    IN  Sorted(middle, Before)

Cost(text, lines) == MapThenSumSet(LAMBDA i : text[i].tokens, lines)

\* A line of the middle, up to the first that does not fit.
TakeLine(acc, i, text, max) ==
    IF acc.full \/ Cost(text, acc.lines) + text[i].tokens > max
    THEN [acc EXCEPT !.full = TRUE]
    ELSE [acc EXCEPT !.lines = @ \cup {i}]

TakeFooter(lines, i, text, max) == IF Cost(text, lines) + text[i].tokens > max THEN lines ELSE lines \cup {i}

\* The header whatever it takes, the most relevant lines up to the first that
\* does not fit, the lines of the footer that fit.
HeadAndMiddle(text, query, max) ==
    FoldLeft(LAMBDA acc, i : TakeLine(acc, i, text, max), [lines |-> 1..HeaderLines, full |-> FALSE],
             ByRelevance(text, query)).lines

KeptLines(text, query, max) ==
    FoldLeft(LAMBDA lines, i : TakeFooter(lines, i, text, max), HeadAndMiddle(text, query, max),
             [i \in 1..FooterLines |-> Len(text) - FooterLines + i])

SmartTruncate(text, query, max) ==
    LET all == Sorted(KeptLines(text, query, max), LAMBDA i, j : i < j)
    IN  IF Tokens(text) <= max \/ Len(text) <= HeaderLines + FooterLines THEN text
        ELSE [p \in DOMAIN all |-> text[all[p]]]

\* simplify_code_with_query, as search calls it: always with a query.
Simplify(text, root, query, max) ==
    IF Len(text) <= (IF root THEN LongRoot ELSE LongOther) /\ Tokens(text) <= max
    THEN [text |-> text, simplified |-> FALSE]
    ELSE [text |-> SmartTruncate(text, query, max), simplified |-> TRUE]

-----------------------------------------------------------------------------
(* Candidates beyond the hits: two levels of edges, best score first.       *)

EdgeWeight(type) ==
    CASE type \in {"extends", "implements", "alias", "type"} -> 150 [] type = "reference" -> 80 [] OTHER -> 100

CandidateScore(e, depth) ==
    Percent(Percent(Percent(Percent(100000 \div depth, EdgeWeight(e.type)), ResolutionPercent(e.resolution)),
                    ConfidencePercent(e.type)), EvidencePercent(e.evidence))

\* Candidates keep the best score of the edges to them; a new one is a row and
\* is explored in turn.  The seeds may become candidates themselves.
Visit(acc, e, rows, depth) ==
    IF e.to \in DOMAIN acc.score
    THEN [acc EXCEPT !.score[e.to] = Most(@, CandidateScore(e, depth))]
    ELSE IF e.to \in rows
    THEN [score |-> [x \in DOMAIN acc.score \cup {e.to} |->
                        IF x = e.to THEN CandidateScore(e, depth) ELSE acc.score[x]],
          seen |-> acc.seen \cup {e.to},
          next |-> IF e.to \in acc.seen THEN acc.next ELSE Append(acc.next, e.to)]
    ELSE acc

Explore(acc, id, edges, rows, depth) ==
    FoldLeft(LAMBDA a, e : Visit(a, e, rows, depth), acc, ListEdgesFrom(edges, id, 20))

Level(acc, edges, rows, depth) ==
    FoldLeft(LAMBDA a, id : Explore(a, id, edges, rows, depth), [acc EXCEPT !.next = <<>>], acc.next)

\* Equal scores come in the order of a hash map: in either order here.
BetterCandidate(x, y, score, ascending) ==
    \/ score[x] > score[y]
    \/ score[x] = score[y] /\ IF ascending THEN x < y ELSE x > y

ExpandWithScoring(edges, rows, seeds, ascending) ==
    LET seed == [score |-> [x \in {} |-> 0], seen |-> ToSet(seeds), next |-> seeds]
        end == Level(Level(seed, edges, rows, 1), edges, rows, 2)
    IN  FirstRows(DOMAIN end.score, LAMBDA x, y : BetterCandidate(x, y, end.score, ascending), 50)

-----------------------------------------------------------------------------
(* The budget loop (assembler/mod.rs, format_context_with_mode).            *)

RootCap == (MaxTokens * 70) \div 100
ExtraCap == (MaxTokens * 20) \div 100
Cap(role) == CASE role = "root" -> RootCap [] role = "extra" -> ExtraCap
               [] OTHER -> Most(0, MaxTokens - (RootCap + ExtraCap))

\* n = 0 is the symbol itself, else its n-th usage example.
Key(id, n) == <<id, n>>

\* The candidates in order: roots, the hits that were expanded to, the usage
\* examples of the roots, what the edges lead to.
Entry(key, role, text, cluster, extra) ==
    [key |-> key, role |-> role, text |-> text, cluster |-> cluster, doc |-> extra]

Entries(roots, extra, expanded, shown, cluster) ==
    LET Of(ids, role) == [i \in DOMAIN ids |->
            Entry(Key(ids[i], 0), role, shown[ids[i]], cluster[ids[i]],
                  IF role = "root" THEN DocTokens[ids[i]] ELSE 0)]
        usages == FlattenSeq([i \in DOMAIN roots |->
            [n \in DOMAIN UsagesOf[roots[i]] |->
                Entry(Key(roots[i], n), "extra", UsagesOf[roots[i]][n], None, 0)]])
    IN  Of(roots, "root") \o Of(extra, "extra") \o usages \o Of(expanded, "expanded")

RoleTokens(items, role) ==
    Sum([i \in DOMAIN items |-> IF items[i].role = role THEN items[i].tokens ELSE 0])

\* Mutant: the share of a role is not bounded.
AdmitAnyShare(acc, e, query) ==
    LET left == Most(0, MaxTokens - acc.used)
        short == Simplify(e.text, e.role = "root", query, left)
        tokens == Tokens(short.text) + e.doc
        group == IF e.cluster # None THEN <<"cluster", e.cluster>> ELSE <<"print", short.text>>
        alike == {i \in DOMAIN acc.items : acc.items[i].group = group}
        over == acc.used + tokens > MaxTokens
        item == [key |-> e.key, role |-> e.role, tokens |-> tokens, group |-> group,
                 truncated |-> over \/ short.simplified]
    IN  IF acc.done \/ e.key \in acc.seen THEN acc
        ELSE IF Cardinality(alike) >= (IF e.role = "root" THEN 2 ELSE 1)
             THEN [acc EXCEPT !.seen = @ \cup {e.key}]
        ELSE [used |-> IF over THEN acc.used ELSE acc.used + tokens,
              seen |-> acc.seen \cup {e.key}, items |-> Append(acc.items, item), done |-> over]

\* One candidate.  It is passed over when it was seen, when its cluster or its
\* text is there often enough, or when its role has had its share; the first
\* that does not fit the budget is taken all the same and ends the loop.
Admit(acc, e, query) ==
    LET left == Most(0, MaxTokens - acc.used)
        short == Simplify(e.text, e.role = "root", query, left)
        tokens == Tokens(short.text) + e.doc
        group == IF e.cluster # None THEN <<"cluster", e.cluster>> ELSE <<"print", short.text>>
        alike == {i \in DOMAIN acc.items : acc.items[i].group = group}
        share == RoleTokens(acc.items, e.role)
        over == acc.used + tokens > MaxTokens
        item == [key |-> e.key, role |-> e.role, tokens |-> tokens, group |-> group,
                 truncated |-> over \/ short.simplified]
    IN  IF acc.done \/ e.key \in acc.seen THEN acc
        ELSE IF \/ Cardinality(alike) >= (IF e.role = "root" THEN 2 ELSE 1)
                \/ \E i \in DOMAIN acc.items : acc.items[i].role = e.role /\ share + tokens > Cap(e.role)
             THEN [acc EXCEPT !.seen = @ \cup {e.key}]
        ELSE [used |-> IF over THEN acc.used ELSE acc.used + tokens,
              seen |-> acc.seen \cup {e.key}, items |-> Append(acc.items, item), done |-> over]

Assemble(roots, extra, expanded, shown, cluster, query) ==
    FoldLeft(LAMBDA acc, e : Admit(acc, e, query),
             [used |-> 0, seen |-> {}, items |-> <<>>, done |-> FALSE],
             Entries(roots, extra, expanded, shown, cluster)).items
=============================================================================
