-------------------------------- MODULE Ranking --------------------------------
(***************************************************************************)
(* Ranking of search hits: src/src/retrieval/ranking/*.rs.  A hit is a     *)
(* record [id, score, lang]; what else the code copies into it is constant *)
(* for an id and looked up in Sym.  Scores are whole numbers of 1/Unit,    *)
(* multipliers percentages.  Ids are numbered in the order of (name, file  *)
(* path, kind, id), the order in which the sorts of score.rs break ties.   *)
(***************************************************************************)
EXTENDS QueryText

CONSTANTS
    Sym,        \* id -> [name, kind, file, exported, lang]
    File,       \* file -> [test, index, build, source, about, parts]
    Unit,       \* the score 1.0
    Weights     \* the weights of config.rs, in units of a score

SymbolIds == DOMAIN Sym

ASSUME RankingAssumption ==
    /\ SymbolIds \subseteq Int /\ IsFiniteSet(SymbolIds)
    /\ \A id \in SymbolIds : Sym[id].file \in DOMAIN File
    /\ Unit \in Nat \ {0}
    /\ \A w \in {"rrf_keyword", "rrf_vector", "rrf_graph", "rank_vector", "rank_keyword",
                "exported", "popularity", "selection", "affinity"} : Weights[w] \in Int

Hit(id, score, lang) == [id |-> id, score |-> score, lang |-> lang]
IdsOf(hits) == {hits[i].id : i \in DOMAIN hits}
PathOf(id) == File[Sym[id].file]

\* A stable sort.
SortHits(hits, Better(_, _)) ==
    LET at == Sorted(DOMAIN hits, LAMBDA j, i : Better(hits[j], hits[i]) \/ (j < i /\ ~Better(hits[i], hits[j])))
    IN  [p \in DOMAIN hits |-> hits[at[p]]]

Higher(a, b) == a.score > b.score

ByScore(a, b) ==
    \/ Higher(a, b)
    \/ a.score = b.score /\ Sym[a.id].exported /\ ~Sym[b.id].exported

ByScoreThenName(a, b) ==
    ByScore(a, b) \/ (~ByScore(b, a) /\ a.id < b.id)

ByIds(hits) == Sorted(hits, LAMBDA g, h : g.id < h.id)
Ranked(hits) == SortHits(hits, ByScoreThenName)

DefinitionKinds == {"class", "interface", "type_alias", "struct", "enum", "function",
                    "method", "const", "trait", "module"}

-----------------------------------------------------------------------------
(* Reciprocal rank fusion (rrf.rs).                                         *)

\* Ids of a list in order of first appearance, and its first hit of an id.
FirstOf(hits, id) == hits[CHOOSE i \in DOMAIN hits : hits[i].id = id
                            /\ \A j \in DOMAIN hits : hits[j].id = id => i <= j]

RrfShare(hits, id, weight) ==
    Sum([i \in DOMAIN hits |-> IF hits[i].id = id THEN weight \div (60 + i) ELSE 0])

\* The record kept for an id is that of the first list it is in: a hit of the
\* keyword index, which knows no language, before one of the vector table.
\* Hits alike in score, export and name come in the order of a hash map in the
\* code and by id here.
ReciprocalRankFusion(keyword, vector, graph) ==
    LET all == keyword \o vector \o graph
        Score(id) == RrfShare(keyword, id, Weights.rrf_keyword) + RrfShare(vector, id, Weights.rrf_vector)
                        + RrfShare(graph, id, Weights.rrf_graph)
    IN  Ranked(ByIds({Hit(id, Score(id), FirstOf(all, id).lang) : id \in IdsOf(all)}))

\* The keyword hits once more, by PageRank.
GraphRankedHits(keyword, pagerank) ==
    SortHits(keyword, LAMBDA a, b : pagerank[a.id] > pagerank[b.id])

-----------------------------------------------------------------------------
(* Score fusion, used when RRF is off (score.rs, rank_hits_with_signals).   *)

\* What the path of a symbol says about an intent: the first entry that names
\* a word of the path counts, in percent, then the kind, then the rest.
PathBoosts(class) ==
    CASE class = "Schema" -> <<[words |-> {"schema"}, percent |-> 7500],
                               [words |-> {"model", "entity"}, percent |-> 5000],
                               [words |-> {"db", "database", "migrations", "sql"}, percent |-> 2500]>>
      [] class = "Config" -> <<[words |-> {"config", "settings", "env", "options"}, percent |-> 300]>>
      [] class = "Error" -> <<[words |-> {"error", "exception"}, percent |-> 300]>>
      [] class = "Api" -> <<[words |-> {"handler", "route", "controller", "endpoint", "api"}, percent |-> 300],
                            [words |-> {"server", "service"}, percent |-> 150]>>
      [] class = "Hook" -> <<[words |-> {"hook", "use"}, percent |-> 200]>>
      [] class = "Middleware" -> <<[words |-> {"middleware", "interceptor", "guard"}, percent |-> 300],
                                   [words |-> {"plugin"}, percent |-> 150]>>
      [] class = "Migration" -> <<[words |-> {"migration", "migrate"}, percent |-> 500],
                                  [words |-> {"schema", "sql"}, percent |-> 200]>>
      [] OTHER -> <<>>

KindBoost(class, kind) ==
    CASE class = "Implementation" /\ kind \in {"function", "method", "impl"} -> 150
      [] class = "Implementation" /\ kind \in {"class", "struct", "trait"} -> 130
      [] class = "Config" /\ kind \in {"const", "variable"} -> 150
      [] class = "Error" /\ kind \in {"class", "enum", "type_alias"} -> 130
      [] class = "Hook" /\ kind = "function" -> 130
      [] class \in {"Schema", "Test", "Migration"} -> 50
      [] class \in {"Config", "Api", "Middleware"} -> 80
      [] OTHER -> 100

IntentPercent(class, id) ==
    LET path == PathOf(id)
        named == Select(PathBoosts(class), LAMBDA b : b.words \cap path.about # {})
    IN  IF path.test THEN IF class = "Test" THEN 200 ELSE 30
        ELSE IF class = "Definition"
             THEN IF Sym[id].exported /\ Sym[id].kind \in DefinitionKinds \ {"function", "method", "trait", "module"}
                  THEN 150 ELSE 100
        ELSE IF named # <<>> THEN named[1].percent
        ELSE KindBoost(class, Sym[id].kind)

StructuralAdjustment(id, text) ==
    LET path == PathOf(id)
    IN  (IF Sym[id].exported THEN Weights.exported ELSE 0)
        - (IF Sym[id].kind = "module" THEN 5 * Unit ELSE 0)
        - (IF path.index THEN 5 * Unit ELSE 0)
        - (IF path.build THEN 15 * Unit ELSE 0)
        + (IF path.source THEN Unit ELSE 0)
        + 2 * Unit * Cardinality({i \in DOMAIN text : text[i] \in path.parts})

\* Names are sequences of lower-case words; only queries of one or two words
\* count as naming a symbol.
DefinitionBias(class, id, text) ==
    IF class = "Callers" \/ Len(text) > 2 \/ Sym[id].kind \notin DefinitionKinds THEN 0
    ELSE IF Sym[id].name = text THEN 10 * Unit
    ELSE IF Len(text) = 1 /\ text[1] \in ToSet(Sym[id].name) THEN Unit
    ELSE 0

MaxScore(hits) == IF hits = <<>> THEN 0 ELSE Max({0} \cup {hits[i].score : i \in DOMAIN hits})
ScoreIn(hits, id) ==
    LET of == Select(hits, LAMBDA h : h.id = id)
    IN  IF of = <<>> \/ MaxScore(hits) = 0 THEN 0 ELSE (Last(of).score * Unit) \div MaxScore(hits)

RankHits(keyword, vector, class, text) ==
    LET both == Weights.rank_vector + Weights.rank_keyword
        \* normalize_pair
        share == IF both > 0 THEN [v |-> Weights.rank_vector, k |-> Weights.rank_keyword, of |-> both]
                 ELSE [v |-> 1, k |-> 1, of |-> 2]
        Base(id) == (share.v * ScoreIn(vector, id) + share.k * ScoreIn(keyword, id)) \div share.of
        Score(id) == ((Base(id) + StructuralAdjustment(id, text)) * IntentPercent(class, id)) \div 100
                        + DefinitionBias(class, id, text)
        \* The vector record comes first here.
        Lang(id) == IF id \in IdsOf(vector) THEN Sym[id].lang ELSE ""
    IN  Ranked(ByIds({Hit(id, Score(id), Lang(id)) : id \in IdsOf(keyword) \cup IdsOf(vector)}))

-----------------------------------------------------------------------------
(* Boosts.  Each is followed by a sort.                                     *)

Boosted(hits, New(_)) == Ranked([i \in DOMAIN hits |-> [hits[i] EXCEPT !.score = New(hits[i])]])

PopularityBoost(hits, pagerank) ==
    LET most == Max({0} \cup {pagerank[id] : id \in IdsOf(hits)})
    IN  IF hits = <<>> \/ Weights.popularity = 0 \/ most = 0 THEN hits
        ELSE Boosted(hits, LAMBDA h : h.score + (Weights.popularity * pagerank[h.id]) \div most)

DocstringBoost(hits, documented) ==
    Boosted(hits, LAMBDA h : IF h.id \in documented THEN (h.score * 150) \div 100 ELSE h.score)

\* query_selections holds pairs of a query, in lower case and trimmed, and a
\* symbol.  The batch lookup is a statement SQLite does not parse (AS within
\* VALUES, selections.rs:117): it fails, the failure is logged and no hit is
\* boosted, whatever was selected.
BatchGetSelectionBoosts(selections, text) == [id \in {} |-> 0]

SelectionBoost(hits, selections, text) ==
    LET boosts == BatchGetSelectionBoosts(selections, text)
        Share(id) == IF id \in DOMAIN boosts THEN (Weights.selection * boosts[id]) \div 100 ELSE 0
    IN  IF hits = <<>> \/ Weights.selection = 0 THEN hits
        ELSE Boosted(hits, LAMBDA h : h.score + Share(h.id))

\* No statement of the program writes the table of file affinities; without a
\* positive row the hits are returned as they are.
AffinityBoost(hits, affinity) ==
    LET most == Max({0} \cup {affinity[Sym[id].file] : id \in IdsOf(hits)})
    IN  IF hits = <<>> \/ Weights.affinity = 0 \/ most = 0 THEN hits
        ELSE Boosted(hits, LAMBDA h : h.score + (Weights.affinity * affinity[Sym[h.id].file]) \div most)

\* Packages are known by the path of their manifest and a file is looked up by
\* manifest_path || '%', so a package holds what its manifest is a prefix of.
\* Of several the lookup of one file takes the longest, the batch lookup the
\* last row (packages.rs:363).  Paths are sequences of segments.
PackagesOf(id, packages, paths) ==
    Select(packages, LAMBDA p : IsPrefix(p.manifest, paths[Sym[id].file]))

Deepest(found) ==
    found[CHOOSE i \in DOMAIN found : \A j \in DOMAIN found : Len(found[i].manifest) >= Len(found[j].manifest)].id

PackagePercent(class) ==
    CASE class \in {None, "Definition", "Implementation", "Callers"} -> 120 [] class = "Error" -> 110 [] OTHER -> 115

PackageBoost(hits, packages, paths, wanted, class) ==
    IF hits = <<>> THEN hits
    ELSE LET first == PackagesOf(hits[1].id, packages, paths)
             Of(id) == PackagesOf(id, packages, paths)
             query == IF wanted # None THEN wanted ELSE IF first # <<>> THEN Deepest(first) ELSE None
         IN  IF query = None \/ \A id \in IdsOf(hits) : Of(id) = <<>> THEN hits
             ELSE Boosted(hits, LAMBDA h : IF Of(h.id) # <<>> /\ Last(Of(h.id)).id = query
                                           THEN (h.score * PackagePercent(class)) \div 100 ELSE h.score)

\* The reranker scores the first 20 hits; its share is 30 percent times ten.
RerankDocs(hits) == Truncate(hits, 20)

ApplyRerankerScores(hits, scores) ==
    SortHits([i \in DOMAIN hits |->
                IF i \in DOMAIN scores
                THEN [hits[i] EXCEPT !.score = (@ * 70) \div 100 + (scores[i] * 300) \div 100]
                ELSE hits[i]], ByScore)
=============================================================================
