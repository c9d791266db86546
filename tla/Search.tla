--------------------------------- MODULE Search ---------------------------------
(***************************************************************************)
(* One search of the Retriever (src/src/retrieval/mod.rs, search) from the *)
(* request to the answer.  Every stage reads other stores (SQLite, the     *)
(* keyword index, the vector table) at a time of its own, so the files an  *)
(* index run cleans meanwhile disappear between any two of them.  A search *)
(* that fails in the embedder, the vector table or the reranker goes on    *)
(* with less; one that fails in SQLite or the keyword index ends.  HyDE,   *)
(* off by default, is left out: it would add vector hits of a second text. *)
(* Concurrent searches share the caches only: RetrieverCaches.             *)
(***************************************************************************)
EXTENDS ContextAssembly

CONSTANTS
    Requests,       \* the calls: records [query, limit, exported]
    IdOf,           \* word -> the symbol whose id it is, for the control id:
    Edges,          \* the table of edges, while both ends are rows
    Cluster,        \* id -> similarity cluster or None
    Metrics,       \* id -> its rank in symbol_metrics
    Documented,     \* ids with a docstring that earns the boost
    Packages, Paths,    \* rows of packages; file -> the segments of its path
    UpdatedAt,      \* file -> updated_at of its symbols
    Matches,        \* word -> sequence of the ids whose document has it, best first
    VectorOrders,   \* orders in which the vector table may return the ids
    RerankScores,   \* scores the reranker may give, functions of the id
    RrfSettings, SynonymExpansion, AcronymExpansion, VectorLimit, Reranker, \* config.rs; RrfSettings: values of rrf_enabled
    TrimKey, TrimRun,   \* 500 and 200 bytes
    MaxSearches,    \* bound: searches between two starts of the server
    Removed         \* bound: the files that may be removed from the disk

ASSUME RequestsAssumption ==
    \A r \in Requests : /\ r.query \in Seq([key : STRING, word : DOMAIN Lexicon])
                        /\ r.limit \in Nat \ {0}

\* An edge is known by its ends and its type.
ASSUME EdgesAssumption ==
    /\ IsFiniteSet(Edges)
    /\ \A e \in Edges : /\ {e.from, e.to} \subseteq SymbolIds
                        /\ e.type \in ToSet(TypeOrder)
                        /\ e.evidence \in Nat
    /\ \A d, e \in Edges : d.from = e.from /\ d.to = e.to /\ d.type = e.type => d = e

ASSUME StoresAssumption ==
    /\ Metrics \in [SymbolIds -> Nat]
    /\ \A w \in DOMAIN Matches : Matches[w] \in Seq(SymbolIds)
    /\ VectorOrders \subseteq Seq(SymbolIds)
    /\ RerankScores \subseteq [SymbolIds -> Int]
    /\ {VectorLimit, MaxSearches} \subseteq Nat

VARIABLES
    rows, docs, vecs,   \* ids in SQLite, the keyword index and the vector table
    indexRuns,      \* index runs that have left their row
    stamps,         \* the stamps the caches were filled under
    responses,      \* request -> answer
    contexts,       \* <<query, roots, extra>> -> items
    search,         \* the search under way or the last one
    searches,       \* searches since the start
    rrf             \* rrf_enabled of this start

stores == <<rows, docs, vecs, indexRuns>>
caches == <<stamps, responses, contexts>>
vars == <<stores, caches, search, searches, rrf>>

Ids == DOMAIN Sym
NoAnswer == [path |-> "none", hits |-> <<>>, expanded |-> {}, items |-> <<>>]

\* What is common to a request and its trimmed text never differs here: two
\* requests of Requests share a key only if they are equal.
EmptyCache == [k \in {} |-> NoAnswer]
With(cache, key, value) == [k \in DOMAIN cache \cup {key} |-> IF k = key THEN value ELSE cache[k]]

LastUpdate == Max({0} \cup {UpdatedAt[Sym[id].file] : id \in rows})
IndexStamps == <<LastUpdate, indexRuns>>

Idle == [pc |-> "idle", request |-> None, sub |-> 0, keyword |-> <<>>, vector |-> <<>>,
         hits |-> <<>>, expanded |-> {}, answer |-> NoAnswer]

Init ==
    /\ rows = Ids /\ docs = Ids /\ vecs = Ids
    /\ indexRuns = 1
    /\ stamps = <<0, 0>>
    /\ responses = EmptyCache /\ contexts = EmptyCache
    /\ search = Idle
    /\ searches = 0
    /\ rrf \in RrfSettings

-----------------------------------------------------------------------------
(* What the request says: functions of its query.                           *)

Request == search.request
Parsed == ParseQueryControls(Request.query)
Intent == DetectIntent(Parsed.text)
Expanded == NormalizeAndExpand(Parsed.text, SynonymExpansion, AcronymExpansion)
SubQueries == DecomposeQuery(Expanded)
TruncationQuery == IF Len(SubQueries) = 1 THEN Parsed.text ELSE SubQueries[1]

At(label) == search.pc = label

\* What a stage no longer needs is forgotten.
Ended(pc, answer) == [Idle EXCEPT !.pc = pc, !.request = Request, !.answer = answer]
Ranks(hits) == [search EXCEPT !.pc = "boost", !.hits = hits, !.keyword = <<>>, !.vector = <<>>, !.sub = 0]

\* Lower-case names of one word are the ones a question about callers, which
\* was lower-cased, can name.
RowsNamed(name) == {id \in rows : Len(name) = 1 /\ Sym[id].name = name}
ExactTarget(name) ==
    LET found == RowsNamed(name)
        public == {id \in found : Sym[id].exported}
    IN  Min(IF public # {} THEN public ELSE found)

ClusterOf == [id \in Ids |-> IF id \in rows THEN Cluster[id] ELSE None]
RowEdges == {e \in Edges : e.from \in rows /\ e.to \in rows}

ContextOf(roots, extra, query, ascending) ==
    Assemble(roots, extra, ExpandWithScoring(RowEdges, rows, roots \o extra, ascending),
             TextOf, ClusterOf, query)

\* The query is hashed into the key of a context, its ids are sorted.
ContextKey(roots, extra, query) == <<query, ToSet(roots), ToSet(extra)>>

\* What assemble_context_cached may return.
CachedContext(roots, extra, query) ==
    LET key == ContextKey(roots, extra, query)
    IN  IF key \in DOMAIN contexts THEN {contexts[key]}
        ELSE {ContextOf(roots, extra, query, ascending) : ascending \in BOOLEAN}

\* The search is over: its run is recorded, which panics when byte 200 of the
\* query is within a character, and its response kept.
Answer(path, hits, expanded, items) ==
    LET answer == [path |-> path, hits |-> hits, expanded |-> expanded, items |-> items]
    IN  IF TrimPanics(Request.query, TrimRun)
        THEN /\ search' = Ended("panicked", NoAnswer)
             /\ UNCHANGED responses
        ELSE /\ search' = Ended("answered", answer)
             /\ responses' = With(responses, Request, answer)

AnswerWithContext(path, hits, expanded, roots, extra, query) ==
    \E items \in CachedContext(roots, extra, query) :
        /\ contexts' = With(contexts, ContextKey(roots, extra, query), items)
        /\ Answer(path, hits, expanded, items)
        /\ UNCHANGED <<stores, stamps, searches, rrf>>

-----------------------------------------------------------------------------
(* The stages.                                                              *)

Ask ==
    /\ search.pc \in {"idle", "answered", "panicked", "failed"}
    /\ searches < MaxSearches
    /\ \E r \in Requests : search' = [Idle EXCEPT !.pc = "lookup", !.request = r]
    /\ searches' = searches + 1
    /\ UNCHANGED <<stores, caches, rrf>>

\* The caches are emptied when the stamps have changed; the key of the request
\* holds its first 500 bytes.
Lookup ==
    LET kept == IF stamps = IndexStamps THEN responses ELSE EmptyCache
    IN
    /\ At("lookup")
    /\ IF TrimPanics(Request.query, TrimKey)
       THEN /\ search' = Ended("panicked", NoAnswer)
            /\ UNCHANGED caches
       ELSE /\ stamps' = IndexStamps
            /\ responses' = kept
            /\ contexts' = IF stamps = IndexStamps THEN contexts ELSE EmptyCache
            /\ search' = IF Request \in DOMAIN kept
                         THEN Ended("answered", kept[Request])
                         ELSE [search EXCEPT !.pc = "byId"]
    /\ UNCHANGED <<stores, searches, rrf>>

\* id: names one symbol.  One that is not exported is answered with nothing,
\* and that answer is not kept; an unknown one is searched for as if not there.
WantedId == LET word == Parsed.controls["id"] IN IF word \in DOMAIN IdOf THEN IdOf[word] ELSE None

AnswerById ==
    LET id == WantedId IN
    /\ At("byId")
    /\ id \in rows
    /\ IF Request.exported /\ ~Sym[id].exported
       THEN /\ search' = Ended("answered", [NoAnswer EXCEPT !.path = "id"])
            /\ UNCHANGED <<stores, caches, searches, rrf>>
       ELSE AnswerWithContext("id", <<Hit(id, Unit, Sym[id].lang)>>, {}, <<id>>, <<>>, Parsed.text)

\* No sub-query: indexing the first one panics.
Understand ==
    /\ At("byId")
    /\ WantedId \notin rows
    /\ search' = [search EXCEPT !.pc = IF SubQueries = <<>> THEN "panicked"
                                       ELSE IF Intent.class = "Callers" THEN "callers" ELSE "retrieve",
                                !.sub = 1]
    /\ UNCHANGED <<stores, caches, searches, rrf>>

\* The callers of a symbol, each once, in the order of the edges.
CallersOf(name) ==
    IF RowsNamed(name) = {} THEN <<>>
    ELSE LET listed == Select(ListEdgesTo(RowEdges, ExactTarget(name), 2 * Request.limit),
                              LAMBDA e : /\ e.type \in {"call", "reference"}
                                         /\ Request.exported => Sym[e.from].exported)
             once == Sorted({i \in DOMAIN listed : \A j \in 1..(i - 1) : listed[j].from # listed[i].from},
                            LAMBDA i, j : i < j)
             HitOf(e) == Hit(e.from, Unit, Sym[e.from].lang)
         IN  Truncate([k \in DOMAIN once |-> HitOf(listed[once[k]])], Request.limit)

AnswerCallers ==
    LET hits == CallersOf(Intent.name) IN
    /\ At("callers")
    /\ hits # <<>>
    /\ AnswerWithContext("callers", hits, {}, [i \in DOMAIN hits |-> hits[i].id], <<>>, Parsed.text)

NoCallers ==
    /\ At("callers")
    /\ CallersOf(Intent.name) = <<>>
    /\ search' = [search EXCEPT !.pc = "retrieve"]
    /\ UNCHANGED <<stores, caches, searches, rrf>>

Pool ==
    IF Len(SubQueries) = 1 THEN PoolSize(SubQueries[1], Request.limit, VectorLimit)
    ELSE Most(VectorLimit, Most(3 * Request.limit, 40))

\* The keyword index (external): a document scores by the words of the sub-query
\* it has, the first match of a word best.
KeywordHits(text) ==
    LET Found(w) == IF w \in DOMAIN Matches THEN Matches[w] ELSE <<>>
        Share(id, w) == LET at == {i \in DOMAIN Found(w) : Found(w)[i] = id}
                        IN  IF at = {} THEN 0 ELSE Unit \div Min(at)
        \* Each word counts once.
        Score(id) == Sum([i \in DOMAIN text |->
                             IF \E j \in 1..(i - 1) : text[j] = text[i] THEN 0 ELSE Share(id, text[i])])
        found == {id \in docs : \E w \in ToSet(text) : id \in ToSet(Found(w))}
    IN  SortHits(ByIds({Hit(id, Score(id), "") : id \in found}), Higher)

RetrieveKeyword ==
    /\ At("retrieve")
    /\ search' = [search EXCEPT !.pc = "vectors",
                    !.keyword = @ \o Truncate(KeywordHits(SubQueries[search.sub]), Pool)]
    /\ UNCHANGED <<stores, caches, searches, rrf>>

\* The vector of distance d has the score 1/(1+d); the order is what counts.
VectorHits(order) ==
    LET found == Select(order, LAMBDA id : id \in vecs)
    IN  Truncate([i \in DOMAIN found |-> Hit(found[i], Unit \div i, Sym[found[i]].lang)], Pool)

\* Mutant: one sub-query too many.
RetrievedVectorsPastEnd(hits) ==
    /\ At("vectors")
    /\ search' = [search EXCEPT !.vector = @ \o hits,
                    !.pc = IF search.sub <= Len(SubQueries) THEN "retrieve" ELSE "fuse",
                    !.sub = @ + 1]
    /\ UNCHANGED <<stores, caches, searches, rrf>>

RetrievedVectors(hits) ==
    /\ At("vectors")
    /\ search' = [search EXCEPT !.vector = @ \o hits,
                    !.pc = IF search.sub < Len(SubQueries) THEN "retrieve" ELSE "fuse",
                    !.sub = @ + 1]
    /\ UNCHANGED <<stores, caches, searches, rrf>>

RetrieveVectors == \E order \in VectorOrders : RetrievedVectors(VectorHits(order))

\* The embedder or the vector table fails: the keyword hits are all there is.
VectorsFail == RetrievedVectors(<<>>)

-----------------------------------------------------------------------------
(* Fusion and filters.                                                      *)

KindMatches(id, kind) == kind = None \/ Sym[id].kind = kind
PathMatches(id, word) == word = None \/ word \in ToSet(Paths[Sym[id].file])

FilterHitsByControls(hits, controls) ==
    Select(hits, LAMBDA h :
        /\ controls["lang"] \in {None, h.lang}
        /\ KindMatches(h.id, controls["kind"])
        /\ PathMatches(h.id, controls["path"])
        /\ PathMatches(h.id, controls["file"]))

RankOf == [id \in Ids |-> IF id \in rows THEN Metrics[id] ELSE 0]

Fused ==
    IF rrf \/ Len(SubQueries) > 1
    THEN ReciprocalRankFusion(search.keyword, search.vector, GraphRankedHits(search.keyword, RankOf))
    ELSE RankHits(search.keyword, search.vector, Intent.class, SubQueries[1])

\* Mutant: the request's exported_only is forgotten.
FuseWithoutExported ==
    /\ At("fuse")
    /\ search' = Ranks(FilterHitsByControls(Fused, Parsed.controls))
    /\ UNCHANGED <<stores, caches, searches, rrf>>

Fuse ==
    /\ At("fuse")
    /\ search' = Ranks(Select(FilterHitsByControls(Fused, Parsed.controls),
                              LAMBDA h : Request.exported => Sym[h.id].exported))
    /\ UNCHANGED <<stores, caches, searches, rrf>>

\* The five boosts in their order.
Boost ==
    LET popular == PopularityBoost(search.hits, RankOf)
        documented == DocstringBoost(popular, Documented \cap rows)
        selected == SelectionBoost(documented, {}, Expanded)
        near == AffinityBoost(selected, [f \in DOMAIN File |-> 0])
    IN
    /\ At("boost")
    /\ search' = [search EXCEPT !.pc = "rerank",
                    !.hits = PackageBoost(near, Packages, Paths, Parsed.controls["package"], Intent.class)]
    /\ UNCHANGED <<stores, caches, searches, rrf>>

\* With three hits or more; a failure leaves the hits as they are.
Rerank ==
    LET docsOf == RerankDocs(search.hits) IN
    /\ At("rerank")
    /\ \E hits \in {search.hits} \cup
                   (IF Reranker /\ Len(search.hits) >= 3
                    THEN {ApplyRerankerScores(search.hits, [i \in DOMAIN docsOf |-> s[docsOf[i].id]]) : s \in RerankScores}
                    ELSE {}) :
          search' = [search EXCEPT !.pc = "diversify", !.hits = hits]
    /\ UNCHANGED <<stores, caches, searches, rrf>>

DiversifyHits ==
    /\ At("diversify")
    /\ search' = [search EXCEPT !.pc = "expand", !.hits = Diversify(search.hits, Request.limit, ClusterOf)]
    /\ UNCHANGED <<stores, caches, searches, rrf>>

ExpandHits ==
    LET e == ExpandWithEdges(search.hits, Request.limit, RowEdges, rows) IN
    /\ At("expand")
    /\ search' = [search EXCEPT !.pc = "assemble", !.hits = e.hits, !.expanded = e.ids]
    /\ UNCHANGED <<stores, caches, searches, rrf>>

AssembleAnswer ==
    LET found == Select([i \in DOMAIN search.hits |-> search.hits[i].id], LAMBDA id : id \in rows)
    IN
    /\ At("assemble")
    /\ AnswerWithContext("ranked", search.hits, search.expanded,
                         Select(found, LAMBDA id : id \notin search.expanded),
                         Select(found, LAMBDA id : id \in search.expanded), TruncationQuery)

\* SQLite or the keyword index fails where a stage reads it: the caller gets the
\* error and nothing is kept.
Fail ==
    /\ search.pc \in {"lookup", "byId", "callers", "retrieve", "boost", "expand", "assemble"}
    /\ At("byId") => Parsed.controls["id"] # None
    /\ search' = Ended("failed", NoAnswer)
    /\ UNCHANGED <<stores, caches, searches, rrf>>

-----------------------------------------------------------------------------
(* Meanwhile.                                                               *)

\* An index run cleans a file: its rows, and with the commit at its end its
\* documents; its vectors in a step of their own.
CleanFile ==
    \E f \in Removed :
        /\ \E id \in rows : Sym[id].file = f
        /\ rows' = {id \in rows : Sym[id].file # f}
        /\ UNCHANGED <<docs, vecs, indexRuns, caches, search, searches, rrf>>

DeleteVectors ==
    /\ vecs # rows
    /\ vecs' = rows
    /\ UNCHANGED <<rows, docs, indexRuns, caches, search, searches, rrf>>

CommitRun ==
    /\ vecs = rows /\ docs # rows
    /\ docs' = rows
    /\ indexRuns' = indexRuns + 1
    /\ UNCHANGED <<rows, vecs, caches, search, searches, rrf>>

\* The server is started again: the caches are in memory only.
Restart ==
    /\ searches = MaxSearches
    /\ search.pc \in {"answered", "panicked", "failed"}
    /\ stamps' = <<0, 0>>
    /\ responses' = EmptyCache /\ contexts' = EmptyCache
    /\ search' = Idle
    /\ searches' = 0
    /\ rrf' \in RrfSettings
    /\ UNCHANGED stores

-----------------------------------------------------------------------------
Step ==
    \/ Lookup \/ AnswerById \/ Understand \/ AnswerCallers \/ NoCallers
    \/ RetrieveKeyword \/ RetrieveVectors \/ VectorsFail \/ Fuse \/ Boost \/ Rerank
    \/ DiversifyHits \/ ExpandHits \/ AssembleAnswer \/ Fail

Next == Ask \/ Step \/ CleanFile \/ DeleteVectors \/ CommitRun \/ Restart

Spec == Init /\ [][Next]_vars

-----------------------------------------------------------------------------
(* Properties.                                                              *)

Labels == {"idle", "lookup", "byId", "callers", "retrieve", "vectors", "fuse", "boost", "rerank",
           "diversify", "expand", "assemble", "answered", "panicked", "failed"}

IsHits(hits) == \A i \in DOMAIN hits : hits[i].id \in Ids /\ hits[i].score \in Int

\* The state has the shape the code gives it; a store is asked for a sub-query
\* only while there is one.
TypeOK ==
    /\ {rows, docs, vecs} \subseteq SUBSET Ids
    /\ search.pc \in Labels
    /\ search.request \in Requests \cup {None}
    /\ IsHits(search.keyword) /\ IsHits(search.vector) /\ IsHits(search.hits) /\ IsHits(search.answer.hits)
    /\ search.pc \in {"retrieve", "vectors"} => search.sub \in DOMAIN SubQueries
    /\ DOMAIN responses \subseteq Requests
    /\ searches \in 0..MaxSearches

Distinct(s) == \A i, j \in DOMAIN s : s[i] = s[j] => i = j

\* An answer, computed or taken from the cache, names every symbol once, no
\* more of them than were asked for, and the better before the worse: the
\* lists of several sub-queries, the fusion, the boosts, the reranker and the
\* expansion each put hits together or change their scores.
AnswersAreRanked ==
    At("answered") =>
        LET hits == search.answer.hits
        IN  /\ Len(hits) <= Request.limit
            /\ Distinct([i \in DOMAIN hits |-> hits[i].id])
            /\ \A i \in 1..(Len(hits) - 1) : hits[i].score >= hits[i + 1].score

PassesFilters(id, controls) ==
    /\ Request.exported => Sym[id].exported
    /\ controls["lang"] \in {None, Sym[id].lang}
    /\ KindMatches(id, controls["kind"])
    /\ PathMatches(id, controls["path"]) /\ PathMatches(id, controls["file"])

\* What the request rules out is not answered: exported_only holds on every
\* path, the controls where the hits were ranked (an answer by id or about
\* callers ignores them).  The neighbours an answer was expanded with are the
\* exception the code makes: those are linked to a symbol that passes.
FiltersHold ==
    At("answered") =>
        LET a == search.answer
            controls == Parsed.controls
        IN  \A i \in DOMAIN a.hits :
                LET id == a.hits[i].id IN
                IF a.path # "ranked" THEN Request.exported => Sym[id].exported
                ELSE IF id \notin a.expanded THEN PassesFilters(id, controls)
                ELSE \E e \in Edges : id \in {e.from, e.to}
                        /\ \E other \in {e.from, e.to} \ {id} : PassesFilters(other, controls)

\* Two better hits of the cluster of all[i] are among the chosen.
Crowded(all, chosen, i) ==
    /\ ClusterOf[all[i].id] # None
    /\ Cardinality({k \in 1..(i - 1) : /\ all[k].id \in chosen
                                      /\ ClusterOf[all[k].id] = ClusterOf[all[i].id]}) >= 2

\* What diversification does to the answer: it fills every place there is a hit
\* for, and the clusters alone settle who gets one.  A hit is left out for a
\* worse one only if it is crowded and that one is not, and a crowded hit is
\* in for a better one only if that one is crowded, too, and never for
\* anything else: not to bring in another file or another kind of symbol.
\* diversify_by_file and diversify_by_kind follow in search, but the list they
\* get is never longer than the limit, unless that is 1.
SelectionIsDiverse ==
    [][At("diversify") /\ search'.pc = "expand" =>
        LET all == search.hits
            chosen == IdsOf(search'.hits)
        IN  /\ Len(search'.hits) = Least(Request.limit, Len(all))
            /\ \A i, j \in DOMAIN all :
                  all[i].id \notin chosen /\ all[j].id \in chosen =>
                    \/ Crowded(all, chosen, i) /\ ~Crowded(all, chosen, j)
                    \/ (Crowded(all, chosen, i) <=> Crowded(all, chosen, j)) /\ j < i]_vars

\* The context of an answer keeps to its budget: without its last item it fits
\* max_context_tokens, a role with more than one item keeps to its share, and
\* what is shown twice (once for anything but a root) is no third time.
ContextWithinBudget ==
    At("answered") =>
        LET items == search.answer.items
            Role(r) == {i \in DOMAIN items : items[i].role = r}
        IN  /\ Distinct([i \in DOMAIN items |-> items[i].key])
            /\ items # <<>> => Tokens(Front(items)) <= MaxTokens
            /\ \A r \in {"root", "extra", "expanded"} :
                  Cardinality(Role(r)) > 1 => RoleTokens(items, r) <= Cap(r)
            /\ \A i \in DOMAIN items :
                  Cardinality({j \in 1..(i - 1) : items[j].group = items[i].group})
                    < (IF items[i].role = "root" THEN 2 ELSE 1)
=============================================================================
