# Verification of the code intelligence server

A TLA+ development of the server in this repository: what it keeps on disk and
in memory about a workspace, how index runs and searches change it, and what a
user of the index may rely on. Line numbers are those of `src/` (`mod.rs` alone
is `src/indexer/pipeline/mod.rs`).

## The system

| Component | State | Operations | Hard parts |
|---|---|---|---|
| Index run, sequential (`indexer/pipeline/mod.rs`, `scan.rs`) | locals of the run | `index_all`, `index_paths`, cleanup of deleted files, the per-file pipeline | a crash or error between any two statements; edits while it runs; two runs at once |
| Index run, parallel (`parallel.rs`) | locals of each worker | worker pool, retries, batch of embeddings | a Tantivy writer shared by the workers; retry over half-done work; a batch with a limit |
| Index stores (`storage/`) | SQLite, Tantivy, LanceDB | deletes, upserts, commit | no transaction spans two stores; the Tantivy buffer is lost with the process |
| Watch loop (`mod.rs:345-424`) | failures, time of the last run | check, rate limit, back-off | a change dropped or delayed; never coming to rest |
| Retriever caches (`retrieval/cache.rs`, `retrieval/mod.rs`) | three LRU caches, two stamps | lookup, invalidate, insert | stamps read and responses inserted at different times; limits |
| Search, ranking (`retrieval/mod.rs`, `query.rs`, `ranking/`) | caches | parsing, retrieval, fusion, filters, boosts, reranking, diversification, expansion | several early returns and fallbacks; hits put together from lists; stores that change between two steps |
| Context assembly (`retrieval/assembler/`) | none | budget shares, truncation, grouping | a budget shared by roles, items larger than it |
| Symbol extraction (`indexer/extract/`) | none | symbols, imports, types, data flow, TODOs, patterns of eight languages | what each language takes for a symbol and for exported |
| Edges, call graph, PageRank (`edges.rs`, `usage.rs`, `graph/`) | `symbols`, `edges`, `edge_evidence`, `usage_examples`, `todos`, `framework_patterns`, `symbol_metrics` | extraction, resolution, cascade, traversal, iteration | edges lost when their target is indexed again; ids shared by namesakes; cycles; limits |
| Embedding cache (`storage/cache.rs`) | a table, counters | get, put, trim | entries outlive the embedder that made them |
| Startup (`main.rs`, `vector.rs`, `tantivy.rs`) | schema version, dimension of the table | wipe, migration, automatic re-index | stores dropped while fingerprints stay; a crash in between |
| Tool handlers (`handlers/mod.rs`) | none | affected code, data flow, references, TODOs, patterns | second limits, second walks |
| Paths, packages, embedders, selections, configuration, metrics, web page | | pure functions and single statements | |

`refresh_index` (a tool call) and the watch loop both run the pipeline of one
`IndexPipeline`; nothing serialises them. Searches read the stores while runs
write them, and learn of a run through two time stamps in SQLite.
`PROJECT.json` lists every component with its sources, and every hazard with
its line and the properties that are about it.

What makes each component correct:

- *index runs*: the fingerprint table decides what later runs skip, so a stored
  stamp that equals the one on disk must mean that the stores hold that content
  and no other; a file once served stays so until it changes; when the user
  stops, the stores come to agree with the workspace;
- *watch loop*: changes are picked up in bounded time, runs are spaced, and the
  loop rests when nothing changes;
- *caches*: a hit is what the index would answer now, the limits hold, the
  accounting is exact, and nothing is evicted that fits;
- *graph tables*: every row follows from the source that was indexed last,
  declarations have rows and local calls have edges, the ranking is that of the
  edges there are, and the tools answer from them exactly up to their limits;
- *search*: an answer names a symbol once, in order, within the limit, and
  nothing the request rules out; of what is alike few get a place while there is
  something else, and no place is lost; the context keeps to its budget;
- *restarts*: the vectors of the table have the dimension queries use, those of
  a file come from one model, and what is skipped as unchanged is lost to nothing but an upgrade.

## Modules

| Module | Models | Correspondence |
|---|---|---|
| `IndexStores` | the stores and the statements on them | one variable per table or store, a file's rows abstracted to the set of contents they come from; `Edit`/`Remove` are the user |
| `FreshIndex` | the abstract index: files are served or not | specification only, no code |
| `SequentialIndexer` | an index run with one worker | one action per store statement, read of the workspace or error path; `run[r].pc` names the statement to come |
| `SequentialIndexerProofs` | theorems about it | |
| `ParallelIndexer` | an index run with a pool | one action per statement of `index_file_single`, `Retry` for `index_file_with_retry`; the cleanup, detailed in `SequentialIndexer`, is one step |
| `ParallelIndexerProofs` | theorems about it | |
| `WatchLoop` | `spawn_watch_loop` and `check_for_changes` | ticks for milliseconds; a run is reduced to the stamps it leaves |
| `WatchLoopProofs` | theorems about it | |
| `LruCaches` | the methods of `LruCache` as operators | the two eviction loops are one search for the first number of pops at which both stop |
| `LruCache` | one cache under any sequence of calls | |
| `LruCacheProofs` | theorems about it | with lemmas about the operators of `LruCaches` |
| `RetrieverCaches` | searches, response and context cache, stamps, index runs | the lock-protected blocks and the reads between them are the actions |
| `RetrieverCachesProofs` | theorems about it | |
| `Extraction` | the extractors of `indexer/extract` | operators from an abstract syntax tree to an `ExtractedFile`; one operator per function of the extractors |
| `EdgeExtraction` | rows, ids, name resolution, edges, evidence, usage examples of one file | operators on what was extracted and on what the tables hold |
| `Orders` | sorting, filtering, cutting and summing lists | what `ORDER BY`, `LIMIT` and the standard library do; `SelectSeq` and `SortSeq` have no definition a proof can use |
| `GraphQueries` | the graph queries, their tools and PageRank | operators on the set of edges; the queue of the traversal is a fold over rounds |
| `CodeGraph` | index runs over the graph tables, sequential or with a pool | one action per file and phase: pass over, store symbols, store edges, rank; `Cut` is an error or a crash; what the extractors find in each content is a constant |
| `CodeGraphProofs` | theorems about it | |
| `GraphOfTrees` | the graph of given syntax trees | `CodeGraph` with the contents that `Extraction` finds in the trees |
| `QueryText` | `query.rs`: normalisation, controls, intents, synonyms, sub-queries | a query is a sequence of words, a `Lexicon` says what the string functions find in each |
| `Ranking` | fusion and boosts (`rrf.rs`, `score.rs`, `package.rs`, `reranker.rs`) | scores are integers in units of `1/Unit` |
| `Diversity` | `diversify.rs`, `expansion.rs` | |
| `ContextAssembly` | `assembler/` | a text is a sequence of lines with token counts and words |
| `Search` | `Retriever::search` as a process over stores that change | one action per step that reads a store or returns |
| `SearchProofs` | theorems about it | with lemmas about every operator its actions use |
| `Startup` | starts, migrations, the embedding cache and crashes | one action per step of `run` that touches a store; an index run at the grain the three stores need |
| `StartupProofs` | theorems about it | |
| `MCCodeGraph`, `MCSearch`, `MCStartup` | the instances that are checked | |

`SequentialIndexer` and `ParallelIndexer` extend `IndexStores` and implement
`FreshIndex` under the mapping `served <- Served`, where `Served` are the files
whose stored stamp is current and whose content is in SQLite and in the
committed keyword index. `RetrieverCaches` and `LruCache` extend `LruCaches`;
`CodeGraph` extends `GraphQueries` and `EdgeExtraction`; `GraphOfTrees` extends
`CodeGraph` and takes its contents from `Extraction`; `Search` extends
`ContextAssembly`, that `Diversity`, that `Ranking` and `GraphQueries`, `Ranking`
extends `QueryText`, and all of them `Orders`.

**Abstraction of data.** A content is a number, in the order the contents were
written, and the stamp (mtime, size) of a file is its content's number: every
edit changes the stamp. (A file system with coarse time stamps could break
this; the code has no defence against it and the model does not look at it.)
The symbols of a file and the rows the schema deletes with them (edges,
clusters, docstrings, decorators, usage examples, metrics) are one set;
framework patterns and test links, which have statements of their own or none,
are kept apart. Upserts of a file are one step: a failure half-way through them
leaves a file without a current stamp, as a failure before them does.
In these modules what is extracted from a content is left to its number;
contents that cannot be read or parsed are the constant `Rejected`.

`CodeGraph` is the complement: the stores are one, a run is cut at the grain of
files and phases, and a content is what the extractors find in it: anything of
the right shape for the proofs, what `Extraction` makes of syntax trees for the
runs (`GraphOfTrees`). A name is a number, a text
is the sequence of its identifiers with their lines, and a hash that makes an
id is the record of what is hashed (so ids collide exactly where the code
gives equal input). Ranks are integers over `Unit`, with the division of the
code's floating point replaced by integer division on both sides of the
comparison. In `Search` the keyword index answers with the documents of each
word in a given order, the vector table with one of a set of orders, the
reranker with given scores; thresholds and boosts are the code's, scaled.

## Runs

Files are model values, or numbers where their order matters. `Restart` uses
the symmetry of files and builds, which nothing orders; no liveness is checked
there.

| Run | Shows | Bounds |
|---|---|---|
| `SeqFaults` | safety of the fingerprint table, the inductive invariant, `FreshIndex` with fairness, under two faults at any statement | 2 files, 3 contents (edit, edit back-to-back, and a second file), content 2 rejected |
| `SeqReadDirHeals` | after a scan that missed a directory, later runs repair every store, vectors included | 2 files, 3 contents, 1 unreadable scan |
| `SeqConcurrent` | **violation**: two overlapping runs leave a file stamped but not indexed | 1 file, 2 runners |
| `ParFaults` | the same promises with a pool, a crash or error anywhere; vectors follow when no run is cut short | 2 workers, 2 files, 3 contents, 1 fault, 2 attempts |
| `WatchPace` | spacing, bounded waiting, rest, agreement | 2 files, 3 contents, 3 failing checks or runs, interval 2, gap 3, back-off limit 5 |
| `LruBytes` | all properties of the LRU cache | 3 keys, 2 values, sizes 0, 1, 2 and 4, 2 entries, 3 bytes |
| `CacheOneSearcher` | cached responses are fresh after a run | 1 searcher, 2 queries, capacity 1, 2 files, 1 failing run |
| `CodeGraph` | rows, edges, evidence, TODOs and patterns follow the sources; ranks are current; traversals and tools are exact | 3 files (2 contents of the JavaScript and the TypeScript one), with and without a pool, 1 run cut short, depth 2, limits 1 and 5, 2 PageRank rounds |
| `GraphLosesCallers` | **violation**: edges into a file are lost for good | the same files, no pool, no cut |
| `Search` | answers are ranked, distinct, within the limit and the filters; clusters decide the selection; the context keeps to its budget | 11 requests (limits 1 to 4), 2 searches, 6 symbols of 3 files, 1 file removed at any step, restarts |
| `Restart` | vectors are comparable; only upgrades lose answers | 2 files, 2 contents, 3 starts, 2 builds, 3 embedders, 2 runs |
| `RestartLosesVectors` | **violation**: the automatic re-index indexes nothing | the same |

Why the bounds are enough. A run handles one file at a time, so two files show
every interference between a file and another (a commit for the other, a
cleanup while the other is indexed); three contents allow an edit during the
indexing of an edited file. Two faults allow a failure while recovering from a
failure. In `WatchPace` the back-off is reached twice below its limit and once
at it (4 ticks, then 5), and `Late`, the longest wait, is reached up to its
last tick: with one tick less `ChangesArePickedUp` is violated. In `LruBytes`
a value of 4 does not fit at all and a value of 2 can push out two others.

In `CodeGraph` the three files hold each case the code tells apart: a call to a
function of another file that is imported, imported under an alias, imported
from outside the workspace or not imported at all; a call to a namesake; a
cycle of calls; a class hierarchy; two exported and two private namesakes in
one file; a method named like a function; a file that is indexed before and
after those it refers to. Depth 2 reaches across two files and limit 5 cuts the
larger graphs and not the smaller; limit 1 cuts the TODOs
and the patterns too. `ReferenceLimit` and `EvidenceLimit` stand
for the code's 20 and 5 and are reached. Every other language is checked
by `ExtractionAssumption` of `MCCodeGraph` on one tree that has a declaration
of each syntactic class. In `Search` there is one request for each way through
`Retriever::search`; with limit 4 a third symbol of a cluster is passed over for
a worse one of none, and a crowded one is taken back when places are left. Two searches let the second be answered from the cache,
before or after a file is removed. In `Restart` three starts allow an upgrade,
a crash in the middle of it and a start after that; the three embedders are
the combinations of name and dimension a change of the settings can meet.

`BatchLimit` counts files, where the code counts symbols. With a limit below
the number of files to embed `EventuallyEmbedded` does not hold: what does not
fit in a batch waits until another file is indexed (`mod.rs:966`, `985`); the
same happens to a batch that is cut short, which is why the property speaks of
behaviours in which no run is. `RanksAreCurrent` is about runs that are not cut
short either: after an error between the files and the ranking no later run
ranks unless it indexes something (`mod.rs:541`).

**What else is violated.** The constants name the assumptions under which the
runs pass. Outside them, the same modules show:

- with one `"error"` among the faults `DeletedFilesForgotten` fails: the
  cleanup forgets a file's fingerprint before its documents (`mod.rs:498`), and
  a failure in between leaves them for good;
- `CleanedFileHasNoTestLinks` fails: `test_links` has no cascade, against the
  comment at `mod.rs:492`;
- `UnchangedVectorsNotStale` fails in `ParallelIndexer`: the pool never deletes
  the vectors of the content a file had before (`parallel.rs:203`, against the
  comment at `parallel.rs:63`);
- with a rejected content `EventuallyQuiet` fails: a file that never gets a
  fingerprint makes every check find a change (`mod.rs:323`);
- with two searchers `HitsAreFresh` fails: a response computed before a run is
  inserted into caches another search has emptied for the new stamps
  (`retrieval/mod.rs:788`); with `"many"` runs per second it fails with one;
- with `"vector_add"` faults `UnchangedHasVectors` fails: the stamp is written
  before the vectors (`mod.rs:924`), and a file whose vectors were refused stays
  without them until it is edited. `SeqReadDirHeals` has no such fault, so it
  says nothing about it; `SeqFaults` has, and shows that no old vectors are left;
- with `"read_dir"` and `"error"` faults together `SettledIsIndexed` fails;
- with `BatchLimit` 1 `EventuallyEmbedded` fails, as said above.

## Fairness

- A run that has begun goes on (tokio polls the task; the pool's threads run):
  weak fairness of `RunStep`, and of each worker's steps.
- The watch loop scans again and again, and calls of `index_paths` cannot keep
  it from its next scan: strong fairness of `Scan`. In `WatchLoop`, which has
  the loop itself, weak fairness of its steps and of the clock while it sleeps.
- Nothing is assumed of the user, of faults, or of the clock during a run.
- `CodeGraph`, `Search`, `Startup` and `LruCache` state no fairness: what is
  checked of them is safety.

## Proofs

`SequentialIndexerProofs` proves, for every set of files, every bound and every
combination of statement errors, vector errors and crashes, and assuming
`OneRunAtATime` (there is at most one runner, and directories can be read):

- `RunsKeepIndInv`: `Spec => []IndInv`;
- `TypeCorrect`, `UnchangedFilesHaveSymbols`, `UnchangedFilesAreSearchable`,
  `UnchangedFilesHaveNoStaleVectors`: the safety properties of `SeqFaults`;
- `RunsImplementFreshIndex`: the safety part of the refinement.

The safety properties are not inductive. `IndInv` adds to them: stamps in use
are those of contents already written, so an edit never reproduces one
(`StampsArePast`); a run takes the stores apart only of a file whose stored
stamp is out of date (`TakesApartOnlyStale`); what was read is what the stamp
stands for unless the file has changed since (`ReadsWhatItStamps`); and what
the run has done to the stores of its file up to each statement (`Progress`),
so that when the stamp is written everything it vouches for is in place.
There is one lemma per action, and under it one step per conjunct it disturbs.
`OneRunAtATime` is needed: `SeqConcurrent` shows what happens without it.

- `UnchangedFilesHaveVectors`: `VectorsAlwaysArrive => (Spec => []UnchangedHasVectors)`.

Vectors are written after the fingerprint, so this one has a hypothesis of its
own: one run at a time, and no faults but errors and unreadable directories (a
crash, or a table that refuses the vectors, leaves a stamped file without
them). It is wider than what `SeqReadDirHeals` checks, which has no errors
because its liveness property needs that. `ArrivalInv` says that a file that
counts as unchanged has its vectors unless a run is about to add them, and what
a run knows about the file in its hands (`InHand`): cleanup deletes a
fingerprint before the vectors, so even an existing file that a scan has missed
does not count as unchanged when they go.

`StartupProofs` proves, for every set of files, contents, builds and embedders,
every bound, and crashes at every step:

- `TypeCorrect`: `Spec => []TypeOK`;
- `VectorsStayComparable`: `Spec => []VectorsAreComparable`;
- `OnlyUpgradesTakeAnswers`: `Spec => OnlyUpgradesLoseAnswers`.

It assumes only what `Startup` assumes of its constants: dimensions are
positive (`DimAssumption`), `None` is none of the other values
(`NoneAssumption`), bounds are numbers (`BoundsAssumption`). The second is not
inductive; `ComparableInv` adds that an entry of the embedding cache was made
by a model of the name it is filed under (`EntriesNameTheirMaker`: without it a
hit could bring in the vector of another model), that the file in hand has no
vectors in the table and only vectors of the running model's name in memory
(`OneModelInHand`: so `PutVectors` cannot mix two models in a file), and that a
start which has passed the migration finds no table of another dimension
(`TableFits`: so `OpenTable` opens one that fits). The theorem covers the
vectors of one file; two models of equal dimension started one after the other
leave vectors of both in the table, in different files, and nothing in the code
rules that out.

`SurvivalInv` of the third adds that fingerprints are those of
contents already written (`FingerprintsArePast`), that the next commit leaves
an unchanged file the documents of its content (`CommitsLoseNothing`: the
deletes that wait in the buffer are only those of files about to get a new
stamp), and that the schema and the dimension found on disk are those of the
last start that came up, as long as no start has got past the point where it
changes them (`SchemaIsKnown`, `DimensionIsKnown`: they say why a start that
finds no mismatch takes nothing away, and who the upgrade was when one does).

`ParallelIndexerProofs` proves, for every number of workers and attempts and
every combination of faults, without further assumption:

- `PoolKeepsIndInv`: `Spec => []IndInv`;
- `TypeCorrect`, `UnchangedFilesHaveSymbols`, `UnchangedFilesAreSearchable`:
  the safety properties of `ParFaults`;
- `PoolImplementsFreshIndex`: the safety part of the refinement.

Its `IndInv` is weaker in shape than the sequential one and harder to keep: the
writer is shared, so a commit publishes what other workers have buffered, and a
crash or error loses it. `Vouched` says that a file with a current stamp has
its symbols and that every commit, now or later, leaves it its documents;
`OneWorkerPerFile` that no two workers, and no worker and the list of files to
come, have the same file, which is why another worker's steps leave a worker's
promise alone; `WorkerInv` what each worker has done to its file up to each
statement, over any number of attempts.

`LruCacheProofs` proves of one cache under any calls, for all keys, values,
sizes and both limits: `TypeCorrect`, `LimitsHold` (`WithinLimits`),
`MostRecentAreKept` (`KeepsMostRecent`) and `NothingElseIsEvicted`
(`EvictsOnlyWhatDoesNotFit`). The invariant is `LruInv`: the queue and the
table hold the same keys, each once, and the bytes are counted right (`Sound`),
the cache fits, and the queue is sorted by the history of uses. The work is in
the lemmas about `LruCaches`: each method keeps a cache sound, the bytes of
a table change by the size of what comes or goes (`SizeOf` counts them as a
set, so that facts about cardinalities do instead of an induction), and the
pops stop at the least number at which the cache fits.

`RetrieverCachesProofs` proves `TypeCorrect`, for any number of searchers, and

- `CachedAnswersAreFresh`: `OneSearcherOneRunPerSecond => (Spec => []HitsAreFresh)`.

The hypothesis, that there is at most one searcher and that runs begin in
different seconds, is what `CacheOneSearcher` checks under; the property fails
without either half (see "What else is violated"). `FreshInv` adds: no stamp is
ahead of the clock (`StampsArePast`), the caches remember the stamps they were
last emptied for (`KeepsTheStamps`), what a search has read is what the index
holds unless the stamps have moved since (`ReadsAreFresh`), and so is what is
in the caches (`CachesAreFresh`). The last alone is not inductive: an insert
brings in what was read several steps before.

`WatchLoopProofs` proves, for every interval, gap and back-off limit and any
number of edits, failing checks and failing runs: `TypeCorrect`, `ChangesWaitAtMostAPause`
(`ChangesArePickedUp`) and `RunsArePaced` (`Paced`). The bound on the wait is
the invariant `WaitInv`: how long a change has waited is tied to where the loop
is and what its timer shows (`WaitsWithinTheGap`, `RunsAfterTheGap`,
`WaitEndsInTime`), and a scan under way will find what has changed
(`ChecksFindIt`). The spacing is `PaceInv`: the loop is in its back-off or has
been through it whenever the last run failed (`BackoffIsForFailures`,
`PauseIsLongEnough`), and its own measure of the gap never runs ahead of the
time since the last run (`GapIsCountedFromTheRun`).

`CodeGraphProofs` proves, for any number of files with any contents, whatever
the extractors find in them, with and without a pool, and any number of runs
cut short anywhere:

- `Invariance`: `Spec => []IndInv`;
- `TypeCorrect` (`TypeOK`: one row for each id, one edge for each source, target
  and type, scores of stored symbols only), `EdgesAreOfTheText`
  (`EdgesFollowText`), `LocalCallsAreKept` (`LocalCallsHaveEdges`),
  `RanksStayCurrent` (`RanksAreCurrent`), `TraversalsStayExact`
  (`TraversalsAreExact`) and `ToolsStayExact` (`ToolsAreExact`), the last two for
  every depth and limit.

It assumes of the constants that the files are finitely many and numbered (their
order is that of the paths), that contents have the shape of an `ExtractedFile`
(`SourceAssumption`: lines are numbers, nothing else is assumed of what is in
it), that a hash is a number
(ids are compared as such by `ORDER BY`) and that no two different
things that are hashed for an id have the same hash (`HashAssumption`: the code
identifies symbols by it and has no defence against a collision). `IndInv` adds
to the properties: a file between its two steps was read as it is on disk and
its stored stamp is of another content (`FilesInv`); its stored rows, and those
of a file that is not due, are the rows of that content and of no other
(`RowsInv`); no edge starts in a file between its steps, every other is of the
content its file's stamp stands for, and each name a run remembers stands for
the row or made-up id of a symbol of that name (`EdgesInv`); notes are of that
content too (`NotesInv`); and until a run has changed something the scores are
those of the graph there is, after which it must come to the ranking
(`RanksInv`). Two arguments recur. An id leads back to what was hashed, so rows
of one id are of one file and one name (`SameIdSameName`) and deleting the rows
of a file takes exactly the edges that touch it. And the edges of a file are
stored row after row: the rows are upserted by a recursive function
(`UpsertInTurn`), and what holds after the last is shown by a least
counterexample (`Least`, `UpsertedInTurn`), with no induction over an operator.
`LocalCallsHaveEdges` speaks of pools only: with one worker the names are
collected over all files of a run (`KnownNames`), and a namesake of an earlier
file can take the edge.

`TraversalsAreExact` is about an operator and needs no invariant of its own: of the
stored graph it uses that there are finitely many edges, that their ends are
stored, and that source, target and type tell them apart (`StoredGraph`,
`Graph`), so that a limited query lists the first rows of a strict order
(`EdgesInOrder`, `ListedFrom`, `ListedTo`: all of them unless there are more than
the limit). A level of the traversal is two folds, over the symbols of the
last level and over the edges of each; `Reaches` says what has come of it so
far, the step over one edge keeps it (`FollowGrows`), the folds carry it along
(`FollowedDown`, `FollowedUp`, `LevelGrows`), and `LevelOK` is the invariant of the
levels: what is shown is within the distance, every symbol shown is on an edge
listed, an edge listed comes from a symbol already looked at, so none is listed
twice in one direction, and while the limit has not struck nothing
within the distance is missing (`LevelStepOK`, `TraversalExact`).

`ToolsAreExact` is shown tool by tool. `TraceDataFlow` is a traversal of its own, with
two folds as well: `Traces` says what has come of an edge, a list and a level, and
`TraceOK`, the invariant of its levels, that a symbol is reported on the level on
which it is first reached, which `BallsAgree` ties to the distances of `Within`
(`FlowsExact`). The other four take the first rows of a sorted list and keep those
asked for; that each of the sort keys is a strict order of the rows
(`ByNumbersStrict`) makes "the first rows" well defined, and that a list no longer
than the limit is taken whole gives the claims (`AllOfFew`, `AffectedExact`,
`ReferencesExact`, `TodosExact`, `PatternsFirst`). For the notes this needs one more
invariant, `NoteRowsInv` (`NotesInvariance`): there are finitely many TODOs and
patterns, and no two of one id. The upserts keep it although a content may have
several notes on one line (`TodosUpserted`, `PatternsUpserted`).

`SearchProofs` proves of a search, for any index and any requests, whatever the
reranker answers, whichever of the fallbacks are taken, wherever it fails, and while an index run
removes files between any two of its steps:

- `SearchInvariant`: `Spec => []Inv`;
- `SearchTypes` (`TypeOK`), `AnswersRanked` (`AnswersAreRanked`),
  `FiltersAreHeld` (`FiltersHold`), `SelectionDiverse` (`SelectionIsDiverse`) and
  `ContextKeepsBudget` (`ContextWithinBudget`): every property of the run `Search`;
- `ClustersDecideAlone`: for every limit above 1 diversification is the pass over
  the clusters; those over files and kinds change nothing (see the last section).

`SelectionIsDiverse` is about the step that diversifies: all places are filled,
and of two hits the worse one is preferred only if the better one has two better
hits of its cluster among the chosen and the worse has not.

It assumes that a request has a limit above zero (the handlers take the maximum
with one), words and symbols the tables know (`RequestsAssumption`,
`LexiconAssumption`, `RankingAssumption`, `ContextAssumption`), edges between symbols,
each known by its ends and its type, which are unique in their table
(`EdgesAssumption`), and that the stores return ids of symbols
(`StoresAssumption`); the rest of the index is arbitrary. `Inv` says what each
stage hands to the next. `StageOK`: from the filters on, the hits are a list
without repetition of symbols that pass (`ListsOf`, `Passing`); what was expanded is ranked, within
the limit and of symbols that pass or were joined by an edge (`AnswerIds`); there
is a sub-query wherever one is used. `StoresOK`: every kept response is one that
could be given for its request (`AnswerOK`), every kept context is within its
budget (`InBudget`). `SearchOK` are the types. Without `StoresOK` a response from
the cache would prove nothing, and without `StageOK` neither would the answer:
all but `SelectionIsDiverse` look at its end only. That one follows from the list
before the step being without repetition (`ChosenFrom`). The properties are then about
operators, and these are folds and sorts. `Sorted` picks the element with `i - 1`
before it, so that it lists a finite set in order follows from facts about
cardinalities (`ChosenInOrder`, `ListedInOrder`); a fold over a list is shown to
run through its prefixes (`FoldExists`, `RunExists`), and what holds of the
accumulator after each of them by a least counterexample (`ReachedEnd`). The two
hard ones are diversification, where every hit of the pass is taken, put back or
beyond the cut and the answer is a choice of places (`SplitInto`,
`TakenPerGroup`), and the budget, where an item is added to the sum of its role
and of all (`OneMoreInBudget`, `AssembledInBudget`).

Every inductive invariant was checked as an invariant of a run before it was
proved; that of the sequential runs stays in `SeqFaults`.

What is only model-checked, and why. Liveness and the fair refinement
(`EventuallyAgrees`, `EventuallyEmbedded`, `EventuallyQuiet`,
`EventuallyIndexed`, `ImplementsFairFreshIndex`) are out of the prover's reach.
`Extraction` walks trees with recursive operators, which the prover cannot
reason about, so `OnlyNamesakesAreLost`, the property that looks at the trees,
stays with TLC (`GraphOfTrees`).

## What the violations say about the code

Each is in `PROJECT.json` under `findings`, with the line of the code and the
statement it contradicts:

- nothing keeps two index runs apart (`SeqConcurrent`);
- edges are stored only to symbols that are there, and go with them when their
  file is indexed again, while the file they come from counts as unchanged
  (`GraphLosesCallers`);
- the re-index after a change of the vector dimension skips every unchanged
  file (`RestartLosesVectors`).

Two more contradict a statement of the documentation without a run of their own;
what holds instead is checked by `Search` and proved:

- `diversify_by_file` is there "to prevent any single file from dominating
  results" (`diversify.rs:5-8`), and `search` calls it, but after
  `diversify_by_cluster` has cut the list to the limit (`retrieval/mod.rs:724-726`).
  For every limit above 1 neither it nor `diversify_by_kind` ever acts
  (`ClustersDecideAlone`), and one file may take every place: `FileAssumption` of
  `MCSearch` chooses three hits of one file from four although `max_per_file` is 2.
  `SelectionIsDiverse` states what selection does, not what that comment promises;
- the context "respects token limits" (`SYSTEM_ARCHITECTURE.md:235`), but the item
  that no longer fits is added before assembly stops (`assembler/mod.rs:204-247`),
  and truncation keeps first and last lines whatever they cost. In the run `Search`
  a context of 22 tokens is answered with a budget of 20; `ContextWithinBudget`
  bounds a context without its last item.

Reading the code for the models brought up more, which the models reproduce and
no property is about:

- the bodies of `if`, `for`, `while` and `do` are looked for under field names
  their nodes do not have, so no data flow is found in them
  (`DataflowFromNode`); the import clause of
  TypeScript likewise, so only what a file re-exports is an import of it
  (`IsFound`); the fields of Rust tuple structs give no type edges (`RustTypes`); lines of Go, Python, Java, C, C++ and JavaScript
  symbols count from 0 (`LineBase`);
- two exported symbols of one name in a file have one id (`SymbolId`), and the
  later row replaces the earlier;
- the framework patterns of a deleted file stay (`NotesOfOthers`, `StartRun`);
- JSDoc entries and decorators are looked up at a leaf of the tree and get ids
  that are no symbols', so none is stored;
- the boost for selections is never applied: its query is not valid SQL and the
  error is swallowed; nothing calls `upsert_file_affinity`; the package of a
  symbol is looked up by a path prefix no file has (`Ranking`);
- a symbol the expansion brings in may be unexported although only exported
  ones were asked for (`FiltersHold` names the exception);
- a query that is nothing but controls, or whose trimmed copy splits a
  character, makes the search panic (`Search`, `"panicked"`);
- a response computed while the embedder failed is cached like any other.

## Not modelled, and the plan

Left out of the modules above: the further vector hits of HyDE, which is off by
default (`Search`), and single statements of the cleanup in the pool
(`ParallelIndexer`), which `SequentialIndexer` takes one by one.

Not modelled: tree-sitter and the embedding and ranking models (numeric
functions behind one call, whose failures are actions); package manifests
(parsing into a table of its own; the package of a file is a constant where it
matters); path functions; selections and affinity (single statements);
configuration, metrics, the command line; tool handlers that render one query;
the web page; the migrations of the SQLite schema (`ALTER TABLE` statements
that are repeated until they are there). These have neither concurrency nor a
state the other parts read.
