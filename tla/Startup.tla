------------------------------ MODULE Startup ------------------------------
(***************************************************************************)
(* Starting the server over the stores an earlier start left behind        *)
(* (main.rs run), with what decides which of their contents survive:       *)
(*                                                                         *)
(*   - storage/tantivy.rs open_or_create wipes the keyword index when the  *)
(*     schema version on disk is not the one of this build;                *)
(*   - storage/vector.rs migrate_vector_table drops the vector table when  *)
(*     its dimension is not the one of the embedder, and run then calls    *)
(*     index_all once;                                                     *)
(*   - storage/cache.rs keeps embeddings in SQLite, by model name and      *)
(*     text, over every restart.                                           *)
(*                                                                         *)
(* The process may stop between any two steps.  The index run is the       *)
(* sequential pipeline of indexer/pipeline/mod.rs at the grain the three   *)
(* stores need; SequentialIndexer has it in full.  A content is the number *)
(* of the edit that wrote it, and the texts of its symbols are what the    *)
(* embedding cache is asked for.                                           *)
(***************************************************************************)
EXTENDS Naturals

CONSTANTS
    Files,
    Embedders,   \* the settings a start may choose its embedder by
    DimOf,       \* dimension of the vectors of each embedder
    NameOf,      \* model_name the cache is opened with, for each embedder
    Builds,      \* TANTIVY_SCHEMA_VERSION of the binaries that are started
    TextsOf,     \* texts of the symbols of each content
    MaxEdits,    \* bound: contents ever written
    MaxStarts,   \* bound: starts of the server
    MaxRuns,     \* bound: index runs that were asked for
    None

Version == 1 .. MaxEdits
Names == {NameOf[e] : e \in Embedders}
Texts == UNION {TextsOf[v] : v \in Version}
Absent == 0

ASSUME BoundsAssumption == MaxEdits \in Nat /\ MaxStarts \in Nat /\ MaxRuns \in Nat
ASSUME DimAssumption == DimOf \in [Embedders -> Nat \ {0}]
ASSUME NoneAssumption == None \notin Files \cup Builds \cup Embedders \cup Nat

VARIABLES
    disk, edits,             \* the workspace
    fingerprint,             \* SQLite: content indexed, per file
    cache,                   \* SQLite: the embedder that made each entry
    schemaOnDisk,            \* the schema_version file of the keyword index
    docs, buffered,          \* Tantivy: what the reader and the writer hold
    tableDim,                \* LanceDB: dimension of the table, None without one
    vectors,                 \* LanceDB: <<text, embedder>> of each file's records
    pc, build, embedder,     \* the process: where it is and what it runs with
    needsReindex,            \* answer of migrate_vector_table
    run, todo, work,         \* the index run: who asked, files left, file in hand
    starts, runs,            \* counters for the bounds
    lastUp                   \* history: build and dimension of the last start that came up

diskVars == <<disk, edits>>
keywordVars == <<schemaOnDisk, docs, buffered>>
tableVars == <<tableDim, vectors>>
runVars == <<run, todo, work>>
processVars == <<pc, build, embedder, needsReindex, starts, lastUp>>
vars == <<diskVars, fingerprint, cache, keywordVars, tableVars, processVars, runVars, runs>>

Work == [file : Files, of : Version, at : {"embed", "docs", "rows", "vectors"},
         made : SUBSET (Texts \X Embedders)]

(* Types, and that only a process that has come up holds an index run: a   *)
(* stopped or failed run leaves no file in hand.                           *)
TypeOK ==
    /\ edits \in 0 .. MaxEdits
    /\ disk \in [Files -> Version \cup {Absent}]
    /\ fingerprint \in [Files -> Version \cup {Absent}]
    /\ cache \in [Names \X Texts -> Embedders \cup {None}]
    /\ schemaOnDisk \in Builds \cup {None}
    /\ docs \in [Files -> SUBSET Version]
    /\ buffered \in [Files -> SUBSET Version]
    /\ tableDim \in {DimOf[e] : e \in Embedders} \cup {None}
    /\ vectors \in [Files -> SUBSET (Texts \X Embedders)]
    /\ pc \in {"down", "keyword", "create", "migrate", "open", "up"}
    /\ (build \in Builds /\ embedder \in Embedders) \/ pc = "down"
    /\ needsReindex \in BOOLEAN
    /\ run \in {"none", "automatic", "asked"}
    /\ run # "none" => pc = "up"
    /\ todo \subseteq Files
    /\ work \in Work \cup {None}
    /\ (work # None \/ todo # {}) => run # "none"
    /\ starts \in 0 .. MaxStarts
    /\ runs \in 0 .. MaxRuns

Init ==
    /\ edits = 0
    /\ disk = [f \in Files |-> Absent]
    /\ fingerprint = [f \in Files |-> Absent]
    /\ cache = [k \in Names \X Texts |-> None]
    /\ schemaOnDisk = None
    /\ docs = [f \in Files |-> {}]
    /\ buffered = [f \in Files |-> {}]
    /\ tableDim = None
    /\ vectors = [f \in Files |-> {}]
    /\ pc = "down" /\ build = None /\ embedder = None
    /\ needsReindex = FALSE
    /\ run = "none" /\ todo = {} /\ work = None
    /\ starts = 0 /\ runs = 0
    /\ lastUp = [build |-> None, dim |-> None]

Exists(f) == disk[f] # Absent
Unchanged(f) == Exists(f) /\ fingerprint[f] = disk[f]

-----------------------------------------------------------------------------
(* The workspace. *)

Edit(f) ==
    /\ edits < MaxEdits
    /\ edits' = edits + 1
    /\ disk' = [disk EXCEPT ![f] = edits + 1]
    /\ UNCHANGED <<fingerprint, cache, keywordVars, tableVars, processVars, runVars, runs>>

Remove(f) ==
    /\ Exists(f)
    /\ disk' = [disk EXCEPT ![f] = Absent]
    /\ UNCHANGED <<edits, fingerprint, cache, keywordVars, tableVars, processVars,
                   runVars, runs>>

-----------------------------------------------------------------------------
(* The steps of a start, in the order of main.rs. *)

(* A build is started with some embedder; SQLite is opened, which changes  *)
(* nothing that an earlier start stored.                                   *)
Start(b, e) ==
    /\ pc = "down" /\ starts < MaxStarts
    /\ pc' = "keyword" /\ build' = b /\ embedder' = e
    /\ starts' = starts + 1
    /\ UNCHANGED <<diskVars, fingerprint, cache, keywordVars, tableVars, needsReindex,
                   lastUp, runVars, runs>>

(* The lock files of a process that died are removed; the directory is     *)
(* removed as a whole, its version file with it, unless that file names    *)
(* the schema of this build.                                               *)
WipeForeignSchema ==
    /\ pc = "keyword"
    /\ pc' = "create"
    /\ IF schemaOnDisk = build
         THEN UNCHANGED keywordVars
         ELSE /\ schemaOnDisk' = None
              /\ docs' = [f \in Files |-> {}]
              /\ buffered' = [f \in Files |-> {}]
    /\ UNCHANGED <<diskVars, fingerprint, cache, tableVars, build, embedder, needsReindex,
                   starts, lastUp, runVars, runs>>

(* Mutant: the version is written only where the directory already had a   *)
(* version file, so a fresh index has none.                                *)
OpenIndexWithoutVersion ==
    /\ pc = "create"
    /\ pc' = "migrate"
    /\ schemaOnDisk' = IF schemaOnDisk = None THEN None ELSE build
    /\ UNCHANGED <<diskVars, fingerprint, cache, docs, buffered, tableVars, build, embedder,
                   needsReindex, starts, lastUp, runVars, runs>>

(* The index that is there is opened, or an empty one created, and the     *)
(* version of this build written beside it.                                *)
OpenIndex ==
    /\ pc = "create"
    /\ pc' = "migrate"
    /\ schemaOnDisk' = build
    /\ UNCHANGED <<diskVars, fingerprint, cache, docs, buffered, tableVars, build, embedder,
                   needsReindex, starts, lastUp, runVars, runs>>

(* migrate_vector_table: without a table there is nothing to migrate; a    *)
(* table of another dimension is dropped with every record in it.          *)
MigrateVectorTable ==
    /\ pc = "migrate"
    /\ pc' = "open"
    /\ needsReindex' = (tableDim \notin {None, DimOf[embedder]})
    /\ IF needsReindex'
         THEN /\ tableDim' = None
              /\ vectors' = [f \in Files |-> {}]
         ELSE UNCHANGED tableVars
    /\ UNCHANGED <<diskVars, fingerprint, cache, keywordVars, build, embedder, starts, lastUp,
                   runVars, runs>>

(* open_or_create_table, and the rest of run up to the automatic           *)
(* re-index, which keeps nothing outside the process.                      *)
OpenTable ==
    /\ pc = "open"
    /\ pc' = "up"
    /\ tableDim' = IF tableDim = None THEN DimOf[embedder] ELSE tableDim
    /\ run' = IF needsReindex THEN "automatic" ELSE "none"
    /\ todo' = IF needsReindex THEN {f \in Files : Exists(f)} ELSE {}
    /\ lastUp' = [build |-> build, dim |-> DimOf[embedder]]
    /\ UNCHANGED <<diskVars, fingerprint, cache, keywordVars, vectors, build, embedder,
                   needsReindex, starts, work, runs>>

(* The process stops, wherever it is; what the keyword writer had not      *)
(* committed is lost with it.                                              *)
Stop ==
    /\ pc # "down"
    /\ pc' = "down"
    /\ buffered' = docs
    /\ needsReindex' = FALSE
    /\ run' = "none" /\ todo' = {} /\ work' = None
    /\ UNCHANGED <<diskVars, fingerprint, cache, schemaOnDisk, docs, tableVars, build, embedder,
                   starts, lastUp, runs>>

-----------------------------------------------------------------------------
(* An index run: index_all at the start, refresh_index or the watch loop   *)
(* later on.                                                               *)

AskForRun ==
    /\ pc = "up" /\ run = "none" /\ runs < MaxRuns
    /\ run' = "asked"
    /\ todo' = {f \in Files : Exists(f)}
    /\ runs' = runs + 1
    /\ UNCHANGED <<diskVars, fingerprint, cache, keywordVars, tableVars, processVars, work>>

(* Unchanged files, and files that are gone by now, are passed over. *)
SkipFile(f) ==
    /\ f \in todo /\ work = None
    /\ Unchanged(f) \/ ~Exists(f)
    /\ todo' = todo \ {f}
    /\ UNCHANGED <<diskVars, fingerprint, cache, keywordVars, tableVars, processVars, run, work,
                   runs>>

(* A changed file is read, and what was known of it deleted: in the        *)
(* keyword writer, in the table, in SQLite.                                *)
ReplaceFile(f) ==
    /\ f \in todo /\ work = None
    /\ Exists(f) /\ ~Unchanged(f)
    /\ todo' = todo \ {f}
    /\ work' = [file |-> f, of |-> disk[f], at |-> "embed", made |-> {}]
    /\ buffered' = [buffered EXCEPT ![f] = {}]
    /\ vectors' = [vectors EXCEPT ![f] = {}]
    /\ UNCHANGED <<diskVars, fingerprint, cache, schemaOnDisk, docs, tableDim, processVars, run,
                   runs>>

(* cache.get: the key is a hash of the model's name and of the text. *)
Cached(t) == cache[<<NameOf[embedder], t>>]

(* What a text's vector was made by: the entry of the cache, else the      *)
(* embedder that runs now.                                                 *)
Maker(t) == IF Cached(t) = None THEN embedder ELSE Cached(t)

(* The texts the cache does not have are embedded in one batch and put     *)
(* into the cache; each put may trim the least recently used entries, here *)
(* any entry of the cache or none.                                         *)
EmbedFile ==
    /\ work # None /\ work.at = "embed"
    /\ LET texts == TextsOf[work.of]
           filled == [k \in DOMAIN cache |->
                         IF k[1] = NameOf[embedder] /\ k[2] \in texts /\ cache[k] = None
                           THEN embedder ELSE cache[k]]
       IN  /\ work' = [work EXCEPT !.at = "docs", !.made = {<<t, Maker(t)>> : t \in texts}]
           /\ \/ cache' = filled
              \/ \E k \in DOMAIN cache : cache' = [filled EXCEPT ![k] = None]
    /\ UNCHANGED <<diskVars, fingerprint, keywordVars, tableVars, processVars, run, todo, runs>>

(* Mutant: the error is logged and the file left as the one in hand.       *)
FailToEmbedAndKeep ==
    /\ work # None /\ work.at = "embed"
    /\ run' = "none" /\ todo' = {}
    /\ UNCHANGED <<diskVars, fingerprint, cache, keywordVars, tableVars, processVars, runs, work>>

(* The embedder fails: the run is over, with the deletes of this file in   *)
(* the buffer of the keyword writer.                                       *)
FailToEmbed ==
    /\ work # None /\ work.at = "embed"
    /\ run' = "none" /\ todo' = {} /\ work' = None
    /\ UNCHANGED <<diskVars, fingerprint, cache, keywordVars, tableVars, processVars, runs>>

(* The documents are added and committed at once. *)
PutDocs ==
    /\ work # None /\ work.at = "docs"
    /\ buffered' = [buffered EXCEPT ![work.file] = {work.of}]
    /\ docs' = buffered'
    /\ work' = [work EXCEPT !.at = "rows"]
    /\ UNCHANGED <<diskVars, fingerprint, cache, schemaOnDisk, tableVars, processVars, run, todo,
                   runs>>

(* The rows of the file, the fingerprint last. *)
PutRows ==
    /\ work # None /\ work.at = "rows"
    /\ fingerprint' = [fingerprint EXCEPT ![work.file] = work.of]
    /\ work' = [work EXCEPT !.at = "vectors"]
    /\ UNCHANGED <<diskVars, cache, keywordVars, tableVars, processVars, run, todo, runs>>

(* Mutant: the vectors go to the table whatever their length.              *)
AddRecordsUnchecked(f, made) == vectors' = [vectors EXCEPT ![f] = @ \cup made]

(* add_records refuses the whole batch when one vector is not of the       *)
(* dimension the table was opened with.                                    *)
AddRecords(f, made) ==
    vectors' = IF \A m \in made : DimOf[m[2]] = DimOf[embedder]
                 THEN [vectors EXCEPT ![f] = @ \cup made]
                 ELSE vectors

(* A refusal is logged, the fingerprint stays and the run goes on. *)
PutVectors ==
    /\ work # None /\ work.at = "vectors"
    /\ AddRecords(work.file, work.made)
    /\ work' = None
    /\ docs' = buffered
    /\ UNCHANGED <<diskVars, fingerprint, cache, schemaOnDisk, buffered, tableDim, processVars, run,
                   todo, runs>>

(* The files that are gone from the workspace are deleted everywhere, when *)
(* every file has had its turn, and the run is over.                       *)
EndRun ==
    /\ run # "none" /\ todo = {} /\ work = None
    /\ LET gone == {f \in Files : ~Exists(f) /\ fingerprint[f] # Absent}
       IN  /\ fingerprint' = [f \in Files |-> IF f \in gone THEN Absent ELSE fingerprint[f]]
           /\ buffered' = [f \in Files |-> IF f \in gone THEN {} ELSE buffered[f]]
           /\ docs' = IF gone = {} THEN docs ELSE buffered'
           /\ vectors' = [f \in Files |-> IF f \in gone THEN {} ELSE vectors[f]]
    /\ run' = "none"
    /\ UNCHANGED <<diskVars, cache, schemaOnDisk, tableDim, processVars, todo, work, runs>>

Next ==
    \/ \E f \in Files : Edit(f) \/ Remove(f) \/ SkipFile(f) \/ ReplaceFile(f)
    \/ \E b \in Builds, e \in Embedders : Start(b, e)
    \/ WipeForeignSchema \/ OpenIndex \/ MigrateVectorTable \/ OpenTable
    \/ AskForRun \/ EmbedFile \/ FailToEmbed \/ PutDocs \/ PutRows \/ PutVectors \/ EndRun
    \/ Stop

Spec == Init /\ [][Next]_vars

-----------------------------------------------------------------------------
(* Properties. *)

(* Whatever embedders the server has been started with, and whatever of    *)
(* their work the embedding cache has kept: the vectors in the table all   *)
(* have the table's dimension, those of one file come from one model, and  *)
(* a process that has come up asks with vectors of that dimension          *)
(* (add_records, search and migrate_vector_table in storage/vector.rs, the *)
(* key of storage/cache.rs).                                               *)
VectorsAreComparable ==
    /\ \A f \in Files : \A m \in vectors[f] : DimOf[m[2]] = tableDim
    /\ \A f \in Files : \A m, n \in vectors[f] : NameOf[m[2]] = NameOf[n[2]]
    /\ pc = "up" => tableDim = DimOf[embedder]

(* A file that every run will pass over loses its documents only to a      *)
(* start of a build with another keyword schema, and its vectors only to a *)
(* start with another dimension, compared with the last start that came    *)
(* up: not to a crash, to a restart in the middle of a start, nor to the   *)
(* failure of a run (open_or_create in storage/tantivy.rs,                 *)
(* migrate_vector_table in storage/vector.rs).                             *)
OnlyUpgradesLoseAnswers ==
    [][\A f \in Files :
          (Unchanged(f) /\ Unchanged(f)') =>
             /\ (docs[f] = {disk[f]} /\ docs'[f] # {disk[f]}) => build # lastUp.build
             /\ (vectors[f] # {} /\ vectors'[f] = {}) => DimOf[embedder] # lastUp.dim]_vars

(* The automatic re-index that follows the drop of the vector table gives  *)
(* the files of the workspace their vectors back: main.rs announces it as  *)
(* "Vector table migration completed. Starting automatic re-index with new *)
(* model...", and migrate_vector_table promises that the lost embeddings   *)
(* are re-indexed.                                                         *)
ReindexRestoresVectors ==
    [][(run = "automatic" /\ EndRun) =>
          \A f \in Files : Unchanged(f) => vectors[f] # {}]_vars
=============================================================================
