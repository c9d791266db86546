-------------------------- MODULE ParallelIndexer --------------------------
(***************************************************************************)
(* An index run with PARALLEL_WORKERS > 1.  The files are handed to a pool *)
(* of worker threads; each has its own SQLite connection, all share one    *)
(* Tantivy writer, so the commit of one worker publishes what the others   *)
(* have buffered so far.  A file that fails is tried again.  Vectors are   *)
(* left to a batch after the pool has joined, which takes the symbols that *)
(* have no similarity cluster yet, up to a limit.                          *)
(*                                                                         *)
(* One run at a time; its cleanup of deleted files, whose statements       *)
(* SequentialIndexer takes one by one, is one step here.                   *)
(***************************************************************************)
EXTENDS IndexStores, FiniteSets

CONSTANTS
    Workers,      \* the threads of the pool
    Rejected,     \* contents whose read or extraction fails
    MaxAttempts,  \* 1 + max_retries
    BatchLimit,   \* files whose symbols fit in one batch of embeddings
    FaultKinds,   \* the faults that may happen
    MaxFaults,    \* bound: number of faults in a behaviour
    NoFile        \* the file of a worker that has none

ASSUME ParallelRejectedAssumption == Rejected \subseteq Version
ASSUME AttemptsAssumption == MaxAttempts \in Nat \ {0} /\ BatchLimit \in Nat \ {0}
ASSUME ParallelFaultsAssumption ==
    FaultKinds \subseteq {"error", "crash"} /\ MaxFaults \in Nat
ASSUME ParallelNoFileAssumption == NoFile \notin Files

VARIABLES
    phase,      \* where the run is
    todo,       \* files no worker has taken
    anyIndexed, \* stats.files_indexed > 0
    worker,     \* the local state of each worker
    batch,      \* the contents that are being embedded
    clustered,  \* SQLite similarity_clusters: the symbols of the file have one
    faults,     \* faults so far
    cut         \* history: a run has been cut short

runVars == <<phase, todo, anyIndexed, batch>>
vars == <<diskVars, storeVars, runVars, worker, clustered, faults, cut>>

Phase == {"idle", "clean", "pool", "select", "embed", "addVectors", "clusters"}

WorkerPC == {"free", "stat", "compare", "read", "deleteDocs", "deleteRows", "addDocs",
             "commitDocs", "upsertRows", "upsertFingerprint"}

WorkerState == [pc      : WorkerPC,
                file    : Files \cup {NoFile},
                attempt : 0 .. MaxAttempts,
                stamp   : Version \cup {Absent},
                source  : Version \cup {Absent}]

Free == [pc |-> "free", file |-> NoFile, attempt |-> 0, stamp |-> Absent, source |-> Absent]

NoBatch == [f \in Files |-> {}]

TypeOK ==
    /\ StoresTypeOK
    /\ phase \in Phase
    /\ todo \subseteq Files
    /\ anyIndexed \in BOOLEAN
    /\ worker \in [Workers -> WorkerState]
    /\ batch \in [Files -> SUBSET Version]
    /\ clustered \in [Files -> BOOLEAN]
    /\ faults \in 0 .. MaxFaults
    /\ cut \in BOOLEAN

Init ==
    /\ StoresInit
    /\ phase = "idle"
    /\ todo = {}
    /\ anyIndexed = FALSE
    /\ worker = [w \in Workers |-> Free]
    /\ batch = NoBatch
    /\ clustered = [f \in Files |-> FALSE]
    /\ faults = 0
    /\ cut = FALSE

Fault(kind) ==
    /\ kind \in FaultKinds
    /\ faults < MaxFaults
    /\ faults' = faults + 1

-----------------------------------------------------------------------------
(* The run around the pool. *)

StartRun(first, files) ==
    /\ phase = "idle"
    /\ phase' = first
    /\ todo' = files
    /\ anyIndexed' = FALSE
    /\ UNCHANGED <<diskVars, storeVars, batch, worker, clustered, faults, cut>>

Scan == StartRun("clean", {f \in Files : Exists(f)})

IndexPaths == \E paths \in SUBSET Files : StartRun("pool", {f \in paths : Exists(f)})

(* Rows, fingerprint, documents and vectors of the files that were not     *)
(* scanned.                                                                *)
CleanDeleted ==
    LET gone == Fingerprinted \ todo
        Without(store) == [f \in Files |-> IF f \in gone THEN {} ELSE store[f]]
    IN
    /\ phase = "clean"
    /\ phase' = "pool"
    /\ symbols' = Without(symbols)
    /\ fingerprint' = [f \in Files |-> IF f \in gone THEN Absent ELSE fingerprint[f]]
    /\ buffered' = Without(buffered)
    /\ vectors' = Without(vectors)
    /\ clustered' = [f \in Files |-> clustered[f] /\ f \notin gone]
    /\ IF gone = {} THEN UNCHANGED docs ELSE docs' = Without(buffered)
    /\ UNCHANGED <<diskVars, patterns, testLinks, todo, anyIndexed, batch, worker, faults, cut>>

JoinPool ==
    /\ phase = "pool"
    /\ todo = {}
    /\ \A w \in Workers : worker[w].pc = "free"
    /\ phase' = IF anyIndexed THEN "select" ELSE "idle"
    /\ UNCHANGED <<diskVars, storeVars, todo, anyIndexed, batch, worker, clustered, faults, cut>>

-----------------------------------------------------------------------------
(* A worker and its file. *)

Take(w) ==
    /\ phase = "pool"
    /\ worker[w].pc = "free"
    /\ \E f \in todo :
          /\ todo' = todo \ {f}
          /\ worker' = [worker EXCEPT ![w] = [Free EXCEPT !.pc = "stat", !.file = f,
                                                          !.attempt = 1]]
    /\ UNCHANGED <<diskVars, storeVars, phase, anyIndexed, batch, clustered, faults, cut>>

Advance(w, from, to) ==
    /\ worker[w].pc = from
    /\ worker' = [worker EXCEPT ![w].pc = to]

Finish(w) == worker' = [worker EXCEPT ![w] = Free]

(* Mutant: `<=` where the code says `<`.                                   *)
RetryOnceMore(w) ==
    IF worker[w].attempt <= MaxAttempts
      THEN worker' = [worker EXCEPT ![w].pc = "stat", ![w].attempt = @ + 1]
      ELSE Finish(w)

(* An attempt ends with Err: the next one starts from the beginning, with  *)
(* whatever the last one wrote or buffered still there.                    *)
Retry(w) ==
    IF worker[w].attempt < MaxAttempts
      THEN worker' = [worker EXCEPT ![w].pc = "stat", ![w].attempt = @ + 1]
      ELSE Finish(w)

Stat(w) ==
    /\ worker[w].pc = "stat"
    /\ IF Exists(worker[w].file)
         THEN worker' = [worker EXCEPT ![w].pc = "compare",
                                       ![w].stamp = disk[worker[w].file]]
         ELSE Retry(w)
    /\ UNCHANGED <<diskVars, storeVars, runVars, clustered, faults, cut>>

(* Mutant: every file is indexed again, unchanged or not.                  *)
CompareNothing(w) ==
    /\ Advance(w, "compare", "read")
    /\ UNCHANGED <<diskVars, storeVars, runVars, clustered, faults, cut>>

(* Mutant: the fingerprint is written before the content is read.          *)
CompareAndRecord(w) ==
    /\ worker[w].pc = "compare"
    /\ IF fingerprint[worker[w].file] = worker[w].stamp
         THEN Finish(w) /\ UNCHANGED fingerprint
         ELSE /\ Advance(w, "compare", "read")
              /\ UpsertFingerprint(worker[w].file, worker[w].stamp)
    /\ UNCHANGED <<diskVars, symbols, patterns, testLinks, tantivyVars, vectors, runVars,
                   clustered, faults, cut>>

Compare(w) ==
    /\ worker[w].pc = "compare"
    /\ IF fingerprint[worker[w].file] = worker[w].stamp
         THEN Finish(w)
         ELSE Advance(w, "compare", "read")
    /\ UNCHANGED <<diskVars, storeVars, runVars, clustered, faults, cut>>

Read(w) ==
    /\ worker[w].pc = "read"
    /\ LET f == worker[w].file IN
         IF Exists(f) /\ disk[f] \notin Rejected
           THEN worker' = [worker EXCEPT ![w].pc = "deleteDocs", ![w].source = disk[f]]
           ELSE Retry(w)
    /\ UNCHANGED <<diskVars, storeVars, runVars, clustered, faults, cut>>

(* The vectors of the old content are not deleted.                         *)
DeleteOldDocs(w) ==
    /\ Advance(w, "deleteDocs", "deleteRows")
    /\ DeleteDocs(worker[w].file)
    /\ UNCHANGED <<diskVars, sqliteVars, vectors, runVars, clustered, faults, cut>>

(* Mutant: the cluster rows outlive the symbols they belong to.            *)
DeleteRowsNotClusters(w) ==
    /\ Advance(w, "deleteRows", "addDocs")
    /\ DeleteSymbolsByFile(worker[w].file)
    /\ DeleteFrameworkPatternsByFile(worker[w].file)
    /\ UNCHANGED <<diskVars, fingerprint, tantivyVars, vectors, runVars, clustered, faults, cut>>

DeleteOldRows(w) ==
    /\ Advance(w, "deleteRows", "addDocs")
    /\ DeleteSymbolsByFile(worker[w].file)
    /\ DeleteFrameworkPatternsByFile(worker[w].file)
    /\ clustered' = [clustered EXCEPT ![worker[w].file] = FALSE]
    /\ UNCHANGED <<diskVars, fingerprint, tantivyVars, vectors, runVars, faults, cut>>

AddNewDocs(w) ==
    /\ Advance(w, "addDocs", "commitDocs")
    /\ AddDocs(worker[w].file, worker[w].source)
    /\ UNCHANGED <<diskVars, sqliteVars, vectors, runVars, clustered, faults, cut>>

(* Mutant: the worker relies on somebody else's commit.                    *)
CommitNothing(w) ==
    /\ Advance(w, "commitDocs", "upsertRows")
    /\ UNCHANGED <<diskVars, storeVars, runVars, clustered, faults, cut>>

CommitDocs(w) ==
    /\ Advance(w, "commitDocs", "upsertRows")
    /\ Commit
    /\ UNCHANGED <<diskVars, sqliteVars, vectors, runVars, clustered, faults, cut>>

UpsertRows(w) ==
    /\ Advance(w, "upsertRows", "upsertFingerprint")
    /\ UpsertSymbols(worker[w].file, worker[w].source)
    /\ UpsertFrameworkPatterns(worker[w].file, worker[w].source)
    /\ CreateTestLinks(worker[w].file)
    /\ UNCHANGED <<diskVars, fingerprint, tantivyVars, vectors, runVars, clustered, faults, cut>>

RecordFingerprint(w) ==
    /\ worker[w].pc = "upsertFingerprint"
    /\ UpsertFingerprint(worker[w].file, worker[w].stamp)
    /\ anyIndexed' = TRUE
    /\ Finish(w)
    /\ UNCHANGED <<diskVars, symbols, patterns, testLinks, tantivyVars, vectors,
                   phase, todo, batch, clustered, faults, cut>>

AttemptFails(w) ==
    /\ worker[w].pc # "free"
    /\ Fault("error")
    /\ Retry(w)
    /\ UNCHANGED <<diskVars, storeVars, runVars, clustered, cut>>

-----------------------------------------------------------------------------
(* The batch of embeddings. *)

Unclustered == {f \in Files : symbols[f] # {} /\ ~clustered[f]}

(* LIMIT: the newest first, in an order the second-grained created_at      *)
(* leaves open.                                                            *)
SelectBatch ==
    /\ phase = "select"
    /\ \E chosen \in SUBSET Unclustered :
          /\ \/ chosen = Unclustered /\ Cardinality(chosen) <= BatchLimit
             \/ Cardinality(chosen) = BatchLimit
          /\ batch' = [f \in Files |-> IF f \in chosen THEN symbols[f] ELSE {}]
          /\ phase' = IF chosen = {} THEN "idle" ELSE "embed"
    /\ UNCHANGED <<diskVars, storeVars, todo, anyIndexed, worker, clustered, faults, cut>>

Embed ==
    /\ phase = "embed"
    /\ phase' = "addVectors"
    /\ UNCHANGED <<diskVars, storeVars, todo, anyIndexed, batch, worker, clustered, faults, cut>>

AddBatch ==
    /\ phase = "addVectors"
    /\ phase' = "clusters"
    /\ vectors' = [f \in Files |-> vectors[f] \cup batch[f]]
    /\ UNCHANGED <<diskVars, sqliteVars, tantivyVars, todo, anyIndexed, batch, worker,
                   clustered, faults, cut>>

UpsertClusters ==
    /\ phase = "clusters"
    /\ phase' = "idle"
    /\ clustered' = [f \in Files |-> clustered[f] \/ batch[f] # {}]
    /\ batch' = NoBatch
    /\ UNCHANGED <<diskVars, storeVars, todo, anyIndexed, worker, faults, cut>>

-----------------------------------------------------------------------------
EndAllLocals ==
    /\ phase' = "idle"
    /\ todo' = {}
    /\ batch' = NoBatch
    /\ cut' = TRUE
    /\ UNCHANGED anyIndexed

FailRun ==
    /\ phase \in {"clean", "select", "embed", "addVectors"}
    /\ Fault("error")
    /\ EndAllLocals
    /\ UNCHANGED <<diskVars, storeVars, worker, clustered>>

Crash ==
    /\ Fault("crash")
    /\ EndAllLocals
    /\ worker' = [w \in Workers |-> Free]
    /\ LoseBuffered
    /\ UNCHANGED <<diskVars, sqliteVars, vectors, clustered>>

UserStep ==
    \E f \in Files : (Edit(f) \/ Remove(f)) /\ UNCHANGED <<runVars, worker, clustered, faults, cut>>

WorkerStep(w) ==
    \/ Take(w) \/ Stat(w) \/ Compare(w) \/ Read(w) \/ DeleteOldDocs(w) \/ DeleteOldRows(w)
    \/ AddNewDocs(w) \/ CommitDocs(w) \/ UpsertRows(w) \/ RecordFingerprint(w)

RunStep ==
    \/ Scan \/ CleanDeleted \/ JoinPool \/ SelectBatch \/ Embed \/ AddBatch \/ UpsertClusters

Next ==
    \/ UserStep
    \/ RunStep \/ IndexPaths
    \/ \E w \in Workers : WorkerStep(w) \/ AttemptFails(w)
    \/ FailRun \/ Crash

Spec == Init /\ [][Next]_vars

(* The pool's threads run, and so does the watch loop, which calls of      *)
(* index_paths, however many, do not keep from its next scan.              *)
Fairness ==
    /\ WF_vars(RunStep)
    /\ SF_vars(Scan)
    /\ \A w \in Workers : WF_vars(WorkerStep(w))

FairSpec == Spec /\ Fairness

-----------------------------------------------------------------------------
(* Properties; see also those of IndexStores. *)

(* A pool of workers keeps the contract one sequential run keeps.          *)
Contract == INSTANCE FreshIndex WITH served <- Served

ImplementsFreshIndex == Contract!Spec

(* When no run is cut short and the edits stop, every readable file gets   *)
(* the vectors of its content ("called after parallel indexing to populate *)
(* LanceDB vectors"): the batches keep up with what the workers index, the *)
(* attempts that fail included.                                            *)
EventuallyEmbedded ==
    []~cut =>
        <>[](\A f \in Files : Exists(f) /\ disk[f] \notin Rejected => disk[f] \in vectors[f])
=============================================================================
