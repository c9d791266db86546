------------------------- MODULE SequentialIndexer -------------------------
(***************************************************************************)
(* An index run of IndexPipeline with one worker: index_all and            *)
(* index_paths, both through index_files, one action per statement that    *)
(* reads or writes the workspace or a store.  Between two actions the user *)
(* edits and removes files, another run (the watch loop and each           *)
(* refresh_index call run their own, nothing serialises them) takes steps, *)
(* an operation fails, or the process stops.                               *)
(***************************************************************************)
EXTENDS IndexStores

CONSTANTS
    Runners,     \* the tasks that run the pipeline: watch loop, tool calls
    PathRunners, \* those of them that may also call index_paths
    Rejected,    \* contents whose read (not UTF-8) or extraction fails
    FaultKinds,  \* the faults that may happen, see Fault
    MaxFaults,   \* bound: number of faults in a behaviour
    NoFile       \* the file of a run that is between two files

ASSUME PathRunnersAssumption == PathRunners \subseteq Runners
ASSUME RejectedAssumption == Rejected \subseteq Version
ASSUME FaultKindsAssumption ==
    FaultKinds \subseteq {"read_dir", "error", "vector_add", "crash"}
ASSUME MaxFaultsAssumption == MaxFaults \in Nat
ASSUME NoFileAssumption == NoFile \notin Files

VARIABLES
    run,    \* the local state of each runner
    faults  \* faults so far

vars == <<diskVars, storeVars, run, faults>>

(* The statement a run executes next.                                      *)
CleanupPC == {"clean", "cleanFingerprint", "cleanDocs", "cleanVectors"}
FilePC == {"compare", "read", "deleteDocs", "deleteVectors", "deleteRows",
           "embed", "addDocs", "commitDocs", "upsertRows", "upsertFingerprint",
           "addVectors", "close"}
PC == {"idle", "list", "files"} \cup CleanupPC \cup FilePC

(* The statements whose error `?` passes up: the run ends with Err.  The   *)
(* failures of the others are handled where they happen.                   *)
FalliblePC == PC \ {"idle", "files", "read", "addVectors"}

RunState == [pc      : PC,
             todo    : SUBSET Files,              \* files not looked at yet
             gone    : SUBSET Files,              \* files cleanup still has
             cleaned : BOOLEAN,                   \* cleanup's `any`
             file    : Files \cup {NoFile},
             stamp   : Version \cup {Absent},     \* fp of the current file
             source  : Version \cup {Absent}]     \* its content as read

Idle == [pc |-> "idle", todo |-> {}, gone |-> {}, cleaned |-> FALSE,
         file |-> NoFile, stamp |-> Absent, source |-> Absent]

TypeOK ==
    /\ StoresTypeOK
    /\ run \in [Runners -> RunState]
    /\ faults \in 0 .. MaxFaults

Init ==
    /\ StoresInit
    /\ run = [r \in Runners |-> Idle]
    /\ faults = 0

At(r, label) == run[r].pc = label

(* The runner is at `from` and goes on to `to` with the same locals. *)
Step(r, from, to) ==
    /\ At(r, from)
    /\ run' = [run EXCEPT ![r].pc = to]

(* `continue` of the loop over the files: the locals of the file are gone. *)
NextFile(r) ==
    run' = [run EXCEPT ![r] = [Idle EXCEPT !.pc = "files", !.todo = run[r].todo]]

Fault(kind) ==
    /\ kind \in FaultKinds
    /\ faults < MaxFaults
    /\ faults' = faults + 1

-----------------------------------------------------------------------------
(* The files of the run. *)

(* Mutant: a run looks only at the files it already knows.                 *)
ScanKnownFiles(r) ==
    /\ At(r, "idle")
    /\ run' = [run EXCEPT ![r] = [Idle EXCEPT !.pc = "list",
                              !.todo = {f \in Fingerprinted : Exists(f)}]]
    /\ UNCHANGED <<diskVars, storeVars, faults>>

(* index_all: scan_files over the roots.                                   *)
Scan(r) ==
    /\ At(r, "idle")
    /\ run' = [run EXCEPT ![r] = [Idle EXCEPT !.pc = "list",
                                             !.todo = {f \in Files : Exists(f)}]]
    /\ UNCHANGED <<diskVars, storeVars, faults>>

(* A directory that cannot be read is logged and passed over: its files    *)
(* are not in the scan.                                                    *)
ScanMissingFiles(r) ==
    /\ At(r, "idle")
    /\ Fault("read_dir")
    /\ \E seen \in SUBSET {f \in Files : Exists(f)} :
          run' = [run EXCEPT ![r] = [Idle EXCEPT !.pc = "list", !.todo = seen]]
    /\ UNCHANGED <<diskVars, storeVars>>

(* index_paths: the paths of the call that are files; cleanup_deleted is   *)
(* false.                                                                  *)
IndexPaths(r) ==
    /\ r \in PathRunners
    /\ At(r, "idle")
    /\ \E paths \in SUBSET Files :
          run' = [run EXCEPT ![r] = [Idle EXCEPT !.pc = "files",
                                        !.todo = {f \in paths : Exists(f)}]]
    /\ UNCHANGED <<diskVars, storeVars, faults>>

-----------------------------------------------------------------------------
(* Cleanup of deleted files. *)

ListFingerprints(r) ==
    /\ At(r, "list")
    /\ run' = [run EXCEPT ![r].pc = "clean",
                          ![r].gone = Fingerprinted \ run[r].todo]
    /\ UNCHANGED <<diskVars, storeVars, faults>>

(* Framework patterns and test links of the file are left where they are.  *)
CleanSymbols(r) ==
    /\ At(r, "clean")
    /\ \E f \in run[r].gone :
          /\ DeleteSymbolsByFile(f)
          /\ run' = [run EXCEPT ![r].pc = "cleanFingerprint", ![r].file = f,
                                ![r].gone = @ \ {f}]
    /\ UNCHANGED <<diskVars, fingerprint, patterns, tantivyVars, vectors, faults>>

(* Mutant: the symbols of a deleted file go, its fingerprint stays.        *)
CleanFingerprintForgotten(r) ==
    /\ Step(r, "cleanFingerprint", "cleanDocs")
    /\ UNCHANGED <<diskVars, storeVars, faults>>

CleanFingerprint(r) ==
    /\ Step(r, "cleanFingerprint", "cleanDocs")
    /\ DeleteFingerprint(run[r].file)
    /\ UNCHANGED <<diskVars, symbols, patterns, testLinks, tantivyVars, vectors, faults>>

CleanDocs(r) ==
    /\ Step(r, "cleanDocs", "cleanVectors")
    /\ DeleteDocs(run[r].file)
    /\ UNCHANGED <<diskVars, sqliteVars, vectors, faults>>

CleanVectors(r) ==
    /\ At(r, "cleanVectors")
    /\ DeleteVectors(run[r].file)
    /\ run' = [run EXCEPT ![r].pc = "clean", ![r].file = NoFile, ![r].cleaned = TRUE]
    /\ UNCHANGED <<diskVars, sqliteVars, tantivyVars, faults>>

(* One commit for all of them, and none when nothing was cleaned up.       *)
EndCleanup(r) ==
    /\ At(r, "clean")
    /\ run[r].gone = {}
    /\ IF run[r].cleaned THEN Commit ELSE UNCHANGED tantivyVars
    /\ NextFile(r)
    /\ UNCHANGED <<diskVars, sqliteVars, vectors, faults>>

-----------------------------------------------------------------------------
(* One file. *)

(* The stamp is taken before the content is read.                          *)
StatFile(r) ==
    /\ At(r, "files")
    /\ \E f \in run[r].todo :
          run' = [run EXCEPT ![r].todo = @ \ {f},
                             ![r].pc = IF Exists(f) THEN "compare" ELSE "files",
                             ![r].file = IF Exists(f) THEN f ELSE NoFile,
                             ![r].stamp = disk[f]]
    /\ UNCHANGED <<diskVars, storeVars, faults>>

(* Mutant: every file is indexed again, unchanged or not.                  *)
CompareNothing(r) ==
    /\ Step(r, "compare", "read")
    /\ UNCHANGED <<diskVars, storeVars, faults>>

Compare(r) ==
    /\ At(r, "compare")
    /\ IF fingerprint[run[r].file] = run[r].stamp
         THEN NextFile(r)
         ELSE Step(r, "compare", "read")
    /\ UNCHANGED <<diskVars, storeVars, faults>>

(* read_to_string and the extraction: on failure the file is skipped and   *)
(* nothing is recorded about it.                                           *)
ReadFile(r) ==
    /\ At(r, "read")
    /\ LET f == run[r].file IN
         IF Exists(f) /\ disk[f] \notin Rejected
           THEN run' = [run EXCEPT ![r].pc = "deleteDocs", ![r].source = disk[f]]
           ELSE NextFile(r)
    /\ UNCHANGED <<diskVars, storeVars, faults>>

(* Mutant: the documents of the old content are left in the index.         *)
DeleteNoDocs(r) ==
    /\ Step(r, "deleteDocs", "deleteVectors")
    /\ UNCHANGED <<diskVars, storeVars, faults>>

DeleteOldDocs(r) ==
    /\ Step(r, "deleteDocs", "deleteVectors")
    /\ DeleteDocs(run[r].file)
    /\ UNCHANGED <<diskVars, sqliteVars, vectors, faults>>

(* Mutant: the vectors of the old content are left in the table.           *)
DeleteNoVectors(r) ==
    /\ Step(r, "deleteVectors", "deleteRows")
    /\ UNCHANGED <<diskVars, storeVars, faults>>

DeleteOldVectors(r) ==
    /\ Step(r, "deleteVectors", "deleteRows")
    /\ DeleteVectors(run[r].file)
    /\ UNCHANGED <<diskVars, sqliteVars, tantivyVars, faults>>

DeleteOldRows(r) ==
    /\ Step(r, "deleteRows", "embed")
    /\ DeleteSymbolsByFile(run[r].file)
    /\ DeleteFrameworkPatternsByFile(run[r].file)
    /\ UNCHANGED <<diskVars, fingerprint, tantivyVars, vectors, faults>>

(* Waits for the embedder; writes nothing.                                 *)
Embed(r) ==
    /\ Step(r, "embed", "addDocs")
    /\ UNCHANGED <<diskVars, storeVars, faults>>

AddNewDocs(r) ==
    /\ Step(r, "addDocs", "commitDocs")
    /\ AddDocs(run[r].file, run[r].source)
    /\ UNCHANGED <<diskVars, sqliteVars, vectors, faults>>

(* Mutant: the commit is left to the one that closes the file.             *)
CommitNothing(r) ==
    /\ Step(r, "commitDocs", "upsertRows")
    /\ UNCHANGED <<diskVars, storeVars, faults>>

CommitDocs(r) ==
    /\ Step(r, "commitDocs", "upsertRows")
    /\ Commit
    /\ UNCHANGED <<diskVars, sqliteVars, vectors, faults>>

UpsertRows(r) ==
    /\ Step(r, "upsertRows", "upsertFingerprint")
    /\ UpsertSymbols(run[r].file, run[r].source)
    /\ UpsertFrameworkPatterns(run[r].file, run[r].source)
    /\ CreateTestLinks(run[r].file)
    /\ UNCHANGED <<diskVars, fingerprint, tantivyVars, vectors, faults>>

(* Mutant: the file is stamped again when its rows are in.                 *)
RecordLatestFingerprint(r) ==
    /\ Step(r, "upsertFingerprint", "addVectors")
    /\ UpsertFingerprint(run[r].file, disk[run[r].file])
    /\ UNCHANGED <<diskVars, symbols, patterns, testLinks, tantivyVars, vectors, faults>>

RecordFingerprint(r) ==
    /\ Step(r, "upsertFingerprint", "addVectors")
    /\ UpsertFingerprint(run[r].file, run[r].stamp)
    /\ UNCHANGED <<diskVars, symbols, patterns, testLinks, tantivyVars, vectors, faults>>

(* Mutant: a file is closed without its vectors.                           *)
AddNoVectors(r) ==
    /\ Step(r, "addVectors", "close")
    /\ UNCHANGED <<diskVars, storeVars, faults>>

AddNewVectors(r) ==
    /\ Step(r, "addVectors", "close")
    /\ AddVectors(run[r].file, run[r].source)
    /\ UNCHANGED <<diskVars, sqliteVars, tantivyVars, faults>>

(* The error is logged and the run goes on.                                *)
AddNewVectorsFails(r) ==
    /\ Step(r, "addVectors", "close")
    /\ Fault("vector_add")
    /\ UNCHANGED <<diskVars, storeVars>>

CloseFile(r) ==
    /\ At(r, "close")
    /\ Commit
    /\ NextFile(r)
    /\ UNCHANGED <<diskVars, sqliteVars, vectors, faults>>

EndRun(r) ==
    /\ At(r, "files")
    /\ run[r].todo = {}
    /\ run' = [run EXCEPT ![r] = Idle]
    /\ UNCHANGED <<diskVars, storeVars, faults>>

-----------------------------------------------------------------------------
(* Failures. *)

(* A statement returns Err: the run is over, what it wrote stays, and what *)
(* it buffered in the Tantivy writer waits for somebody's commit.          *)
FailRun(r) ==
    /\ run[r].pc \in FalliblePC
    /\ Fault("error")
    /\ run' = [run EXCEPT ![r] = Idle]
    /\ UNCHANGED <<diskVars, storeVars>>

(* The process stops and starts again on the same stores.                  *)
Crash ==
    /\ Fault("crash")
    /\ run' = [r \in Runners |-> Idle]
    /\ LoseBuffered
    /\ UNCHANGED <<diskVars, sqliteVars, vectors>>

-----------------------------------------------------------------------------
CleanupStep(r) ==
    \/ ListFingerprints(r) \/ CleanSymbols(r) \/ CleanFingerprint(r)
    \/ CleanDocs(r) \/ CleanVectors(r) \/ EndCleanup(r)

FileStep(r) ==
    \/ StatFile(r) \/ Compare(r) \/ ReadFile(r)
    \/ DeleteOldDocs(r) \/ DeleteOldVectors(r) \/ DeleteOldRows(r)
    \/ Embed(r) \/ AddNewDocs(r) \/ CommitDocs(r) \/ UpsertRows(r)
    \/ RecordFingerprint(r) \/ AddNewVectors(r) \/ CloseFile(r)

(* What a run does when nothing goes wrong.                                *)
RunStep(r) == CleanupStep(r) \/ FileStep(r) \/ EndRun(r)

UserStep == \E f \in Files : (Edit(f) \/ Remove(f)) /\ UNCHANGED <<run, faults>>

Next ==
    \/ UserStep
    \/ \E r \in Runners :
          \/ Scan(r) \/ ScanMissingFiles(r) \/ IndexPaths(r)
          \/ RunStep(r) \/ AddNewVectorsFails(r) \/ FailRun(r)
    \/ Crash

Spec == Init /\ [][Next]_vars

(* A run goes on, and each runner, the watch loop for one, scans again and *)
(* again: calls of index_paths, however many, do not keep it from that.    *)
Fairness == \A r \in Runners : WF_vars(RunStep(r)) /\ SF_vars(Scan(r))

FairSpec == Spec /\ Fairness

-----------------------------------------------------------------------------
(* Properties. *)

(* When no operation fails an unchanged file has its vectors, as soon as   *)
(* the run that indexed it has moved on.                                   *)
UnchangedHasVectors ==
    \A f \in Files :
        Unchanged(f) /\ (\A r \in Runners : run[r].file # f) => vectors[f] = {disk[f]}

(* Whenever no run is under way, a file the next run will pass over as      *)
(* "already indexed and unchanged" is in SQLite and in the keyword index.  *)
SettledIsIndexed ==
    (\A r \in Runners : At(r, "idle")) =>
        \A f \in Files : Unchanged(f) => disk[f] \in symbols[f] \cap docs[f]

(* A file that does not exist has no rows left once a run has cleaned it   *)
(* up and forgotten its stamp: test links included ("test_links have ON    *)
(* DELETE CASCADE, so they auto-delete").                                  *)
CleanedFileHasNoTestLinks ==
    \A f \in Files : (symbols[f] = {} /\ fingerprint[f] = Absent) => ~testLinks[f]

(* The index implements what its users rely on: a file once served stays   *)
(* served until it changes, whatever runs, failures and restarts follow.   *)
Contract == INSTANCE FreshIndex WITH served <- Served

ImplementsFreshIndex == Contract!Spec

(* And when nothing fails every readable file comes to be served.          *)
ImplementsFairFreshIndex == Contract!FairSpec

(* When the edits stop and nothing fails, the runs bring every store into  *)
(* agreement with the workspace and leave it there: readable files with    *)
(* their content alone, deleted files with no symbols, documents, vectors. *)
Agrees(f) ==
    IF Exists(f)
      THEN Unchanged(f) /\ symbols[f] = {disk[f]} /\ docs[f] = {disk[f]} /\ vectors[f] = {disk[f]}
      ELSE symbols[f] = {} /\ docs[f] = {} /\ vectors[f] = {}

EventuallyAgrees == <>[](\A f \in Files : disk[f] \notin Rejected => Agrees(f))

(* Deleted files are cleaned up: once the edits stop, a search no longer    *)
(* finds what a file that does not exist used to hold.                     *)
DeletedFilesForgotten == <>[](\A f \in Files : ~Exists(f) => docs[f] = {})

-----------------------------------------------------------------------------
(* The inductive invariant of a pipeline that runs one index run at a time *)
(* over directories that can be read.                                      *)

OneRunAtATime == (\A r, s \in Runners : r = s) /\ "read_dir" \notin FaultKinds

(* Every stamp in use is that of a content already written, so the next    *)
(* edit is different from all of them.                                     *)
StampsArePast ==
    /\ \A f \in Files : disk[f] <= edits /\ fingerprint[f] <= edits
    /\ \A r \in Runners : run[r].stamp <= edits /\ run[r].source <= edits

(* The stamp of an unchanged file vouches for all of its stores.           *)
Vouched ==
    \A f \in Files : Unchanged(f) =>
        /\ symbols[f] = {disk[f]}
        /\ docs[f] = {disk[f]}
        /\ buffered[f] = {disk[f]}
        /\ vectors[f] \subseteq {disk[f]}

(* A run that is at a statement about a file has one, and past the stat    *)
(* its stamp; outside cleanup there is nothing left to clean.              *)
HoldsFile(r) ==
    /\ run[r].pc \in (CleanupPC \ {"clean"}) \cup FilePC => run[r].file \in Files
    /\ run[r].pc \in FilePC => run[r].stamp # Absent
    /\ run[r].pc \notin CleanupPC => run[r].gone = {}

(* A run takes the stores apart only of a file whose stored stamp is out   *)
(* of date, or that is gone.                                               *)
Rewriting == {"read", "deleteDocs", "deleteVectors", "deleteRows", "embed", "addDocs",
              "commitDocs", "upsertRows", "upsertFingerprint"}

TakesApartOnlyStale(r) ==
    /\ run[r].pc = "list" => \A f \in Files \ run[r].todo : ~Unchanged(f)
    /\ \A f \in run[r].gone : ~Unchanged(f)
    /\ run[r].pc \in (CleanupPC \ {"clean"}) \cup Rewriting => ~Unchanged(run[r].file)
    /\ run[r].pc = "compare" =>
          disk[run[r].file] = run[r].stamp \/ ~Unchanged(run[r].file)

(* What was read is what the stamp stands for, or the file has changed.    *)
AfterRead == FilePC \ {"compare", "read"}

ReadsWhatItStamps(r) ==
    run[r].pc \in AfterRead =>
        /\ disk[run[r].file] = run[r].stamp => run[r].source = run[r].stamp
        /\ run[r].source \notin Rejected \cup {Absent}

(* What the run has done to the stores of its file so far.                 *)
NoVectorsPC == {"deleteRows", "embed", "addDocs", "commitDocs", "upsertRows",
                "upsertFingerprint", "addVectors"}

Progress(r) ==
    LET f == run[r].file IN
    /\ run[r].pc \in {"deleteVectors", "deleteRows", "embed", "addDocs"} =>
          buffered[f] = {}
    /\ run[r].pc \in NoVectorsPC => vectors[f] = {}
    /\ run[r].pc \in {"embed", "addDocs", "commitDocs", "upsertRows"} => symbols[f] = {}
    /\ run[r].pc = "commitDocs" => buffered[f] = {run[r].source}
    /\ run[r].pc \in {"upsertRows", "upsertFingerprint"} =>
          buffered[f] = {run[r].source} /\ docs[f] = {run[r].source}
    /\ run[r].pc = "upsertFingerprint" => symbols[f] = {run[r].source}
    /\ run[r].pc = "addVectors" => fingerprint[f] = run[r].stamp

RunInv(r) ==
    HoldsFile(r) /\ TakesApartOnlyStale(r) /\ ReadsWhatItStamps(r) /\ Progress(r)

IndInv == TypeOK /\ StampsArePast /\ Vouched /\ \A r \in Runners : RunInv(r)
=============================================================================
