---------------------------- MODULE IndexStores ----------------------------
(***************************************************************************)
(* The four places where the index of a workspace lives, and the single    *)
(* statements the indexer applies to them.  There is no transaction that   *)
(* spans two of them:                                                      *)
(*                                                                         *)
(*   - SQLite: the symbols of a file with every row that goes with them,   *)
(*     the framework patterns, the test links and the file fingerprints.   *)
(*     Each statement is an autocommit of its own;                         *)
(*   - Tantivy: a shared IndexWriter buffers deletes and adds in the order *)
(*     they are issued; a commit publishes them to the reader, and what is *)
(*     not committed is lost with the process;                             *)
(*   - LanceDB: every delete and every add is durable when it returns.     *)
(*                                                                         *)
(* Data are abstracted to versions: the contents a file has had, numbered  *)
(* in the order they were written.  The (mtime_ns, size_bytes) stamp of a  *)
(* file is the number of its content: an edit always gives a new stamp.    *)
(***************************************************************************)
EXTENDS Naturals

CONSTANTS
    Files,       \* the paths the scanner accepts
    TestFiles,   \* those is_test_file holds of, with an inferable source
    MaxEdits     \* bound: number of contents ever written to the workspace

ASSUME TestFilesAssumption == TestFiles \subseteq Files
ASSUME MaxEditsAssumption == MaxEdits \in Nat

VARIABLES
    disk,        \* content of each file, Absent when it does not exist
    edits,       \* contents written so far
    fingerprint, \* SQLite file_fingerprints: the stamp of the indexed content
    symbols,     \* SQLite symbols and the rows deleted with them
    patterns,    \* SQLite framework_patterns
    testLinks,   \* SQLite test_links of a test file
    buffered,    \* Tantivy: what the next commit publishes
    docs,        \* Tantivy: what the reader sees
    vectors      \* LanceDB records

diskVars == <<disk, edits>>
storeVars == <<fingerprint, symbols, patterns, testLinks, buffered, docs, vectors>>
sqliteVars == <<fingerprint, symbols, patterns, testLinks>>
tantivyVars == <<buffered, docs>>

Absent == 0
Version == 1 .. MaxEdits

StoresTypeOK ==
    /\ edits \in 0 .. MaxEdits
    /\ disk \in [Files -> Version \cup {Absent}]
    /\ fingerprint \in [Files -> Version \cup {Absent}]
    /\ symbols \in [Files -> SUBSET Version]
    /\ patterns \in [Files -> SUBSET Version]
    /\ testLinks \in [Files -> BOOLEAN]
    /\ buffered \in [Files -> SUBSET Version]
    /\ docs \in [Files -> SUBSET Version]
    /\ vectors \in [Files -> SUBSET Version]

Nowhere == [f \in Files |-> {}]

(* An empty workspace and freshly created stores. *)
StoresInit ==
    /\ edits = 0
    /\ disk = [f \in Files |-> Absent]
    /\ fingerprint = [f \in Files |-> Absent]
    /\ symbols = Nowhere
    /\ patterns = Nowhere
    /\ testLinks = [f \in Files |-> FALSE]
    /\ buffered = Nowhere
    /\ docs = Nowhere
    /\ vectors = Nowhere

-----------------------------------------------------------------------------
(* The workspace, changed by the user at any time. *)

Edit(f) ==
    /\ edits < MaxEdits
    /\ edits' = edits + 1
    /\ disk' = [disk EXCEPT ![f] = edits + 1]
    /\ UNCHANGED storeVars

Remove(f) ==
    /\ disk[f] # Absent
    /\ disk' = [disk EXCEPT ![f] = Absent]
    /\ UNCHANGED <<edits, storeVars>>

(* file_fingerprint and read_to_string fail on a file that is not there. *)
Exists(f) == disk[f] # Absent

-----------------------------------------------------------------------------
(* SQLite statements. *)

(* The cascades of the schema (edges, evidence, usage examples, docstrings, *)
(* decorators, clusters, metrics) and the deletes by path that follow the   *)
(* symbols in both callers are one with the symbols; test_links has no      *)
(* foreign key, so it stays.                                                *)
DeleteSymbolsByFile(f) ==
    /\ symbols' = [symbols EXCEPT ![f] = {}]
    /\ UNCHANGED testLinks

DeleteFrameworkPatternsByFile(f) ==
    patterns' = [patterns EXCEPT ![f] = {}]

UpsertSymbols(f, v) ==
    symbols' = [symbols EXCEPT ![f] = @ \cup {v}]

UpsertFrameworkPatterns(f, v) ==
    patterns' = [patterns EXCEPT ![f] = @ \cup {v}]

CreateTestLinks(f) ==
    testLinks' = [testLinks EXCEPT ![f] = @ \/ f \in TestFiles]

UpsertFingerprint(f, stamp) ==
    fingerprint' = [fingerprint EXCEPT ![f] = stamp]

(* Mutant: the row is dropped together with its key.                       *)
DeleteFingerprintAndKey(f) ==
    fingerprint' = [g \in DOMAIN fingerprint \ {f} |-> fingerprint[g]]

DeleteFingerprint(f) ==
    fingerprint' = [fingerprint EXCEPT ![f] = Absent]

(* What list_all_file_fingerprints returns. *)
Fingerprinted == {f \in Files : fingerprint[f] # Absent}

-----------------------------------------------------------------------------
(* Tantivy and LanceDB calls. *)

DeleteDocs(f) ==
    /\ buffered' = [buffered EXCEPT ![f] = {}]
    /\ UNCHANGED docs

AddDocs(f, v) ==
    /\ buffered' = [buffered EXCEPT ![f] = @ \cup {v}]
    /\ UNCHANGED docs

Commit ==
    /\ docs' = buffered
    /\ UNCHANGED buffered

LoseBuffered ==
    /\ buffered' = docs
    /\ UNCHANGED docs

DeleteVectors(f) == vectors' = [vectors EXCEPT ![f] = {}]

AddVectors(f, v) == vectors' = [vectors EXCEPT ![f] = @ \cup {v}]

(* The test that lets an index run skip a file: the stamp of what is on    *)
(* disk is the one the fingerprint table holds.                            *)
Unchanged(f) == Exists(f) /\ fingerprint[f] = disk[f]

-----------------------------------------------------------------------------
(* What the fingerprint table promises, whatever pipeline writes it.       *)

(* The file counts as unchanged, so every later run will pass over it.     *)
(* Then SQLite has its symbols, those of the content on disk and no        *)
(* others: whatever was lost or cut short on the way, the stamp in the     *)
(* fingerprint table never vouches for rows that are not there.            *)
UnchangedHasSymbols ==
    \A f \in Files : Unchanged(f) => symbols[f] = {disk[f]}

(* The same for the keyword index, committed: neither a crash that loses   *)
(* the writer's buffer nor a commit issued for another file may take the   *)
(* documents of an unchanged file away.                                    *)
UnchangedIsSearchable ==
    \A f \in Files : Unchanged(f) => docs[f] = {disk[f]} /\ buffered[f] = {disk[f]}

(* The vectors of an unchanged file may be missing (they are written after *)
(* the fingerprint) but are never those of an older content.               *)
UnchangedVectorsNotStale ==
    \A f \in Files : Unchanged(f) => vectors[f] \subseteq {disk[f]}

(* The files a search answers for with what is on disk.                    *)
Served == {f \in Files :
              Unchanged(f) /\ symbols[f] = {disk[f]} /\ docs[f] = {disk[f]}}
=============================================================================
