---------------------- MODULE SequentialIndexerProofs ----------------------
(***************************************************************************)
(* For any set of files and any number of edits and faults: a pipeline     *)
(* that runs one index run at a time, over directories that can be read,   *)
(* keeps the promise of the fingerprint table.  The argument is the        *)
(* inductive invariant IndInv: as soon as a run takes the stores of a file *)
(* apart its stored stamp is out of date, stamps never come back, and the  *)
(* new stamp is stored only when SQLite and Tantivy hold the new content.  *)
(* The vectors come after the stamp; what is promised of them, and under   *)
(* which faults, is at the end, with the inductive invariant ArrivalInv.   *)
(***************************************************************************)
EXTENDS SequentialIndexer, TLAPS

-----------------------------------------------------------------------------
(* What the two ways of moving a run do to its local state. *)

LEMMA IdleType == Idle \in RunState
  BY NoFileAssumption DEF Idle, RunState, PC, Absent

LEMMA StepFacts ==
  ASSUME TypeOK, NEW r \in Runners, NEW from, NEW to \in PC, Step(r, from, to)
  PROVE  /\ run' \in [Runners -> RunState]
         /\ run[r].pc = from /\ run'[r].pc = to
         /\ run'[r].todo = run[r].todo /\ run'[r].gone = run[r].gone
         /\ run'[r].cleaned = run[r].cleaned /\ run'[r].file = run[r].file
         /\ run'[r].stamp = run[r].stamp /\ run'[r].source = run[r].source
  BY DEF Step, At, TypeOK, RunState

LEMMA NextFileFacts ==
  ASSUME TypeOK, NEW r \in Runners, NextFile(r)
  PROVE  /\ run' \in [Runners -> RunState]
         /\ run'[r].pc = "files" /\ run'[r].todo = run[r].todo
         /\ run'[r].gone = {} /\ run'[r].stamp = Absent /\ run'[r].source = Absent
  BY NoFileAssumption DEF NextFile, TypeOK, RunState, Idle, PC, Absent

LEMMA IdleFacts ==
  ASSUME TypeOK, NEW r \in Runners, run' = [run EXCEPT ![r] = Idle]
  PROVE  /\ run' \in [Runners -> RunState]
         /\ run'[r].pc = "idle"
         /\ run'[r].gone = {} /\ run'[r].stamp = Absent /\ run'[r].source = Absent
  BY IdleType DEF TypeOK, Idle

(* What the invariant says of a run, ready for use.                        *)
LEMMA HeldFacts ==
  ASSUME IndInv, NEW r \in Runners
  PROVE  /\ run[r] \in RunState /\ RunInv(r)
         /\ \A g \in run[r].gone : g \in Files /\ ~Unchanged(g)
         /\ run[r].pc \notin CleanupPC => run[r].gone = {}
         /\ run[r].pc \in FilePC => run[r].file \in Files /\ run[r].stamp # Absent
         /\ run[r].pc \in Rewriting => ~Unchanged(run[r].file)
<1>1. run[r] \in RunState /\ RunInv(r)
  BY DEF IndInv, TypeOK
<1>2. run[r].gone \subseteq Files
  BY <1>1 DEF RunState
<1>3. QED
  BY <1>1, <1>2 DEF RunInv, HoldsFile, TakesApartOnlyStale

(* A run between two files, or none: nothing is left of RunInv but the     *)
(* emptiness of its cleanup list.                                          *)
LEMMA RestingRun ==
  ASSUME NEW r \in Runners, run[r].pc \in {"idle", "files"}, run[r].gone = {}
  PROVE  RunInv(r)
  BY DEF RunInv, HoldsFile, TakesApartOnlyStale, ReadsWhatItStamps, Progress, CleanupPC,
     FilePC, Rewriting, AfterRead, NoVectorsPC

-----------------------------------------------------------------------------
(* The user. *)

LEMMA UserInv ==
  ASSUME IndInv, UserStep
  PROVE  IndInv'
<1>1. PICK f \in Files : (Edit(f) \/ Remove(f)) /\ UNCHANGED <<run, faults>>
  BY DEF UserStep
<1>2. /\ edits' \in 0 .. MaxEdits /\ edits <= edits'
      /\ disk' \in [Files -> Version \cup {Absent}]
  BY <1>1, MaxEditsAssumption
  DEF Edit, Remove, IndInv, TypeOK, StoresTypeOK, Version, Absent
<1>3. /\ \A g \in Files : g # f => disk'[g] = disk[g]
      /\ disk'[f] = Absent \/ (disk'[f] = edits + 1 /\ edits' = edits + 1)
      /\ UNCHANGED storeVars
  BY <1>1 DEF Edit, Remove, IndInv, TypeOK, StoresTypeOK
<1>4. \A g \in Files : Unchanged(g)' => Unchanged(g) /\ g # f
  BY <1>3 DEF Unchanged, Exists, storeVars, IndInv, StampsArePast, TypeOK, StoresTypeOK,
     Version, Absent
<1>5. TypeOK'
  BY <1>1, <1>2, <1>3 DEF IndInv, TypeOK, StoresTypeOK, storeVars
<1>6. StampsArePast'
  BY <1>1, <1>2, <1>3
  DEF IndInv, StampsArePast, TypeOK, StoresTypeOK, RunState, storeVars, Version, Absent
<1>7. Vouched'
  BY <1>3, <1>4 DEF IndInv, Vouched, storeVars
<1>8. ASSUME NEW r \in Runners
      PROVE  RunInv(r)'
  <2>1. RunInv(r) /\ run[r] \in RunState /\ run' = run
    BY <1>1 DEF IndInv, TypeOK
  <2>2. \A g \in Files : ~Unchanged(g) => ~Unchanged(g)'
    BY <1>4
  <2>3. HoldsFile(r)'
    BY <2>1 DEF RunInv, HoldsFile
  <2>4. ASSUME run[r].pc \in FilePC, disk'[run[r].file] = run[r].stamp
        PROVE  disk[run[r].file] = run[r].stamp
    BY <1>3, <2>1, <2>4
    DEF IndInv, StampsArePast, TypeOK, StoresTypeOK, RunState, Version, Absent, RunInv, HoldsFile
  <2>5. TakesApartOnlyStale(r)'
    <3>1. run[r].gone \subseteq Files
      BY <2>1 DEF RunState
    <3>2. /\ run[r].pc = "list" => \A g \in Files \ run[r].todo : ~Unchanged(g)'
          /\ \A g \in run[r].gone : ~Unchanged(g)'
      BY <2>1, <2>2, <3>1 DEF RunInv, TakesApartOnlyStale
    <3>3. run[r].pc \in (CleanupPC \ {"clean"}) \cup Rewriting => ~Unchanged(run[r].file)'
      BY <2>1, <2>2 DEF RunInv, TakesApartOnlyStale, HoldsFile, Rewriting, FilePC
    <3>4. run[r].pc = "compare" =>
             disk'[run[r].file] = run[r].stamp \/ ~Unchanged(run[r].file)'
      BY <2>1, <1>3, <1>4 DEF RunInv, TakesApartOnlyStale, HoldsFile, FilePC
    <3>5. QED
      BY <2>1, <3>2, <3>3, <3>4 DEF TakesApartOnlyStale
  <2>6. ReadsWhatItStamps(r)'
    BY <2>1, <2>4 DEF RunInv, ReadsWhatItStamps, FilePC, AfterRead
  <2>7. Progress(r)'
    BY <2>1, <1>3 DEF RunInv, Progress, storeVars
  <2>. QED
    BY <2>3, <2>5, <2>6, <2>7 DEF RunInv
<1>9. QED
  BY <1>5, <1>6, <1>7, <1>8 DEF IndInv

-----------------------------------------------------------------------------
(* The runs.  With one run at a time its own invariant is all there is to  *)
(* show.                                                                   *)

LEMMA OneRunSuffices ==
  ASSUME OneRunAtATime, NEW r \in Runners,
         TypeOK', StampsArePast', Vouched', RunInv(r)'
  PROVE  IndInv'
  BY DEF OneRunAtATime, IndInv

LEMMA StampsStay ==
  ASSUME OneRunAtATime, IndInv, NEW r \in Runners, run' \in [Runners -> RunState],
         UNCHANGED diskVars, \A f \in Files : fingerprint'[f] \in {fingerprint[f], Absent},
         run'[r].stamp \in {run[r].stamp, Absent}, run'[r].source \in {run[r].source, Absent}
  PROVE  StampsArePast'
<1>1. edits \in Nat /\ edits' = edits /\ disk' = disk
  BY MaxEditsAssumption DEF IndInv, TypeOK, StoresTypeOK, diskVars
<1>2. \A s \in Runners : s = r
  BY DEF OneRunAtATime
<1>3. QED
  BY <1>1, <1>2 DEF IndInv, StampsArePast, Absent

LEMMA VouchedStays ==
  ASSUME IndInv, UNCHANGED <<diskVars, storeVars>>
  PROVE  Vouched' /\ StoresTypeOK' /\ \A f \in Files : Unchanged(f)' <=> Unchanged(f)
  BY DEF IndInv, TypeOK, Vouched, StoresTypeOK, Unchanged, Exists, diskVars, storeVars

(* A run that ends or starts over its loop, whatever it was doing.         *)
LEMMA RestingRunInv ==
  ASSUME OneRunAtATime, IndInv, NEW r \in Runners, faults' \in 0 .. MaxFaults,
         UNCHANGED <<diskVars, storeVars>>,
         run' \in [Runners -> RunState], run'[r].pc \in {"idle", "files"},
         run'[r].gone = {}, run'[r].stamp = Absent, run'[r].source = Absent
  PROVE  IndInv'
<1>1. TypeOK'
  BY VouchedStays DEF TypeOK
<1>2. StampsArePast'
  BY StampsStay DEF storeVars
<1>3. RunInv(r)'
  BY DEF RunInv, HoldsFile, TakesApartOnlyStale, ReadsWhatItStamps, Progress, CleanupPC,
     FilePC, Rewriting, AfterRead, NoVectorsPC
<1>4. QED
  BY <1>1, <1>2, <1>3, VouchedStays, OneRunSuffices

LEMMA FaultType ==
  ASSUME TypeOK, NEW kind, Fault(kind)
  PROVE  faults' \in 0 .. MaxFaults
  BY MaxFaultsAssumption DEF TypeOK, Fault

LEMMA ScanInv ==
  ASSUME OneRunAtATime, IndInv, NEW r \in Runners, Scan(r)
  PROVE  IndInv'
<1> DEFINE found == {f \in Files : Exists(f)}
<1>1. /\ run' \in [Runners -> RunState]
      /\ run'[r].pc = "list" /\ run'[r].todo = found /\ run'[r].gone = {}
      /\ run'[r].stamp = Absent /\ run'[r].source = Absent
  BY NoFileAssumption DEF Scan, IndInv, TypeOK, RunState, Idle, PC, Absent
<1>2. UNCHANGED <<diskVars, storeVars, faults>>
  BY DEF Scan
<1>3. TypeOK'
  BY <1>1, <1>2, VouchedStays DEF IndInv, TypeOK
<1>4. StampsArePast'
  BY <1>1, <1>2, StampsStay DEF storeVars
<1>5. \A f \in Files \ found : ~Unchanged(f)'
  BY <1>2, VouchedStays DEF Unchanged
<1>6. RunInv(r)'
  BY <1>1, <1>5
  DEF RunInv, HoldsFile, TakesApartOnlyStale, ReadsWhatItStamps, Progress, CleanupPC,
      FilePC, Rewriting, AfterRead, NoVectorsPC
<1>7. QED
  BY <1>2, <1>3, <1>4, <1>6, VouchedStays, OneRunSuffices

LEMMA IndexPathsInv ==
  ASSUME OneRunAtATime, IndInv, NEW r \in Runners, IndexPaths(r)
  PROVE  IndInv'
<1>1. PICK paths \in SUBSET Files :
         run' = [run EXCEPT ![r] = [Idle EXCEPT !.pc = "files",
                                       !.todo = {f \in paths : Exists(f)}]]
  BY DEF IndexPaths
<1>2. /\ run' \in [Runners -> RunState] /\ run'[r].pc = "files"
      /\ run'[r].gone = {} /\ run'[r].stamp = Absent /\ run'[r].source = Absent
  BY <1>1, NoFileAssumption DEF IndInv, TypeOK, RunState, Idle, PC, Absent
<1>3. QED
  BY <1>2, RestingRunInv DEF IndexPaths, IndInv, TypeOK

LEMMA EndRunInv ==
  ASSUME OneRunAtATime, IndInv, NEW r \in Runners, EndRun(r)
  PROVE  IndInv'
  BY IdleFacts, RestingRunInv DEF EndRun, IndInv, TypeOK

LEMMA FailRunInv ==
  ASSUME OneRunAtATime, IndInv, NEW r \in Runners, FailRun(r)
  PROVE  IndInv'
<1>1. run' = [run EXCEPT ![r] = Idle] /\ UNCHANGED <<diskVars, storeVars>>
  BY DEF FailRun
<1>2. faults' \in 0 .. MaxFaults
  BY FaultType DEF FailRun, IndInv
<1>3. QED
  BY <1>1, <1>2, IdleFacts, RestingRunInv DEF IndInv

-----------------------------------------------------------------------------
(* Steps that only read the stores. *)

LEMMA ListFingerprintsInv ==
  ASSUME OneRunAtATime, IndInv, NEW r \in Runners, ListFingerprints(r)
  PROVE  IndInv'
<1>1. /\ run' \in [Runners -> RunState] /\ run'[r].pc = "clean"
      /\ run'[r].gone = Fingerprinted \ run[r].todo
      /\ run'[r].stamp = run[r].stamp /\ run'[r].source = run[r].source
  BY DEF ListFingerprints, IndInv, TypeOK, RunState, PC, CleanupPC, Fingerprinted
<1>2. UNCHANGED <<diskVars, storeVars, faults>> /\ run[r].pc = "list"
  BY DEF ListFingerprints, At
<1>3. TypeOK' /\ StampsArePast' /\ Vouched'
  BY <1>1, <1>2, VouchedStays, StampsStay DEF IndInv, TypeOK, storeVars
<1>4. \A f \in Files \ run[r].todo : ~Unchanged(f)'
  BY <1>2, VouchedStays DEF IndInv, RunInv, TakesApartOnlyStale
<1>5. RunInv(r)'
  BY <1>1, <1>4
  DEF RunInv, HoldsFile, TakesApartOnlyStale, ReadsWhatItStamps, Progress, CleanupPC,
      FilePC, Rewriting, AfterRead, NoVectorsPC, Fingerprinted
<1>6. QED
  BY <1>3, <1>5, OneRunSuffices

LEMMA StatFileInv ==
  ASSUME OneRunAtATime, IndInv, NEW r \in Runners, StatFile(r)
  PROVE  IndInv'
<1>1. PICK f \in run[r].todo :
         run' = [run EXCEPT ![r].todo = @ \ {f},
                            ![r].pc = IF Exists(f) THEN "compare" ELSE "files",
                            ![r].file = IF Exists(f) THEN f ELSE NoFile,
                            ![r].stamp = disk[f]]
  BY DEF StatFile
<1>2. f \in Files /\ disk[f] \in Version \cup {Absent} /\ disk[f] <= edits
  BY <1>1 DEF IndInv, TypeOK, StoresTypeOK, RunState, StampsArePast
<1>3. /\ run' \in [Runners -> RunState]
      /\ run'[r].pc = (IF Exists(f) THEN "compare" ELSE "files")
      /\ run'[r].file = (IF Exists(f) THEN f ELSE NoFile)
      /\ run'[r].gone = run[r].gone
      /\ run'[r].stamp = disk[f] /\ run'[r].source = run[r].source
  <2> DEFINE new == [run[r] EXCEPT !.todo = @ \ {f},
                                   !.pc = IF Exists(f) THEN "compare" ELSE "files",
                                   !.file = IF Exists(f) THEN f ELSE NoFile,
                                   !.stamp = disk[f]]
  <2>1. run[r] \in RunState
    BY HeldFacts
  <2>2. new \in RunState
    BY <1>2, <2>1 DEF RunState, PC, FilePC
  <2>3. run' = [run EXCEPT ![r] = new]
    BY <1>1, <2>1 DEF IndInv, TypeOK
  <2>4. run'[r] = new /\ run' \in [Runners -> RunState]
    BY <2>2, <2>3 DEF IndInv, TypeOK
  <2>. QED
    BY <2>1, <2>4 DEF RunState
<1>4. UNCHANGED <<diskVars, storeVars, faults>>
  BY DEF StatFile
<1>5. TypeOK' /\ Vouched'
  BY <1>3, <1>4, VouchedStays DEF IndInv, TypeOK
<1>6. StampsArePast'
  BY <1>2, <1>3, <1>4 DEF OneRunAtATime, IndInv, StampsArePast, diskVars, storeVars
<1>7. RunInv(r)'
  <2>1. \A g \in run'[r].gone : ~Unchanged(g)'
    BY <1>3, <1>4, VouchedStays, HeldFacts
  <2>2. run'[r].pc = "compare" => run'[r].file = f /\ disk'[f] = run'[r].stamp /\ run'[r].stamp # Absent
    BY <1>3, <1>4 DEF diskVars, Exists
  <2>3. run'[r].pc \in {"compare", "files"} /\ run'[r].gone = {}
    BY <1>3, HeldFacts DEF StatFile, At, CleanupPC
  <2>. QED
    BY <1>2, <2>1, <2>2, <2>3
    DEF RunInv, HoldsFile, TakesApartOnlyStale, ReadsWhatItStamps, Progress, CleanupPC,
        FilePC, Rewriting, AfterRead, NoVectorsPC
<1>8. QED
  BY <1>5, <1>6, <1>7, OneRunSuffices

LEMMA CompareInv ==
  ASSUME OneRunAtATime, IndInv, NEW r \in Runners, Compare(r)
  PROVE  IndInv'
<1>1. CASE NextFile(r)
  BY <1>1, NextFileFacts, RestingRunInv DEF Compare, IndInv, TypeOK
<1>2. CASE Step(r, "compare", "read") /\ fingerprint[run[r].file] # run[r].stamp
  <2>1. UNCHANGED <<diskVars, storeVars, faults>>
    BY DEF Compare
  <2>2. /\ run' \in [Runners -> RunState]
        /\ run[r].pc = "compare" /\ run'[r].pc = "read"
        /\ run'[r].gone = run[r].gone /\ run'[r].file = run[r].file
        /\ run'[r].stamp = run[r].stamp /\ run'[r].source = run[r].source
    BY <1>2, StepFacts DEF IndInv, PC, FilePC
  <2>3. TypeOK' /\ StampsArePast' /\ Vouched'
    BY <2>1, <2>2, VouchedStays, StampsStay DEF IndInv, TypeOK, storeVars
  <2>4. run[r].file \in Files /\ run[r].stamp # Absent /\ ~Unchanged(run[r].file)
    BY <1>2, <2>2, HeldFacts DEF RunInv, TakesApartOnlyStale, FilePC, Unchanged
  <2>5. run[r].gone = {} /\ \A g \in Files : ~Unchanged(g) => ~Unchanged(g)'
    BY <2>1, <2>2, VouchedStays, HeldFacts DEF CleanupPC
  <2>6. RunInv(r)'
    BY <2>2, <2>4, <2>5
    DEF RunInv, HoldsFile, TakesApartOnlyStale, ReadsWhatItStamps, Progress, CleanupPC,
        FilePC, Rewriting, AfterRead, NoVectorsPC
  <2>7. QED
    BY <2>3, <2>6, OneRunSuffices
<1>3. QED
  BY <1>1, <1>2 DEF Compare

LEMMA ReadFileInv ==
  ASSUME OneRunAtATime, IndInv, NEW r \in Runners, ReadFile(r)
  PROVE  IndInv'
<1> DEFINE f == run[r].file
<1>1. CASE NextFile(r)
  BY <1>1, NextFileFacts, RestingRunInv DEF ReadFile, IndInv, TypeOK
<1>2. CASE /\ Exists(f) /\ disk[f] \notin Rejected
           /\ run' = [run EXCEPT ![r].pc = "deleteDocs", ![r].source = disk[f]]
  <2>1. UNCHANGED <<diskVars, storeVars, faults>> /\ run[r].pc = "read"
    BY DEF ReadFile, At
  <2>2. f \in Files /\ run[r].stamp # Absent /\ ~Unchanged(f)
    BY <2>1, HeldFacts DEF FilePC, Rewriting
  <2>3. disk[f] \in Version \cup {Absent} /\ disk[f] <= edits
    BY <2>2 DEF IndInv, TypeOK, StoresTypeOK, StampsArePast
  <2>4. /\ run' \in [Runners -> RunState] /\ run'[r].pc = "deleteDocs"
        /\ run'[r].gone = run[r].gone /\ run'[r].file = f
        /\ run'[r].stamp = run[r].stamp /\ run'[r].source = disk[f]
    <3> DEFINE new == [run[r] EXCEPT !.pc = "deleteDocs", !.source = disk[f]]
    <3>1. run[r] \in RunState
      BY HeldFacts
    <3>2. new \in RunState
      BY <2>3, <3>1 DEF RunState, PC, FilePC
    <3>3. run' = [run EXCEPT ![r] = new]
      BY <1>2, <3>1 DEF IndInv, TypeOK
    <3>4. run'[r] = new /\ run' \in [Runners -> RunState]
      BY <3>2, <3>3 DEF IndInv, TypeOK
    <3>. QED
      BY <3>1, <3>4 DEF RunState
  <2>5. TypeOK' /\ Vouched'
    BY <2>1, <2>4, VouchedStays DEF IndInv, TypeOK
  <2>6. StampsArePast'
    BY <2>1, <2>3, <2>4 DEF OneRunAtATime, IndInv, StampsArePast, diskVars, storeVars
  <2>7. run[r].gone = {} /\ \A g \in Files : ~Unchanged(g) => ~Unchanged(g)'
    BY <2>1, VouchedStays, HeldFacts DEF CleanupPC
  <2>8. disk' = disk
    BY <2>1 DEF diskVars
  <2>9. RunInv(r)'
    BY <1>2, <2>2, <2>4, <2>7, <2>8
    DEF RunInv, HoldsFile, TakesApartOnlyStale, ReadsWhatItStamps, Progress, CleanupPC,
        FilePC, Rewriting, AfterRead, NoVectorsPC, Exists
  <2>. QED
    BY <2>5, <2>6, <2>9, OneRunSuffices
<1>3. QED
  BY <1>1, <1>2 DEF ReadFile

-----------------------------------------------------------------------------
(* Steps that write the stores of one file.  Most of them write about a    *)
(* file that is not unchanged, so there is nothing to vouch for.           *)

LEMMA UnchangedStays ==
  ASSUME UNCHANGED <<diskVars, fingerprint>>
  PROVE  disk' = disk /\ edits' = edits /\ \A g \in Files : Unchanged(g)' <=> Unchanged(g)
  BY DEF diskVars, Unchanged, Exists

LEMMA CleanSymbolsInv ==
  ASSUME OneRunAtATime, IndInv, NEW r \in Runners, CleanSymbols(r)
  PROVE  IndInv'
<1>1. PICK f \in run[r].gone :
         /\ DeleteSymbolsByFile(f)
         /\ run' = [run EXCEPT ![r].pc = "cleanFingerprint", ![r].file = f,
                               ![r].gone = @ \ {f}]
  BY DEF CleanSymbols
<1>2. /\ UNCHANGED <<diskVars, fingerprint, patterns, tantivyVars, vectors, faults>>
      /\ run[r].pc = "clean"
  BY DEF CleanSymbols, At
<1>3. f \in Files /\ ~Unchanged(f)
  BY HeldFacts
<1>4. /\ run' \in [Runners -> RunState]
      /\ run'[r].pc = "cleanFingerprint" /\ run'[r].file = f
      /\ run'[r].gone = run[r].gone \ {f}
      /\ run'[r].stamp = run[r].stamp /\ run'[r].source = run[r].source
  <2> DEFINE new == [run[r] EXCEPT !.pc = "cleanFingerprint", !.file = f, !.gone = @ \ {f}]
  <2>1. run[r] \in RunState
    BY HeldFacts
  <2>2. new \in RunState
    BY <1>3, <2>1 DEF RunState, PC, CleanupPC
  <2>3. run' = [run EXCEPT ![r] = new]
    BY <1>1, <2>1 DEF IndInv, TypeOK
  <2>4. run'[r] = new /\ run' \in [Runners -> RunState]
    BY <2>2, <2>3 DEF IndInv, TypeOK
  <2>. QED
    BY <2>1, <2>4 DEF RunState
<1>5. /\ symbols' \in [Files -> SUBSET Version]
      /\ \A g \in Files : g # f => symbols'[g] = symbols[g]
  BY <1>1, <1>3 DEF DeleteSymbolsByFile, IndInv, TypeOK, StoresTypeOK
<1>6. TypeOK'
  BY <1>1, <1>2, <1>4, <1>5
  DEF IndInv, TypeOK, StoresTypeOK, diskVars, tantivyVars, DeleteSymbolsByFile
<1>7. StampsArePast'
  BY <1>2, <1>4, StampsStay
<1>8. Vouched'
  BY <1>2, <1>3, <1>5, UnchangedStays DEF IndInv, Vouched, tantivyVars
<1>9. \A g \in run'[r].gone : ~Unchanged(g)'
  BY <1>2, <1>4, HeldFacts, UnchangedStays
<1>10. RunInv(r)'
  BY <1>2, <1>3, <1>4, <1>9, UnchangedStays
  DEF RunInv, HoldsFile, TakesApartOnlyStale, ReadsWhatItStamps, Progress, CleanupPC,
      FilePC, Rewriting, AfterRead, NoVectorsPC
<1>11. QED
  BY <1>6, <1>7, <1>8, <1>10, OneRunSuffices

LEMMA CleanFingerprintInv ==
  ASSUME OneRunAtATime, IndInv, NEW r \in Runners, CleanFingerprint(r)
  PROVE  IndInv'
<1> DEFINE f == run[r].file
<1>1. /\ UNCHANGED <<diskVars, symbols, patterns, testLinks, tantivyVars, vectors, faults>>
      /\ fingerprint' = [fingerprint EXCEPT ![f] = Absent]
      /\ Step(r, "cleanFingerprint", "cleanDocs")
  BY DEF CleanFingerprint, DeleteFingerprint
<1>2. /\ run' \in [Runners -> RunState]
      /\ run[r].pc = "cleanFingerprint" /\ run'[r].pc = "cleanDocs"
      /\ run'[r].gone = run[r].gone /\ run'[r].file = f
      /\ run'[r].stamp = run[r].stamp /\ run'[r].source = run[r].source
  BY <1>1, StepFacts DEF IndInv, PC, CleanupPC
<1>3. f \in Files /\ ~Unchanged(f)
  BY <1>2, HeldFacts DEF RunInv, HoldsFile, TakesApartOnlyStale, CleanupPC
<1>4. /\ fingerprint' \in [Files -> Version \cup {Absent}]
      /\ \A g \in Files : fingerprint'[g] = (IF g = f THEN Absent ELSE fingerprint[g])
  BY <1>1, <1>3 DEF IndInv, TypeOK, StoresTypeOK
<1>5. \A g \in Files : Unchanged(g)' <=> Unchanged(g)
  BY <1>1, <1>3, <1>4 DEF Unchanged, Exists, diskVars
<1>6. TypeOK'
  BY <1>1, <1>2, <1>4 DEF IndInv, TypeOK, StoresTypeOK, diskVars, tantivyVars
<1>7. StampsArePast'
  BY <1>1, <1>2, <1>4, StampsStay
<1>8. Vouched'
  BY <1>1, <1>5 DEF IndInv, Vouched, diskVars, tantivyVars
<1>9. \A g \in run[r].gone : ~Unchanged(g)'
  BY <1>5, HeldFacts
<1>10. RunInv(r)'
  BY <1>2, <1>3, <1>5, <1>9
  DEF RunInv, HoldsFile, TakesApartOnlyStale, ReadsWhatItStamps, Progress, CleanupPC,
      FilePC, Rewriting, AfterRead, NoVectorsPC
<1>11. QED
  BY <1>6, <1>7, <1>8, <1>10, OneRunSuffices

(* A step of a run over its file, to another statement, that leaves the    *)
(* fingerprints alone and writes only about a file that is not unchanged:  *)
(* what is left to show is its progress with the stores.                   *)
LEMMA FileStepInv ==
  ASSUME OneRunAtATime, IndInv, NEW r \in Runners, NEW from \in PC, NEW to \in PC,
         Step(r, from, to), UNCHANGED <<diskVars, fingerprint>>, faults' \in 0 .. MaxFaults,
         \/ from = "cleanDocs" /\ to = "cleanVectors"
         \/ from \in AfterRead /\ to \in AfterRead,
         to \in Rewriting => from \in Rewriting,
         StoresTypeOK', Vouched', Progress(r)'
  PROVE  IndInv'
<1>1. /\ run' \in [Runners -> RunState] /\ run[r].pc = from /\ run'[r].pc = to
      /\ run'[r].gone = run[r].gone /\ run'[r].file = run[r].file
      /\ run'[r].stamp = run[r].stamp /\ run'[r].source = run[r].source
  BY StepFacts DEF IndInv
<1>2. TypeOK' /\ StampsArePast'
  BY <1>1, StampsStay DEF IndInv, TypeOK
<1>3. HoldsFile(r) /\ TakesApartOnlyStale(r) /\ ReadsWhatItStamps(r) /\ run[r].file \in Files
  BY <1>1 DEF IndInv, RunInv, HoldsFile, CleanupPC, AfterRead
<1>4. HoldsFile(r)'
  BY <1>1, <1>3 DEF HoldsFile, AfterRead, CleanupPC, FilePC
<1>5. ReadsWhatItStamps(r)'
  BY <1>1, <1>3, UnchangedStays DEF ReadsWhatItStamps, AfterRead, CleanupPC, FilePC
<1>6. TakesApartOnlyStale(r)'
  <2>1. \A g \in run[r].gone : ~Unchanged(g)'
    BY HeldFacts, UnchangedStays
  <2>2. to \in (CleanupPC \ {"clean"}) \cup Rewriting => ~Unchanged(run[r].file)'
    BY <1>1, <1>3, UnchangedStays DEF TakesApartOnlyStale, AfterRead, CleanupPC, FilePC
  <2>3. to \notin {"list", "compare"}
    BY DEF AfterRead, FilePC
  <2>. QED
    BY <1>1, <2>1, <2>2, <2>3 DEF TakesApartOnlyStale
<1>7. QED
  BY <1>2, <1>4, <1>5, <1>6, OneRunSuffices DEF RunInv

LEMMA CleanDocsInv ==
  ASSUME OneRunAtATime, IndInv, NEW r \in Runners, CleanDocs(r)
  PROVE  IndInv'
<1> DEFINE f == run[r].file
<1>1. /\ Step(r, "cleanDocs", "cleanVectors")
      /\ buffered' = [buffered EXCEPT ![f] = {}]
      /\ UNCHANGED <<diskVars, sqliteVars, docs, vectors, faults>>
  BY DEF CleanDocs, DeleteDocs
<1>2. /\ run[r].pc = "cleanDocs" /\ run'[r].pc = "cleanVectors"
      /\ run'[r].file = f /\ run'[r].source = run[r].source
      /\ run'[r].stamp = run[r].stamp
      /\ f \in Files /\ run[r].source \in Version \cup {Absent}
  BY <1>1, StepFacts, HeldFacts
  DEF IndInv, PC, CleanupPC, FilePC, RunState, RunInv, HoldsFile
<1>3. ~Unchanged(f)
  BY <1>2, HeldFacts DEF Rewriting, RunInv, TakesApartOnlyStale, CleanupPC
<1>4. \A g \in Files : buffered'[g] = (IF g = f THEN {} ELSE buffered[g])
  BY <1>1, <1>2 DEF IndInv, TypeOK, StoresTypeOK
<1>5. StoresTypeOK' /\ Vouched'
  BY <1>1, <1>2, <1>3, <1>4, UnchangedStays
  DEF IndInv, TypeOK, StoresTypeOK, Vouched, diskVars, sqliteVars
<1>6. Progress(r)'
  BY <1>2 DEF Progress, NoVectorsPC
<1>7. /\ "cleanDocs" \in PC /\ "cleanVectors" \in PC /\ faults' \in 0 .. MaxFaults
      /\ "cleanVectors" \notin Rewriting
  BY <1>1 DEF PC, CleanupPC, FilePC, Rewriting, IndInv, TypeOK
<1>8. UNCHANGED <<diskVars, fingerprint>>
  BY <1>1 DEF sqliteVars
<1>9. QED
  BY <1>1, <1>5, <1>6, <1>7, <1>8, FileStepInv

LEMMA DeleteOldDocsInv ==
  ASSUME OneRunAtATime, IndInv, NEW r \in Runners, DeleteOldDocs(r)
  PROVE  IndInv'
<1> DEFINE f == run[r].file
<1>1. /\ Step(r, "deleteDocs", "deleteVectors")
      /\ buffered' = [buffered EXCEPT ![f] = {}]
      /\ UNCHANGED <<diskVars, sqliteVars, docs, vectors, faults>>
  BY DEF DeleteOldDocs, DeleteDocs
<1>2. /\ run[r].pc = "deleteDocs" /\ run'[r].pc = "deleteVectors"
      /\ run'[r].file = f /\ run'[r].source = run[r].source
      /\ run'[r].stamp = run[r].stamp
      /\ f \in Files /\ run[r].source \in Version \cup {Absent}
  BY <1>1, StepFacts, HeldFacts
  DEF IndInv, PC, CleanupPC, FilePC, RunState, RunInv, HoldsFile
<1>3. ~Unchanged(f)
  BY <1>2, HeldFacts DEF Rewriting, RunInv, TakesApartOnlyStale, CleanupPC
<1>4. \A g \in Files : buffered'[g] = (IF g = f THEN {} ELSE buffered[g])
  BY <1>1, <1>2 DEF IndInv, TypeOK, StoresTypeOK
<1>5. StoresTypeOK' /\ Vouched'
  BY <1>1, <1>2, <1>3, <1>4, UnchangedStays
  DEF IndInv, TypeOK, StoresTypeOK, Vouched, diskVars, sqliteVars, tantivyVars
<1>6. Progress(r)'
  BY <1>2, <1>4 DEF Progress, NoVectorsPC
<1>7. "deleteDocs" \in PC /\ "deleteVectors" \in PC /\ faults' \in 0 .. MaxFaults
  BY <1>1 DEF PC, CleanupPC, FilePC, IndInv, TypeOK
<1>8. QED
  BY <1>1, <1>5, <1>6, <1>7, FileStepInv
  DEF AfterRead, FilePC, Rewriting, sqliteVars, storeVars

LEMMA DeleteOldVectorsInv ==
  ASSUME OneRunAtATime, IndInv, NEW r \in Runners, DeleteOldVectors(r)
  PROVE  IndInv'
<1> DEFINE f == run[r].file
<1>1. /\ Step(r, "deleteVectors", "deleteRows")
      /\ vectors' = [vectors EXCEPT ![f] = {}]
      /\ UNCHANGED <<diskVars, sqliteVars, tantivyVars, faults>>
  BY DEF DeleteOldVectors, DeleteVectors
<1>2. /\ run[r].pc = "deleteVectors" /\ run'[r].pc = "deleteRows"
      /\ run'[r].file = f /\ run'[r].source = run[r].source
      /\ run'[r].stamp = run[r].stamp
      /\ f \in Files /\ run[r].source \in Version \cup {Absent}
  BY <1>1, StepFacts, HeldFacts
  DEF IndInv, PC, CleanupPC, FilePC, RunState, RunInv, HoldsFile
<1>3. ~Unchanged(f)
  BY <1>2, HeldFacts DEF Rewriting, RunInv, TakesApartOnlyStale, CleanupPC
<1>4. \A g \in Files : vectors'[g] = (IF g = f THEN {} ELSE vectors[g])
  BY <1>1, <1>2 DEF IndInv, TypeOK, StoresTypeOK
<1>5. StoresTypeOK' /\ Vouched'
  BY <1>1, <1>2, <1>3, <1>4, UnchangedStays
  DEF IndInv, TypeOK, StoresTypeOK, Vouched, diskVars, sqliteVars, tantivyVars
<1>6. Progress(r)'
  BY <1>1, <1>2, <1>4 DEF IndInv, RunInv, Progress, NoVectorsPC, sqliteVars, tantivyVars
<1>7. "deleteVectors" \in PC /\ "deleteRows" \in PC /\ faults' \in 0 .. MaxFaults
  BY <1>1 DEF PC, CleanupPC, FilePC, IndInv, TypeOK
<1>8. QED
  BY <1>1, <1>5, <1>6, <1>7, FileStepInv
  DEF AfterRead, FilePC, Rewriting, sqliteVars, storeVars

LEMMA DeleteOldRowsInv ==
  ASSUME OneRunAtATime, IndInv, NEW r \in Runners, DeleteOldRows(r)
  PROVE  IndInv'
<1> DEFINE f == run[r].file
<1>1. /\ Step(r, "deleteRows", "embed")
      /\ symbols' = [symbols EXCEPT ![f] = {}]
      /\ patterns' = [patterns EXCEPT ![f] = {}]
      /\ UNCHANGED <<diskVars, fingerprint, testLinks, tantivyVars, vectors, faults>>
  BY DEF DeleteOldRows, DeleteSymbolsByFile, DeleteFrameworkPatternsByFile
<1>2. /\ run[r].pc = "deleteRows" /\ run'[r].pc = "embed"
      /\ run'[r].file = f /\ run'[r].source = run[r].source
      /\ run'[r].stamp = run[r].stamp
      /\ f \in Files /\ run[r].source \in Version \cup {Absent}
  BY <1>1, StepFacts, HeldFacts
  DEF IndInv, PC, CleanupPC, FilePC, RunState, RunInv, HoldsFile
<1>3. ~Unchanged(f)
  BY <1>2, HeldFacts DEF Rewriting, RunInv, TakesApartOnlyStale, CleanupPC
<1>4. \A g \in Files : symbols'[g] = (IF g = f THEN {} ELSE symbols[g])
  BY <1>1, <1>2 DEF IndInv, TypeOK, StoresTypeOK
<1>5. StoresTypeOK' /\ Vouched'
  BY <1>1, <1>2, <1>3, <1>4, UnchangedStays
  DEF IndInv, TypeOK, StoresTypeOK, Vouched, diskVars, sqliteVars, tantivyVars
<1>6. Progress(r)'
  BY <1>1, <1>2, <1>4 DEF IndInv, RunInv, Progress, NoVectorsPC, sqliteVars, tantivyVars
<1>7. "deleteRows" \in PC /\ "embed" \in PC /\ faults' \in 0 .. MaxFaults
  BY <1>1 DEF PC, CleanupPC, FilePC, IndInv, TypeOK
<1>8. QED
  BY <1>1, <1>5, <1>6, <1>7, FileStepInv
  DEF AfterRead, FilePC, Rewriting, sqliteVars, storeVars

LEMMA EmbedInv ==
  ASSUME OneRunAtATime, IndInv, NEW r \in Runners, Embed(r)
  PROVE  IndInv'
<1> DEFINE f == run[r].file
<1>1. /\ Step(r, "embed", "addDocs")
      /\ UNCHANGED <<diskVars, storeVars, faults>>
  BY DEF Embed
<1>2. /\ run[r].pc = "embed" /\ run'[r].pc = "addDocs"
      /\ run'[r].file = f /\ run'[r].source = run[r].source
      /\ run'[r].stamp = run[r].stamp
      /\ f \in Files /\ run[r].source \in Version \cup {Absent}
  BY <1>1, StepFacts, HeldFacts
  DEF IndInv, PC, CleanupPC, FilePC, RunState, RunInv, HoldsFile
<1>5. StoresTypeOK' /\ Vouched'
  BY <1>1, VouchedStays
<1>6. Progress(r)'
  BY <1>1, <1>2 DEF IndInv, RunInv, Progress, NoVectorsPC, sqliteVars, tantivyVars, storeVars
<1>7. "embed" \in PC /\ "addDocs" \in PC /\ faults' \in 0 .. MaxFaults
  BY <1>1 DEF PC, CleanupPC, FilePC, IndInv, TypeOK
<1>8. QED
  BY <1>1, <1>5, <1>6, <1>7, FileStepInv
  DEF AfterRead, FilePC, Rewriting, sqliteVars, storeVars

LEMMA AddNewDocsInv ==
  ASSUME OneRunAtATime, IndInv, NEW r \in Runners, AddNewDocs(r)
  PROVE  IndInv'
<1> DEFINE f == run[r].file
<1>1. /\ Step(r, "addDocs", "commitDocs")
      /\ buffered' = [buffered EXCEPT ![f] = @ \cup {run[r].source}]
      /\ UNCHANGED <<diskVars, sqliteVars, docs, vectors, faults>>
      /\ run[r].pc = "addDocs"
  BY DEF AddNewDocs, AddDocs, Step, At
<1>2. /\ run[r].pc = "addDocs" /\ run'[r].pc = "commitDocs"
      /\ run'[r].file = f /\ run'[r].source = run[r].source
      /\ run'[r].stamp = run[r].stamp
      /\ f \in Files /\ run[r].source \in Version \cup {Absent}
  BY <1>1, StepFacts, HeldFacts
  DEF IndInv, PC, CleanupPC, FilePC, RunState, RunInv, HoldsFile
<1>3. ~Unchanged(f)
  BY <1>2, HeldFacts DEF Rewriting, RunInv, TakesApartOnlyStale, CleanupPC
<1>4. \A g \in Files : buffered'[g] = (IF g = f THEN buffered[g] \cup {run[r].source} ELSE buffered[g])
  BY <1>1, <1>2 DEF IndInv, TypeOK, StoresTypeOK
<1>9. run[r].source # Absent
  BY <1>2 DEF IndInv, RunInv, ReadsWhatItStamps, AfterRead, FilePC
<1>5. StoresTypeOK' /\ Vouched'
  BY <1>1, <1>2, <1>3, <1>4, <1>9, UnchangedStays
  DEF IndInv, TypeOK, StoresTypeOK, Vouched, diskVars, sqliteVars, tantivyVars
<1>6. Progress(r)'
  BY <1>1, <1>2, <1>4 DEF IndInv, RunInv, Progress, NoVectorsPC, sqliteVars, tantivyVars
<1>7. "addDocs" \in PC /\ "commitDocs" \in PC /\ faults' \in 0 .. MaxFaults
  BY <1>1 DEF PC, CleanupPC, FilePC, IndInv, TypeOK
<1>8. QED
  BY <1>1, <1>5, <1>6, <1>7, FileStepInv
  DEF AfterRead, FilePC, Rewriting, sqliteVars, storeVars

LEMMA CommitDocsInv ==
  ASSUME OneRunAtATime, IndInv, NEW r \in Runners, CommitDocs(r)
  PROVE  IndInv'
<1> DEFINE f == run[r].file
<1>1. /\ Step(r, "commitDocs", "upsertRows")
      /\ docs' = buffered /\ buffered' = buffered
      /\ UNCHANGED <<diskVars, sqliteVars, vectors, faults>>
  BY DEF CommitDocs, Commit
<1>2. /\ run[r].pc = "commitDocs" /\ run'[r].pc = "upsertRows"
      /\ run'[r].file = f /\ run'[r].source = run[r].source
      /\ run'[r].stamp = run[r].stamp
      /\ f \in Files /\ run[r].source \in Version \cup {Absent}
  BY <1>1, StepFacts, HeldFacts
  DEF IndInv, PC, CleanupPC, FilePC, RunState, RunInv, HoldsFile
<1>3. ~Unchanged(f)
  BY <1>2, HeldFacts DEF Rewriting, RunInv, TakesApartOnlyStale, CleanupPC
<1>5. StoresTypeOK' /\ Vouched'
  BY <1>1, UnchangedStays DEF IndInv, TypeOK, StoresTypeOK, Vouched, diskVars, sqliteVars
<1>6. Progress(r)'
  BY <1>1, <1>2 DEF IndInv, RunInv, Progress, NoVectorsPC, sqliteVars, tantivyVars
<1>7. "commitDocs" \in PC /\ "upsertRows" \in PC /\ faults' \in 0 .. MaxFaults
  BY <1>1 DEF PC, CleanupPC, FilePC, IndInv, TypeOK
<1>8. QED
  BY <1>1, <1>5, <1>6, <1>7, FileStepInv
  DEF AfterRead, FilePC, Rewriting, sqliteVars, storeVars

LEMMA UpsertRowsInv ==
  ASSUME OneRunAtATime, IndInv, NEW r \in Runners, UpsertRows(r)
  PROVE  IndInv'
<1> DEFINE f == run[r].file
<1>1. /\ Step(r, "upsertRows", "upsertFingerprint")
      /\ symbols' = [symbols EXCEPT ![f] = @ \cup {run[r].source}]
      /\ patterns' = [patterns EXCEPT ![f] = @ \cup {run[r].source}]
      /\ testLinks' = [testLinks EXCEPT ![f] = @ \/ f \in TestFiles]
      /\ UNCHANGED <<diskVars, fingerprint, tantivyVars, vectors, faults>>
  BY DEF UpsertRows, UpsertSymbols, UpsertFrameworkPatterns, CreateTestLinks
<1>2. /\ run[r].pc = "upsertRows" /\ run'[r].pc = "upsertFingerprint"
      /\ run'[r].file = f /\ run'[r].source = run[r].source
      /\ run'[r].stamp = run[r].stamp
      /\ f \in Files /\ run[r].source \in Version \cup {Absent}
  BY <1>1, StepFacts, HeldFacts
  DEF IndInv, PC, CleanupPC, FilePC, RunState, RunInv, HoldsFile
<1>3. ~Unchanged(f)
  BY <1>2, HeldFacts DEF Rewriting, RunInv, TakesApartOnlyStale, CleanupPC
<1>4. \A g \in Files : symbols'[g] = (IF g = f THEN symbols[g] \cup {run[r].source} ELSE symbols[g])
  BY <1>1, <1>2 DEF IndInv, TypeOK, StoresTypeOK
<1>9. run[r].source # Absent
  BY <1>2 DEF IndInv, RunInv, ReadsWhatItStamps, AfterRead, FilePC
<1>5. StoresTypeOK' /\ Vouched'
  BY <1>1, <1>2, <1>3, <1>4, <1>9, UnchangedStays
  DEF IndInv, TypeOK, StoresTypeOK, Vouched, diskVars, sqliteVars, tantivyVars
<1>6. Progress(r)'
  BY <1>1, <1>2, <1>4 DEF IndInv, RunInv, Progress, NoVectorsPC, sqliteVars, tantivyVars
<1>7. "upsertRows" \in PC /\ "upsertFingerprint" \in PC /\ faults' \in 0 .. MaxFaults
  BY <1>1 DEF PC, CleanupPC, FilePC, IndInv, TypeOK
<1>8. QED
  BY <1>1, <1>5, <1>6, <1>7, FileStepInv
  DEF AfterRead, FilePC, Rewriting, sqliteVars, storeVars

LEMMA AddNewVectorsFailsInv ==
  ASSUME OneRunAtATime, IndInv, NEW r \in Runners, AddNewVectorsFails(r)
  PROVE  IndInv'
<1>1. /\ Step(r, "addVectors", "close") /\ UNCHANGED <<diskVars, storeVars>>
      /\ run'[r].pc = "close"
  BY StepFacts DEF AddNewVectorsFails, IndInv, PC, FilePC
<1>2. StoresTypeOK' /\ Vouched'
  BY <1>1, VouchedStays
<1>3. Progress(r)'
  BY <1>1 DEF Progress, NoVectorsPC
<1>4. /\ "addVectors" \in PC \cap AfterRead /\ "close" \in PC \cap AfterRead
      /\ "close" \notin Rewriting
  BY DEF PC, FilePC, AfterRead, Rewriting
<1>5. faults' \in 0 .. MaxFaults
  BY FaultType DEF AddNewVectorsFails, IndInv
<1>6. UNCHANGED <<diskVars, fingerprint>>
  BY <1>1 DEF storeVars
<1>7. QED
  BY <1>1, <1>2, <1>3, <1>4, <1>5, <1>6, FileStepInv

(* The file may count as unchanged by now; if it does, what the run read   *)
(* is what is on disk.                                                     *)
LEMMA AddNewVectorsInv ==
  ASSUME OneRunAtATime, IndInv, NEW r \in Runners, AddNewVectors(r)
  PROVE  IndInv'
<1> DEFINE f == run[r].file
<1>1. /\ Step(r, "addVectors", "close")
      /\ vectors' = [vectors EXCEPT ![f] = @ \cup {run[r].source}]
      /\ UNCHANGED <<diskVars, sqliteVars, tantivyVars, faults>>
      /\ run[r].pc = "addVectors"
  BY DEF AddNewVectors, AddVectors, Step, At
<1>2. run'[r].pc = "close"
  BY <1>1, StepFacts DEF IndInv, PC, FilePC
<1>3. /\ f \in Files /\ run[r].source \in Version
      /\ vectors[f] = {} /\ fingerprint[f] = run[r].stamp
      /\ disk[f] = run[r].stamp => run[r].source = disk[f]
  BY <1>1, HeldFacts
  DEF FilePC, AfterRead, NoVectorsPC, RunState, RunInv, ReadsWhatItStamps, Progress
<1>4. \A g \in Files : vectors'[g] = IF g = f THEN {run[r].source} ELSE vectors[g]
  BY <1>1, <1>3 DEF IndInv, TypeOK, StoresTypeOK
<1>5. UNCHANGED <<diskVars, fingerprint, symbols, buffered, docs>>
  BY <1>1 DEF sqliteVars, tantivyVars
<1>6. StoresTypeOK'
  BY <1>1, <1>3, <1>4 DEF IndInv, TypeOK, StoresTypeOK, diskVars, sqliteVars, tantivyVars
<1>7. Vouched'
  <2> SUFFICES ASSUME NEW g \in Files, Unchanged(g)'
               PROVE  /\ symbols'[g] = {disk'[g]} /\ docs'[g] = {disk'[g]}
                      /\ buffered'[g] = {disk'[g]} /\ vectors'[g] \subseteq {disk'[g]}
    BY DEF Vouched
  <2>1. Unchanged(g) /\ disk' = disk
    BY <1>5, UnchangedStays
  <2>2. g = f => run[r].source = disk[f]
    BY <1>3, <2>1 DEF Unchanged
  <2>. QED
    BY <1>4, <1>5, <2>1, <2>2 DEF IndInv, Vouched
<1>8. Progress(r)'
  BY <1>2 DEF Progress, NoVectorsPC
<1>9. /\ "addVectors" \in PC \cap AfterRead /\ "close" \in PC \cap AfterRead
      /\ "close" \notin Rewriting /\ faults' \in 0 .. MaxFaults
  BY <1>1 DEF PC, FilePC, AfterRead, Rewriting, IndInv, TypeOK
<1>10. QED
  BY <1>1, <1>5, <1>6, <1>7, <1>8, <1>9, FileStepInv

(* The step that makes the file unchanged, if the disk still holds what    *)
(* was stamped: by then every store has what was read, which is the same.  *)
LEMMA RecordFingerprintInv ==
  ASSUME OneRunAtATime, IndInv, NEW r \in Runners, RecordFingerprint(r)
  PROVE  IndInv'
<1> DEFINE f == run[r].file
<1>1. /\ Step(r, "upsertFingerprint", "addVectors")
      /\ fingerprint' = [fingerprint EXCEPT ![f] = run[r].stamp]
      /\ UNCHANGED <<diskVars, symbols, patterns, testLinks, tantivyVars, vectors, faults>>
      /\ run[r].pc = "upsertFingerprint"
  BY DEF RecordFingerprint, UpsertFingerprint, Step, At
<1>2. /\ run' \in [Runners -> RunState] /\ run'[r].pc = "addVectors"
      /\ run'[r].gone = run[r].gone /\ run'[r].file = f
      /\ run'[r].stamp = run[r].stamp /\ run'[r].source = run[r].source
  BY <1>1, StepFacts DEF IndInv, PC, FilePC
<1>3. /\ f \in Files /\ run[r].stamp \in Version \cup {Absent} /\ run[r].stamp # Absent
      /\ buffered[f] = {run[r].source} /\ docs[f] = {run[r].source}
      /\ symbols[f] = {run[r].source} /\ vectors[f] = {}
      /\ run[r].source \notin Rejected \cup {Absent}
      /\ disk[f] = run[r].stamp => run[r].source = disk[f]
  BY <1>1, HeldFacts
  DEF FilePC, AfterRead, NoVectorsPC, RunState, RunInv, ReadsWhatItStamps, Progress
<1>4. \A g \in Files : fingerprint'[g] = IF g = f THEN run[r].stamp ELSE fingerprint[g]
  BY <1>1, <1>3 DEF IndInv, TypeOK, StoresTypeOK
<1>5. /\ disk' = disk /\ edits' = edits /\ buffered' = buffered /\ docs' = docs
      /\ symbols' = symbols /\ vectors' = vectors
  BY <1>1 DEF diskVars, tantivyVars
<1>6. TypeOK'
  BY <1>1, <1>2, <1>3, <1>4, <1>5 DEF IndInv, TypeOK, StoresTypeOK
<1>7. StampsArePast'
  BY <1>2, <1>3, <1>4, <1>5 DEF OneRunAtATime, IndInv, StampsArePast
<1>8. \A g \in Files : Unchanged(g)' => IF g = f THEN run[r].source = disk[f] ELSE Unchanged(g)
  BY <1>3, <1>4, <1>5 DEF Unchanged, Exists
<1>9. Vouched'
  BY <1>3, <1>5, <1>8 DEF IndInv, Vouched
<1>10. RunInv(r)'
  <2>1. run[r].gone = {}
    BY <1>1 DEF IndInv, RunInv, HoldsFile, CleanupPC
  <2>2. HoldsFile(r)' /\ TakesApartOnlyStale(r)'
    BY <1>2, <1>3, <2>1 DEF HoldsFile, TakesApartOnlyStale, CleanupPC, FilePC, Rewriting
  <2>3. ReadsWhatItStamps(r)'
    BY <1>2, <1>3, <1>5 DEF ReadsWhatItStamps
  <2>4. Progress(r)'
    BY <1>2, <1>3, <1>4, <1>5 DEF Progress, NoVectorsPC
  <2>. QED
    BY <2>2, <2>3, <2>4 DEF RunInv
<1>11. QED
  BY <1>6, <1>7, <1>9, <1>10, OneRunSuffices

LEMMA CleanVectorsInv ==
  ASSUME OneRunAtATime, IndInv, NEW r \in Runners, CleanVectors(r)
  PROVE  IndInv'
<1> DEFINE f == run[r].file
<1>1. /\ run[r].pc = "cleanVectors"
      /\ vectors' = [vectors EXCEPT ![f] = {}]
      /\ run' = [run EXCEPT ![r].pc = "clean", ![r].file = NoFile, ![r].cleaned = TRUE]
      /\ UNCHANGED <<diskVars, sqliteVars, tantivyVars, faults>>
  BY DEF CleanVectors, DeleteVectors, At
<1>2. /\ run' \in [Runners -> RunState]
      /\ run'[r].pc = "clean" /\ run'[r].gone = run[r].gone
      /\ run'[r].stamp = run[r].stamp /\ run'[r].source = run[r].source
  <2> DEFINE new == [run[r] EXCEPT !.pc = "clean", !.file = NoFile, !.cleaned = TRUE]
  <2>1. run[r] \in RunState
    BY HeldFacts
  <2>2. new \in RunState
    BY <2>1 DEF RunState, PC, CleanupPC
  <2>3. run' = [run EXCEPT ![r] = new]
    BY <1>1, <2>1 DEF IndInv, TypeOK
  <2>4. run'[r] = new /\ run' \in [Runners -> RunState]
    BY <2>2, <2>3 DEF IndInv, TypeOK
  <2>. QED
    BY <2>1, <2>4 DEF RunState
<1>3. f \in Files /\ ~Unchanged(f)
  BY <1>1, HeldFacts DEF RunInv, HoldsFile, TakesApartOnlyStale, CleanupPC
<1>4. \A g \in Files : vectors'[g] = IF g = f THEN {} ELSE vectors[g]
  BY <1>1, <1>3 DEF IndInv, TypeOK, StoresTypeOK
<1>5. UNCHANGED <<diskVars, fingerprint, symbols, buffered, docs>>
  BY <1>1 DEF sqliteVars, tantivyVars
<1>6. TypeOK'
  BY <1>1, <1>2, <1>4 DEF IndInv, TypeOK, StoresTypeOK, diskVars, sqliteVars, tantivyVars
<1>7. StampsArePast'
  BY <1>2, <1>5, StampsStay
<1>8. Vouched'
  BY <1>3, <1>4, <1>5, UnchangedStays DEF IndInv, Vouched
<1>9. RunInv(r)'
  <2>1. \A g \in run'[r].gone : ~Unchanged(g)'
    BY <1>2, <1>5, HeldFacts, UnchangedStays
  <2>. QED
    BY <1>2, <2>1
    DEF RunInv, HoldsFile, TakesApartOnlyStale, ReadsWhatItStamps, Progress, CleanupPC,
        FilePC, Rewriting, AfterRead, NoVectorsPC
<1>10. QED
  BY <1>6, <1>7, <1>8, <1>9, OneRunSuffices

(* A commit, or none, between two files: unchanged files have the same     *)
(* documents in the buffer and in the reader.                              *)
LEMMA NextFileInv ==
  ASSUME OneRunAtATime, IndInv, NEW r \in Runners, NextFile(r),
         docs' \in {buffered, docs}, buffered' = buffered,
         UNCHANGED <<diskVars, sqliteVars, vectors, faults>>
  PROVE  IndInv'
<1>1. /\ run' \in [Runners -> RunState] /\ run'[r].pc = "files"
      /\ run'[r].gone = {} /\ run'[r].stamp = Absent /\ run'[r].source = Absent
  BY NextFileFacts DEF IndInv
<1>2. UNCHANGED <<diskVars, fingerprint, symbols, vectors>>
  BY DEF sqliteVars
<1>3. TypeOK'
  BY <1>1 DEF IndInv, TypeOK, StoresTypeOK, diskVars, sqliteVars
<1>4. StampsArePast'
  BY <1>1, <1>2, StampsStay
<1>5. Vouched'
  BY <1>2, UnchangedStays DEF IndInv, Vouched
<1>6. RunInv(r)'
  BY <1>1
  DEF RunInv, HoldsFile, TakesApartOnlyStale, ReadsWhatItStamps, Progress, CleanupPC,
      FilePC, Rewriting, AfterRead, NoVectorsPC
<1>7. QED
  BY <1>3, <1>4, <1>5, <1>6, OneRunSuffices

LEMMA EndCleanupInv ==
  ASSUME OneRunAtATime, IndInv, NEW r \in Runners, EndCleanup(r)
  PROVE  IndInv'
  BY NextFileInv DEF EndCleanup, Commit, tantivyVars

LEMMA CloseFileInv ==
  ASSUME OneRunAtATime, IndInv, NEW r \in Runners, CloseFile(r)
  PROVE  IndInv'
  BY NextFileInv DEF CloseFile, Commit

-----------------------------------------------------------------------------
(* Restarts, and the whole of Next.                                        *)

LEMMA CrashInv ==
  ASSUME OneRunAtATime, IndInv, Crash
  PROVE  IndInv'
<1>1. /\ run' = [r \in Runners |-> Idle]
      /\ buffered' = docs /\ docs' = docs
      /\ UNCHANGED <<diskVars, sqliteVars, vectors>>
  BY DEF Crash, LoseBuffered
<1>2. faults' \in 0 .. MaxFaults
  BY FaultType DEF Crash, IndInv
<1>3. UNCHANGED <<diskVars, fingerprint, symbols, vectors>>
  BY <1>1 DEF sqliteVars
<1>4. run' \in [Runners -> RunState]
  BY <1>1, IdleType
<1>5. TypeOK'
  BY <1>1, <1>2, <1>4 DEF IndInv, TypeOK, StoresTypeOK, diskVars, sqliteVars
<1>6. \A r \in Runners : run'[r] = Idle
  BY <1>1
<1>7. StampsArePast'
  <2>1. 0 <= edits
    BY MaxEditsAssumption DEF IndInv, TypeOK, StoresTypeOK
  <2>. QED
    BY <1>3, <1>6, <2>1 DEF IndInv, StampsArePast, diskVars, Idle, Absent
<1>8. Vouched'
  BY <1>1, <1>3, UnchangedStays DEF IndInv, Vouched
<1>9. ASSUME NEW r \in Runners
      PROVE  RunInv(r)'
  <2>1. run'[r].pc = "idle" /\ run'[r].gone = {}
    BY <1>6 DEF Idle
  <2>. QED
    BY <2>1
    DEF RunInv, HoldsFile, TakesApartOnlyStale, ReadsWhatItStamps, Progress, CleanupPC,
        FilePC, Rewriting, AfterRead, NoVectorsPC
<1>10. QED
  BY <1>5, <1>7, <1>8, <1>9 DEF IndInv

LEMMA InitInv ==
  ASSUME Init
  PROVE  IndInv
<1>1. TypeOK
  BY IdleType, MaxEditsAssumption, MaxFaultsAssumption
  DEF Init, TypeOK, StoresInit, StoresTypeOK, Nowhere
<1>2. StampsArePast
  BY DEF Init, StoresInit, StampsArePast, Idle, Absent
<1>3. Vouched
  BY DEF Init, StoresInit, Vouched, Unchanged, Exists
<1>4. ASSUME NEW r \in Runners
      PROVE  RunInv(r)
  BY RestingRun DEF Init, Idle
<1>5. QED
  BY <1>1, <1>2, <1>3, <1>4 DEF IndInv

LEMMA RunStepInv ==
  ASSUME OneRunAtATime, IndInv, NEW r \in Runners, RunStep(r)
  PROVE  IndInv'
<1>1. CASE CleanupStep(r)
  BY <1>1, ListFingerprintsInv, CleanSymbolsInv, CleanFingerprintInv, CleanDocsInv,
     CleanVectorsInv, EndCleanupInv DEF CleanupStep
<1>2. CASE StatFile(r) \/ Compare(r) \/ ReadFile(r)
  BY <1>2, StatFileInv, CompareInv, ReadFileInv
<1>3. CASE DeleteOldDocs(r) \/ DeleteOldVectors(r) \/ DeleteOldRows(r) \/ Embed(r)
  BY <1>3, DeleteOldDocsInv, DeleteOldVectorsInv, DeleteOldRowsInv, EmbedInv
<1>4. CASE AddNewDocs(r) \/ CommitDocs(r) \/ UpsertRows(r) \/ RecordFingerprint(r)
  BY <1>4, AddNewDocsInv, CommitDocsInv, UpsertRowsInv, RecordFingerprintInv
<1>5. CASE AddNewVectors(r) \/ CloseFile(r)
  BY <1>5, AddNewVectorsInv, CloseFileInv
<1>6. CASE EndRun(r)
  BY <1>6, EndRunInv
<1>7. QED
  BY <1>1, <1>2, <1>3, <1>4, <1>5, <1>6 DEF RunStep, FileStep

LEMMA NextInv ==
  ASSUME OneRunAtATime, IndInv, [Next]_vars
  PROVE  IndInv'
<1>1. CASE UserStep
  BY <1>1, UserInv
<1>2. ASSUME NEW r \in Runners,
             \/ Scan(r) \/ ScanMissingFiles(r) \/ IndexPaths(r)
             \/ AddNewVectorsFails(r) \/ FailRun(r)
      PROVE  IndInv'
  <2>1. ~ScanMissingFiles(r)
    BY DEF ScanMissingFiles, Fault, OneRunAtATime
  <2>. QED
    BY <1>2, <2>1, ScanInv, IndexPathsInv, AddNewVectorsFailsInv, FailRunInv
<1>3. ASSUME NEW r \in Runners, RunStep(r)
      PROVE  IndInv'
  BY <1>3, RunStepInv
<1>4. CASE Crash
  BY <1>4, CrashInv
<1>5. CASE UNCHANGED vars
  <2>1. UNCHANGED <<diskVars, storeVars, run, faults>>
    BY <1>5 DEF vars
  <2>2. StoresTypeOK' /\ Vouched' /\ \A f \in Files : Unchanged(f)' <=> Unchanged(f)
    BY <2>1, VouchedStays
  <2>3. TypeOK' /\ StampsArePast'
    BY <2>1, <2>2 DEF IndInv, TypeOK, StampsArePast, diskVars, storeVars
  <2>4. ASSUME NEW r \in Runners
        PROVE  RunInv(r)'
    <3>1. RunInv(r) /\ run[r] \in RunState
      BY DEF IndInv, TypeOK
    <3>2. HoldsFile(r)' /\ ReadsWhatItStamps(r)' /\ Progress(r)'
      BY <2>1, <3>1 DEF RunInv, HoldsFile, ReadsWhatItStamps, Progress, diskVars, storeVars
    <3>3. TakesApartOnlyStale(r)'
      BY <2>1, <2>2, <3>1
      DEF RunInv, HoldsFile, TakesApartOnlyStale, RunState, Rewriting, CleanupPC, FilePC,
          diskVars
    <3>. QED
      BY <3>2, <3>3 DEF RunInv
  <2>. QED
    BY <2>2, <2>3, <2>4 DEF IndInv
<1>6. QED
  BY <1>1, <1>2, <1>3, <1>4, <1>5 DEF Next

-----------------------------------------------------------------------------
(* What the invariant gives.                                               *)

(* With one run at a time over readable directories, whatever fails and    *)
(* whenever the process restarts, every reachable state of the pipeline    *)
(* satisfies the inductive invariant.                                      *)
THEOREM RunsKeepIndInv == OneRunAtATime => (Spec => []IndInv)
<1>. SUFFICES ASSUME OneRunAtATime
              PROVE  Spec => []IndInv
  OBVIOUS
<1>1. Init => IndInv
  BY InitInv
<1>2. IndInv /\ [Next]_vars => IndInv'
  BY NextInv
<1>. QED
  BY <1>1, <1>2, PTL DEF Spec

(* Every variable of the pipeline and of its stores stays in its range.    *)
THEOREM TypeCorrect == OneRunAtATime => (Spec => []TypeOK)
<1>1. IndInv => TypeOK
  BY DEF IndInv
<1>. QED
  BY <1>1, RunsKeepIndInv, PTL

(* A file that later runs pass over as unchanged has in SQLite the symbols *)
(* of what is on disk, and no others.                                      *)
THEOREM UnchangedFilesHaveSymbols == OneRunAtATime => (Spec => []UnchangedHasSymbols)
<1>1. IndInv => UnchangedHasSymbols
  BY DEF IndInv, Vouched, UnchangedHasSymbols
<1>. QED
  BY <1>1, RunsKeepIndInv, PTL

(* Its documents are committed, and no pending delete will take them away. *)
THEOREM UnchangedFilesAreSearchable == OneRunAtATime => (Spec => []UnchangedIsSearchable)
<1>1. IndInv => UnchangedIsSearchable
  BY DEF IndInv, Vouched, UnchangedIsSearchable
<1>. QED
  BY <1>1, RunsKeepIndInv, PTL

(* Its vectors, where there are any, are those of what is on disk.         *)
THEOREM UnchangedFilesHaveNoStaleVectors == OneRunAtATime => (Spec => []UnchangedVectorsNotStale)
<1>1. IndInv => UnchangedVectorsNotStale
  BY DEF IndInv, Vouched, UnchangedVectorsNotStale
<1>. QED
  BY <1>1, RunsKeepIndInv, PTL

-----------------------------------------------------------------------------
(* The pipeline implements FreshIndex.                                     *)

LEMMA ServedIsUnchanged ==
  /\ IndInv => Served = {f \in Files : Unchanged(f)}
  /\ IndInv' => Served' = {f \in Files : Unchanged(f)'}
  BY DEF IndInv, Vouched, Served

(* An edit or a removal ends the file's being unchanged and no other's.    *)
LEMMA UserStepEndsService ==
  ASSUME IndInv, NEW f \in Files, Edit(f) \/ Remove(f)
  PROVE  \A g \in Files : Unchanged(g)' <=> Unchanged(g) /\ g # f
<1>1. /\ \A g \in Files : g # f => disk'[g] = disk[g]
      /\ disk'[f] = Absent \/ disk'[f] = edits + 1
      /\ fingerprint' = fingerprint
  BY DEF Edit, Remove, IndInv, TypeOK, StoresTypeOK, storeVars
<1>2. edits + 1 # fingerprint[f]
  BY DEF IndInv, StampsArePast, TypeOK, StoresTypeOK, Version, Absent
<1>. QED
  BY <1>1, <1>2 DEF Unchanged, Exists

LEMMA UserStepImplements ==
  ASSUME IndInv, IndInv', UserStep
  PROVE  Contract!Next
<1>1. PICK f \in Files : Edit(f) \/ Remove(f)
  BY DEF UserStep
<1>2. Served' = Served \ {f}
  BY <1>1, UserStepEndsService, ServedIsUnchanged
<1>3. Contract!Write(f) \/ Contract!Unlink(f)
  BY <1>1, <1>2 DEF Edit, Remove, Contract!Write, Contract!Unlink, Contract!Gone, Absent
<1>. QED
  BY <1>3 DEF Contract!Next

LEMMA RecordFingerprintImplements ==
  ASSUME IndInv, IndInv', NEW r \in Runners, RecordFingerprint(r)
  PROVE  Contract!Next \/ UNCHANGED Contract!vars
<1> DEFINE f == run[r].file
<1>1. /\ run[r].pc = "upsertFingerprint"
      /\ fingerprint' = [fingerprint EXCEPT ![f] = run[r].stamp]
      /\ disk' = disk /\ edits' = edits
  BY DEF RecordFingerprint, UpsertFingerprint, Step, At, diskVars
<1>2. /\ f \in Files /\ ~Unchanged(f) /\ run[r].stamp # Absent
      /\ disk[f] = run[r].stamp => disk[f] \notin Rejected \cup {Absent}
  BY <1>1, HeldFacts DEF FilePC, AfterRead, Rewriting, RunInv, ReadsWhatItStamps
<1>3. \A g \in Files : fingerprint'[g] = IF g = f THEN run[r].stamp ELSE fingerprint[g]
  BY <1>1, <1>2 DEF IndInv, TypeOK, StoresTypeOK
<1>4. CASE disk[f] = run[r].stamp
  <2>1. Served' = Served \cup {f} /\ f \notin Served
    BY <1>1, <1>2, <1>3, <1>4, ServedIsUnchanged DEF Unchanged, Exists
  <2>2. Contract!Publish(f)
    BY <1>1, <1>2, <1>4, <2>1 DEF Contract!Publish, Contract!Gone, Absent
  <2>. QED
    BY <1>2, <2>2 DEF Contract!Next
<1>5. CASE disk[f] # run[r].stamp
  <2>1. Served' = Served
    BY <1>1, <1>2, <1>3, <1>5, ServedIsUnchanged DEF Unchanged, Exists
  <2>. QED
    BY <1>1, <2>1 DEF Contract!vars
<1>. QED
  BY <1>4, <1>5

(* Every other step leaves the disk and what is unchanged as they are.     *)
LEMMA OtherStepsStutter ==
  ASSUME IndInv, IndInv', UNCHANGED <<disk, edits>>,
         \A f \in Files : Unchanged(f)' <=> Unchanged(f)
  PROVE  UNCHANGED Contract!vars
  BY ServedIsUnchanged DEF Contract!vars

LEMMA CleanFingerprintStutters ==
  ASSUME IndInv, IndInv', NEW r \in Runners, CleanFingerprint(r)
  PROVE  UNCHANGED Contract!vars
<1> DEFINE f == run[r].file
<1>1. /\ run[r].pc = "cleanFingerprint"
      /\ fingerprint' = [fingerprint EXCEPT ![f] = Absent]
      /\ disk' = disk /\ edits' = edits
  BY DEF CleanFingerprint, DeleteFingerprint, Step, At, diskVars
<1>2. f \in Files /\ ~Unchanged(f)
  BY <1>1, HeldFacts DEF RunInv, HoldsFile, TakesApartOnlyStale, CleanupPC
<1>3. \A g \in Files : Unchanged(g)' <=> Unchanged(g)
  BY <1>1, <1>2 DEF Unchanged, Exists, IndInv, TypeOK, StoresTypeOK
<1>. QED
  BY <1>1, <1>3, OtherStepsStutter

LEMMA RunStepKeepsFingerprints ==
  ASSUME NEW r \in Runners, RunStep(r), ~CleanFingerprint(r), ~RecordFingerprint(r)
  PROVE  UNCHANGED <<diskVars, fingerprint>>
<1>1. CASE CleanupStep(r)
  BY <1>1
  DEF CleanupStep, ListFingerprints, CleanSymbols, CleanDocs, CleanVectors, EndCleanup,
      sqliteVars, storeVars
<1>2. CASE StatFile(r) \/ Compare(r) \/ ReadFile(r) \/ Embed(r) \/ EndRun(r)
  BY <1>2 DEF StatFile, Compare, ReadFile, Embed, EndRun, storeVars
<1>3. CASE DeleteOldDocs(r) \/ DeleteOldVectors(r) \/ DeleteOldRows(r)
  BY <1>3 DEF DeleteOldDocs, DeleteOldVectors, DeleteOldRows, sqliteVars
<1>4. CASE AddNewDocs(r) \/ CommitDocs(r) \/ UpsertRows(r) \/ AddNewVectors(r) \/ CloseFile(r)
  BY <1>4 DEF AddNewDocs, CommitDocs, UpsertRows, AddNewVectors, CloseFile, sqliteVars
<1>. QED
  BY <1>1, <1>2, <1>3, <1>4 DEF RunStep, FileStep

LEMMA StepImplements ==
  ASSUME IndInv, IndInv', [Next]_vars
  PROVE  Contract!Next \/ UNCHANGED Contract!vars
<1>1. CASE UserStep
  BY <1>1, UserStepImplements
<1>2. ASSUME UNCHANGED <<diskVars, fingerprint>>
      PROVE  UNCHANGED Contract!vars
  <2>1. disk' = disk /\ edits' = edits /\ \A f \in Files : Unchanged(f)' <=> Unchanged(f)
    BY <1>2, UnchangedStays
  <2>. QED
    BY <2>1, OtherStepsStutter
<1>3. ASSUME NEW r \in Runners,
             \/ Scan(r) \/ ScanMissingFiles(r) \/ IndexPaths(r)
             \/ RunStep(r) \/ AddNewVectorsFails(r) \/ FailRun(r)
      PROVE  Contract!Next \/ UNCHANGED Contract!vars
  <2>1. CASE RecordFingerprint(r)
    BY <2>1, RecordFingerprintImplements
  <2>2. CASE CleanFingerprint(r)
    BY <2>2, CleanFingerprintStutters
  <2>3. CASE RunStep(r) /\ ~RecordFingerprint(r) /\ ~CleanFingerprint(r)
    BY <2>3, <1>2, RunStepKeepsFingerprints
  <2>4. CASE ~RunStep(r)
    <3>1. UNCHANGED <<diskVars, storeVars>>
      BY <1>3, <2>4 DEF Scan, ScanMissingFiles, IndexPaths, AddNewVectorsFails, FailRun
    <3>. QED
      BY <1>2, <3>1 DEF storeVars
  <2>. QED
    BY <2>1, <2>2, <2>3, <2>4
<1>4. CASE Crash
  BY <1>2, <1>4 DEF Crash, sqliteVars
<1>5. CASE UNCHANGED vars
  BY <1>2, <1>5 DEF vars, storeVars
<1>. QED
  BY <1>1, <1>3, <1>4, <1>5 DEF Next

(* The pipeline implements the contract of FreshIndex: a file once served  *)
(* is served until it changes, and becomes so by one publication.          *)
THEOREM RunsImplementFreshIndex == OneRunAtATime => (Spec => ImplementsFreshIndex)
<1>. SUFFICES ASSUME OneRunAtATime
              PROVE  Spec => ImplementsFreshIndex
  OBVIOUS
<1>1. Init => Contract!Init
  BY DEF Init, StoresInit, Contract!Init, Contract!Gone, Served, Unchanged, Exists, Absent
<1>2. IndInv /\ IndInv' /\ [Next]_vars => [Contract!Next]_(Contract!vars)
  BY StepImplements
<1>3. Spec => []IndInv
  BY RunsKeepIndInv
<1>. QED
  BY <1>1, <1>2, <1>3, PTL DEF Spec, ImplementsFreshIndex, Contract!Spec

-----------------------------------------------------------------------------
(* The vectors, which arrive after the fingerprint.  Here directories may  *)
(* be unreadable and statements may return errors; what must not happen is *)
(* that the table refuses the vectors or that the process stops before     *)
(* they are in.                                                            *)

VectorsAlwaysArrive ==
    (\A r, s \in Runners : r = s) /\ FaultKinds \subseteq {"read_dir", "error"}

HasVectors(f) == Unchanged(f) => vectors[f] = {disk[f]}

VectorsToCome(f) == \E r \in Runners : At(r, "addVectors") /\ run[r].file = f

(* What a run knows about the file in its hands.  Cleanup deletes vectors  *)
(* after the fingerprint, so even a file it has mistaken for a deleted one *)
(* does not count as unchanged without them.                               *)
InHand(r) ==
    /\ run[r].pc \in (CleanupPC \ {"clean"}) \cup FilePC => run[r].file \in Files
    /\ run[r].pc \in FilePC => run[r].stamp # Absent
    /\ run[r].pc \in {"cleanDocs", "cleanVectors"} \cup Rewriting => ~Unchanged(run[r].file)
    /\ run[r].pc = "compare" => disk[run[r].file] = run[r].stamp \/ ~Unchanged(run[r].file)
    /\ ReadsWhatItStamps(r)
    /\ run[r].pc \in NoVectorsPC => vectors[run[r].file] = {}
    /\ run[r].pc = "addVectors" => fingerprint[run[r].file] = run[r].stamp

ArrivalInv ==
    /\ TypeOK
    /\ StampsArePast
    /\ \A r \in Runners : InHand(r)
    /\ \A f \in Files : HasVectors(f) \/ VectorsToCome(f)

LEMMA ArrivalParts ==
  ASSUME VectorsAlwaysArrive, NEW r \in Runners, TypeOK', StampsArePast', InHand(r)',
         \A f \in Files : HasVectors(f)' \/ (run'[r].pc = "addVectors" /\ run'[r].file = f)
  PROVE  ArrivalInv'
<1>1. \A s \in Runners : s = r
  BY DEF VectorsAlwaysArrive
<1>2. \A f \in Files : HasVectors(f)' \/ VectorsToCome(f)'
  BY DEF VectorsToCome, At
<1> QED
  BY <1>1, <1>2 DEF ArrivalInv

LEMMA StampsStillPast ==
  ASSUME VectorsAlwaysArrive, ArrivalInv, NEW r \in Runners, UNCHANGED diskVars,
         \A f \in Files : fingerprint'[f] <= edits,
         run'[r].stamp <= edits, run'[r].source <= edits
  PROVE  StampsArePast'
<1>1. \A s \in Runners : s = r
  BY DEF VectorsAlwaysArrive
<1> QED
  BY <1>1 DEF ArrivalInv, StampsArePast, diskVars

(* Steps that touch neither fingerprints nor vectors.                      *)
LEMMA ArrivalKept ==
  ASSUME VectorsAlwaysArrive, ArrivalInv, NEW r \in Runners, run[r].pc # "addVectors",
         run' \in [Runners -> RunState], run'[r].stamp <= edits, run'[r].source <= edits,
         UNCHANGED <<diskVars, fingerprint, vectors>>, StoresTypeOK',
         faults' \in 0 .. MaxFaults, InHand(r)'
  PROVE  ArrivalInv'
<1>1. TypeOK'
  BY DEF TypeOK
<1>2. \A f \in Files : ~VectorsToCome(f)
  BY DEF VectorsToCome, At, VectorsAlwaysArrive
<1>3. \A f \in Files : HasVectors(f)'
  BY <1>2, UnchangedStays DEF ArrivalInv, HasVectors
<1>4. StampsArePast'
  BY StampsStillPast DEF ArrivalInv, StampsArePast
<1> QED
  BY <1>1, <1>3, <1>4, ArrivalParts

LEMMA NothingInHand ==
  ASSUME NEW r \in Runners, run'[r].pc \in {"idle", "list", "files", "clean"}
  PROVE  InHand(r)'
  BY DEF InHand, ReadsWhatItStamps, AfterRead, NoVectorsPC, CleanupPC, FilePC, Rewriting

LEMMA HandFacts ==
  ASSUME ArrivalInv, NEW r \in Runners
  PROVE  /\ run[r] \in RunState /\ InHand(r)
         /\ run[r].stamp <= edits /\ run[r].source <= edits /\ 0 <= edits
         /\ edits \in Nat
  BY MaxEditsAssumption DEF ArrivalInv, TypeOK, StoresTypeOK, StampsArePast

(* A run that begins, ends or goes on to its next file.                    *)
LEMMA RestingArrival ==
  ASSUME VectorsAlwaysArrive, ArrivalInv, NEW r \in Runners, run[r].pc # "addVectors",
         UNCHANGED <<diskVars, fingerprint, vectors>>, StoresTypeOK',
         faults' \in 0 .. MaxFaults,
         run' \in [Runners -> RunState], run'[r].pc \in {"idle", "list", "files", "clean"},
         run'[r].stamp \in {run[r].stamp, Absent}, run'[r].source \in {run[r].source, Absent}
  PROVE  ArrivalInv'
<1>1. run'[r].stamp <= edits /\ run'[r].source <= edits
  BY HandFacts DEF Absent
<1> QED
  BY <1>1, NothingInHand, ArrivalKept

LEMMA StoresStay ==
  ASSUME ArrivalInv, UNCHANGED <<diskVars, storeVars>>
  PROVE  StoresTypeOK' /\ UNCHANGED <<fingerprint, vectors>>
  BY DEF ArrivalInv, TypeOK, StoresTypeOK, diskVars, storeVars

(* The steps between the read and the fingerprint that leave the vectors   *)
(* alone.                                                                  *)
LEMMA WorkingArrival ==
  ASSUME VectorsAlwaysArrive, ArrivalInv, NEW r \in Runners,
         NEW from \in Rewriting \ {"read"}, NEW to \in Rewriting \ {"read"},
         Step(r, from, to), to \in NoVectorsPC => from \in NoVectorsPC,
         UNCHANGED <<diskVars, fingerprint, vectors, faults>>, StoresTypeOK'
  PROVE  ArrivalInv'
<1>1. from \in PC /\ to \in PC /\ from \in AfterRead /\ to \in AfterRead
  BY DEF Rewriting, PC, FilePC, AfterRead
<1>2. /\ run' \in [Runners -> RunState] /\ run[r].pc = from /\ run'[r].pc = to
      /\ run'[r].file = run[r].file
      /\ run'[r].stamp = run[r].stamp /\ run'[r].source = run[r].source
  BY <1>1, StepFacts DEF ArrivalInv
<1>3. run'[r].stamp <= edits /\ run'[r].source <= edits /\ InHand(r)
  BY <1>2, HandFacts
<1>4. run[r].file \in Files /\ run[r].stamp # Absent /\ ~Unchanged(run[r].file)
  BY <1>1, <1>2, <1>3 DEF InHand, AfterRead
<1>5. disk' = disk /\ ~Unchanged(run[r].file)'
  BY <1>2, <1>4, UnchangedStays
<1>6. to \notin {"compare", "addVectors"} /\ from # "addVectors"
  BY DEF Rewriting
<1>7. ReadsWhatItStamps(r)'
  BY <1>1, <1>2, <1>3, <1>5 DEF InHand, ReadsWhatItStamps
<1>8. InHand(r)'
  BY <1>2, <1>3, <1>4, <1>5, <1>6, <1>7 DEF InHand
<1>9. faults' \in 0 .. MaxFaults
  BY DEF ArrivalInv, TypeOK
<1> QED
  BY <1>2, <1>3, <1>6, <1>8, <1>9, ArrivalKept

-----------------------------------------------------------------------------
(* The steps of the user, of failures and between files. *)

LEMMA UserArrival ==
  ASSUME ArrivalInv, UserStep
  PROVE  ArrivalInv'
<1>1. PICK f \in Files : (Edit(f) \/ Remove(f)) /\ UNCHANGED <<run, faults>>
  BY DEF UserStep
<1>2. /\ edits \in Nat /\ edits' \in 0 .. MaxEdits /\ edits <= edits'
      /\ disk' \in [Files -> Version \cup {Absent}]
  BY <1>1, MaxEditsAssumption
  DEF Edit, Remove, ArrivalInv, TypeOK, StoresTypeOK, Version, Absent
<1>3. /\ \A g \in Files : g # f => disk'[g] = disk[g]
      /\ disk'[f] = Absent \/ (disk'[f] = edits + 1 /\ edits' = edits + 1)
      /\ UNCHANGED storeVars
  BY <1>1 DEF Edit, Remove, ArrivalInv, TypeOK, StoresTypeOK
<1>4. \A g \in Files : Unchanged(g)' => Unchanged(g) /\ g # f
  BY <1>3 DEF Unchanged, Exists, storeVars, ArrivalInv, StampsArePast, TypeOK, StoresTypeOK,
     Version, Absent
<1>5. TypeOK'
  BY <1>1, <1>2, <1>3 DEF ArrivalInv, TypeOK, StoresTypeOK, storeVars
<1>6. StampsArePast'
  BY <1>1, <1>2, <1>3
  DEF ArrivalInv, StampsArePast, TypeOK, StoresTypeOK, RunState, storeVars, Version, Absent
<1>7. ASSUME NEW g \in Files
      PROVE  HasVectors(g)' \/ VectorsToCome(g)'
  BY <1>1, <1>3, <1>4 DEF ArrivalInv, HasVectors, VectorsToCome, At, storeVars
<1>8. ASSUME NEW r \in Runners
      PROVE  InHand(r)'
  <2>1. InHand(r) /\ run[r] \in RunState /\ run' = run
    BY <1>1 DEF ArrivalInv, TypeOK
  <2>2. run[r].pc \in FilePC /\ disk'[run[r].file] = run[r].stamp
           => disk[run[r].file] = run[r].stamp
    BY <1>3, <2>1
    DEF ArrivalInv, StampsArePast, TypeOK, StoresTypeOK, RunState, Version, Absent, InHand
  <2>3. ReadsWhatItStamps(r)'
    BY <2>1, <2>2 DEF InHand, ReadsWhatItStamps, FilePC, AfterRead
  <2>4. run[r].pc \in {"cleanDocs", "cleanVectors"} \cup Rewriting => ~Unchanged(run[r].file)'
    BY <2>1, <1>4 DEF InHand, Rewriting, FilePC, CleanupPC
  <2>5. run[r].pc = "compare" =>
           disk'[run[r].file] = run[r].stamp \/ ~Unchanged(run[r].file)'
    BY <2>1, <1>3, <1>4 DEF InHand, FilePC
  <2>6. fingerprint' = fingerprint /\ vectors' = vectors
    BY <1>3 DEF storeVars
  <2> QED
    BY <2>1, <2>3, <2>4, <2>5, <2>6 DEF InHand
<1> QED
  BY <1>5, <1>6, <1>7, <1>8 DEF ArrivalInv

LEMMA BeginArrival ==
  ASSUME VectorsAlwaysArrive, ArrivalInv, NEW r \in Runners,
         Scan(r) \/ ScanMissingFiles(r) \/ IndexPaths(r)
  PROVE  ArrivalInv'
<1>1. PICK found \in SUBSET Files, label \in {"list", "files"} :
         run' = [run EXCEPT ![r] = [Idle EXCEPT !.pc = label, !.todo = found]]
  <2>1. CASE Scan(r)
    BY <2>1 DEF Scan
  <2>2. CASE ScanMissingFiles(r)
    BY <2>2 DEF ScanMissingFiles
  <2>3. CASE IndexPaths(r)
    <3>1. PICK paths \in SUBSET Files :
             run' = [run EXCEPT ![r] = [Idle EXCEPT !.pc = "files",
                                           !.todo = {f \in paths : Exists(f)}]]
      BY <2>3 DEF IndexPaths
    <3> QED
      BY <3>1
  <2> QED
    BY <2>1, <2>2, <2>3
<1>2. /\ run' \in [Runners -> RunState] /\ run'[r].pc = label
      /\ run'[r].stamp = Absent /\ run'[r].source = Absent
  BY <1>1, NoFileAssumption DEF ArrivalInv, TypeOK, RunState, Idle, PC, Absent
<1>3. UNCHANGED <<diskVars, storeVars>> /\ run[r].pc = "idle"
  BY DEF Scan, ScanMissingFiles, IndexPaths, At
<1>4. faults' \in 0 .. MaxFaults
  BY FaultType DEF Scan, ScanMissingFiles, IndexPaths, ArrivalInv, TypeOK
<1> QED
  BY <1>2, <1>3, <1>4, StoresStay, RestingArrival

LEMMA EndArrival ==
  ASSUME VectorsAlwaysArrive, ArrivalInv, NEW r \in Runners, EndRun(r) \/ FailRun(r)
  PROVE  ArrivalInv'
<1>1. /\ run' = [run EXCEPT ![r] = Idle] /\ UNCHANGED <<diskVars, storeVars>>
      /\ run[r].pc # "addVectors"
  BY DEF EndRun, FailRun, At, FalliblePC
<1>2. faults' \in 0 .. MaxFaults
  BY FaultType DEF EndRun, FailRun, ArrivalInv, TypeOK
<1> QED
  BY <1>1, <1>2, IdleFacts, StoresStay, RestingArrival DEF ArrivalInv

LEMMA NextFileArrival ==
  ASSUME VectorsAlwaysArrive, ArrivalInv, NEW r \in Runners, NextFile(r),
         run[r].pc # "addVectors", docs' \in {buffered, docs}, buffered' = buffered,
         UNCHANGED <<diskVars, sqliteVars, vectors, faults>>
  PROVE  ArrivalInv'
<1>1. /\ run' \in [Runners -> RunState] /\ run'[r].pc = "files"
      /\ run'[r].stamp = Absent /\ run'[r].source = Absent
  BY NextFileFacts DEF ArrivalInv
<1>2. StoresTypeOK' /\ UNCHANGED <<fingerprint, vectors>> /\ faults' \in 0 .. MaxFaults
  BY DEF ArrivalInv, TypeOK, StoresTypeOK, diskVars, sqliteVars
<1> QED
  BY <1>1, <1>2, RestingArrival

LEMMA SkippedFileArrival ==
  ASSUME VectorsAlwaysArrive, ArrivalInv, NEW r \in Runners, NextFile(r),
         run[r].pc # "addVectors", UNCHANGED <<diskVars, storeVars, faults>>
  PROVE  ArrivalInv'
  BY NextFileArrival DEF storeVars, sqliteVars
-----------------------------------------------------------------------------
(* Cleanup. *)

LEMMA ListArrival ==
  ASSUME VectorsAlwaysArrive, ArrivalInv, NEW r \in Runners, ListFingerprints(r)
  PROVE  ArrivalInv'
<1>1. /\ run' \in [Runners -> RunState] /\ run'[r].pc = "clean"
      /\ run'[r].stamp = run[r].stamp /\ run'[r].source = run[r].source
  <2> DEFINE new == [run[r] EXCEPT !.pc = "clean", !.gone = Fingerprinted \ run[r].todo]
  <2>1. run[r] \in RunState
    BY HandFacts
  <2>2. new \in RunState
    BY <2>1 DEF RunState, PC, CleanupPC, Fingerprinted
  <2>3. run' = [run EXCEPT ![r] = new]
    BY <2>1 DEF ListFingerprints, ArrivalInv, TypeOK
  <2>4. run'[r] = new /\ run' \in [Runners -> RunState]
    BY <2>2, <2>3 DEF ArrivalInv, TypeOK
  <2> QED
    BY <2>1, <2>4 DEF RunState
<1>2. UNCHANGED <<diskVars, storeVars, faults>> /\ run[r].pc = "list"
  BY DEF ListFingerprints, At
<1> QED
  BY <1>1, <1>2, StoresStay, RestingArrival DEF ArrivalInv, TypeOK

LEMMA CleanSymbolsArrival ==
  ASSUME VectorsAlwaysArrive, ArrivalInv, NEW r \in Runners, CleanSymbols(r)
  PROVE  ArrivalInv'
<1>1. PICK f \in run[r].gone :
         /\ DeleteSymbolsByFile(f)
         /\ run' = [run EXCEPT ![r].pc = "cleanFingerprint", ![r].file = f,
                               ![r].gone = @ \ {f}]
  BY DEF CleanSymbols
<1>2. UNCHANGED <<diskVars, fingerprint, patterns, tantivyVars, vectors, faults>>
      /\ run[r].pc = "clean"
  BY DEF CleanSymbols, At
<1>3. f \in Files /\ run[r] \in RunState
  BY <1>1, HandFacts DEF RunState
<1>4. /\ run' \in [Runners -> RunState] /\ run'[r].pc = "cleanFingerprint"
      /\ run'[r].file = f
      /\ run'[r].stamp = run[r].stamp /\ run'[r].source = run[r].source
  <2> DEFINE new == [run[r] EXCEPT !.pc = "cleanFingerprint", !.file = f,
                                   !.gone = @ \ {f}]
  <2>1. new \in RunState
    BY <1>3 DEF RunState, PC, CleanupPC
  <2>2. run' = [run EXCEPT ![r] = new]
    BY <1>1, <1>3 DEF ArrivalInv, TypeOK
  <2>3. run'[r] = new /\ run' \in [Runners -> RunState]
    BY <2>1, <2>2 DEF ArrivalInv, TypeOK
  <2> QED
    BY <1>3, <2>3 DEF RunState
<1>5. StoresTypeOK' /\ faults' \in 0 .. MaxFaults
  BY <1>1, <1>2, <1>3
  DEF ArrivalInv, TypeOK, StoresTypeOK, DeleteSymbolsByFile, diskVars, tantivyVars
<1>6. InHand(r)'
  BY <1>3, <1>4
  DEF InHand, ReadsWhatItStamps, AfterRead, NoVectorsPC, CleanupPC, FilePC, Rewriting
<1>7. run'[r].stamp <= edits /\ run'[r].source <= edits
  BY <1>4, HandFacts
<1> QED
  BY <1>2, <1>4, <1>5, <1>6, <1>7, ArrivalKept

(* The fingerprint goes first: from here on the file is not unchanged.     *)
LEMMA CleanFingerprintArrival ==
  ASSUME VectorsAlwaysArrive, ArrivalInv, NEW r \in Runners, CleanFingerprint(r)
  PROVE  ArrivalInv'
<1> DEFINE f == run[r].file
<1>1. /\ Step(r, "cleanFingerprint", "cleanDocs")
      /\ fingerprint' = [fingerprint EXCEPT ![f] = Absent]
      /\ UNCHANGED <<diskVars, symbols, patterns, testLinks, tantivyVars, vectors, faults>>
  BY DEF CleanFingerprint, DeleteFingerprint
<1>2. /\ run' \in [Runners -> RunState]
      /\ run[r].pc = "cleanFingerprint" /\ run'[r].pc = "cleanDocs"
      /\ run'[r].file = f
      /\ run'[r].stamp = run[r].stamp /\ run'[r].source = run[r].source
  BY <1>1, StepFacts DEF ArrivalInv, PC, CleanupPC
<1>3. f \in Files
  BY <1>2, HandFacts DEF InHand, CleanupPC
<1>4. \A g \in Files : fingerprint'[g] = IF g = f THEN Absent ELSE fingerprint[g]
  BY <1>1, <1>3 DEF ArrivalInv, TypeOK, StoresTypeOK
<1>5. TypeOK'
  BY <1>1, <1>2, <1>4 DEF ArrivalInv, TypeOK, StoresTypeOK, diskVars, tantivyVars
<1>6. disk' = disk /\ vectors' = vectors
  BY <1>1 DEF diskVars
<1>7. \A g \in Files : fingerprint'[g] <= edits
  BY <1>4, HandFacts DEF ArrivalInv, StampsArePast, Absent
<1>8. StampsArePast'
  BY <1>1, <1>2, <1>7, HandFacts, StampsStillPast
<1>9. \A g \in Files : Unchanged(g)' => Unchanged(g) /\ g # f
  BY <1>3, <1>4, <1>6 DEF Unchanged, Exists
<1>10. InHand(r)'
  BY <1>2, <1>3, <1>9
  DEF InHand, ReadsWhatItStamps, AfterRead, NoVectorsPC, CleanupPC, FilePC, Rewriting
<1>11. \A g \in Files : ~VectorsToCome(g)
  BY <1>2 DEF VectorsToCome, At, VectorsAlwaysArrive
<1>12. \A g \in Files : HasVectors(g)'
  BY <1>6, <1>9, <1>11 DEF ArrivalInv, HasVectors
<1> QED
  BY <1>5, <1>8, <1>10, <1>12, ArrivalParts

LEMMA CleanDocsArrival ==
  ASSUME VectorsAlwaysArrive, ArrivalInv, NEW r \in Runners, CleanDocs(r)
  PROVE  ArrivalInv'
<1> DEFINE f == run[r].file
<1>1. /\ Step(r, "cleanDocs", "cleanVectors")
      /\ buffered' = [buffered EXCEPT ![f] = {}] /\ docs' = docs
      /\ UNCHANGED <<diskVars, sqliteVars, vectors, faults>>
  BY DEF CleanDocs, DeleteDocs
<1>2. /\ run' \in [Runners -> RunState]
      /\ run[r].pc = "cleanDocs" /\ run'[r].pc = "cleanVectors"
      /\ run'[r].file = f
      /\ run'[r].stamp = run[r].stamp /\ run'[r].source = run[r].source
  BY <1>1, StepFacts DEF ArrivalInv, PC, CleanupPC
<1>3. f \in Files /\ ~Unchanged(f)
  BY <1>2, HandFacts DEF InHand, CleanupPC
<1>4. UNCHANGED <<diskVars, fingerprint, vectors>>
  BY <1>1 DEF sqliteVars
<1>5. StoresTypeOK' /\ faults' \in 0 .. MaxFaults
  BY <1>1, <1>3 DEF ArrivalInv, TypeOK, StoresTypeOK, diskVars, sqliteVars
<1>6. ~Unchanged(f)'
  BY <1>2, <1>3, <1>4, UnchangedStays
<1>7. InHand(r)'
  BY <1>2, <1>3, <1>6
  DEF InHand, ReadsWhatItStamps, AfterRead, NoVectorsPC, CleanupPC, FilePC, Rewriting
<1>8. run'[r].stamp <= edits /\ run'[r].source <= edits
  BY <1>2, HandFacts
<1> QED
  BY <1>2, <1>4, <1>5, <1>7, <1>8, ArrivalKept

(* The vectors of a file that is not unchanged are deleted.                *)
LEMMA DeletedVectorsArrival ==
  ASSUME VectorsAlwaysArrive, ArrivalInv, NEW r \in Runners, NEW f \in Files, ~Unchanged(f),
         run[r].pc # "addVectors", vectors' = [vectors EXCEPT ![f] = {}],
         UNCHANGED <<diskVars, sqliteVars, tantivyVars, faults>>,
         run' \in [Runners -> RunState],
         run'[r].stamp = run[r].stamp, run'[r].source = run[r].source, InHand(r)'
  PROVE  ArrivalInv'
<1>1. \A g \in Files : vectors'[g] = IF g = f THEN {} ELSE vectors[g]
  BY DEF ArrivalInv, TypeOK, StoresTypeOK
<1>2. UNCHANGED <<diskVars, fingerprint>>
  BY DEF sqliteVars
<1>3. TypeOK'
  BY <1>1 DEF ArrivalInv, TypeOK, StoresTypeOK, diskVars, sqliteVars, tantivyVars
<1>4. StampsArePast'
  BY <1>2, HandFacts, StampsStillPast DEF ArrivalInv, StampsArePast
<1>5. \A g \in Files : ~VectorsToCome(g)
  BY DEF VectorsToCome, At, VectorsAlwaysArrive
<1>6. \A g \in Files : HasVectors(g)'
  BY <1>1, <1>2, <1>5, UnchangedStays DEF ArrivalInv, HasVectors
<1> QED
  BY <1>3, <1>4, <1>6, ArrivalParts

LEMMA CleanVectorsArrival ==
  ASSUME VectorsAlwaysArrive, ArrivalInv, NEW r \in Runners, CleanVectors(r)
  PROVE  ArrivalInv'
<1> DEFINE f == run[r].file
<1>1. /\ run[r].pc = "cleanVectors"
      /\ vectors' = [vectors EXCEPT ![f] = {}]
      /\ run' = [run EXCEPT ![r].pc = "clean", ![r].file = NoFile, ![r].cleaned = TRUE]
      /\ UNCHANGED <<diskVars, sqliteVars, tantivyVars, faults>>
  BY DEF CleanVectors, DeleteVectors, At
<1>2. /\ run' \in [Runners -> RunState] /\ run'[r].pc = "clean"
      /\ run'[r].stamp = run[r].stamp /\ run'[r].source = run[r].source
  <2> DEFINE new == [run[r] EXCEPT !.pc = "clean", !.file = NoFile, !.cleaned = TRUE]
  <2>1. run[r] \in RunState
    BY HandFacts
  <2>2. new \in RunState
    BY <2>1 DEF RunState, PC, CleanupPC
  <2>3. run' = [run EXCEPT ![r] = new]
    BY <1>1, <2>1 DEF ArrivalInv, TypeOK
  <2>4. run'[r] = new /\ run' \in [Runners -> RunState]
    BY <2>2, <2>3 DEF ArrivalInv, TypeOK
  <2> QED
    BY <2>1, <2>4 DEF RunState
<1>3. f \in Files /\ ~Unchanged(f)
  BY <1>1, HandFacts DEF InHand, CleanupPC
<1>4. InHand(r)'
  BY <1>2, NothingInHand
<1> QED
  BY <1>1, <1>2, <1>3, <1>4, DeletedVectorsArrival

LEMMA EndCleanupArrival ==
  ASSUME VectorsAlwaysArrive, ArrivalInv, NEW r \in Runners, EndCleanup(r)
  PROVE  ArrivalInv'
  BY NextFileArrival DEF EndCleanup, At, Commit, tantivyVars
-----------------------------------------------------------------------------
(* One file. *)

LEMMA StatFileArrival ==
  ASSUME VectorsAlwaysArrive, ArrivalInv, NEW r \in Runners, StatFile(r)
  PROVE  ArrivalInv'
<1>1. PICK f \in run[r].todo :
         run' = [run EXCEPT ![r].todo = @ \ {f},
                            ![r].pc = IF Exists(f) THEN "compare" ELSE "files",
                            ![r].file = IF Exists(f) THEN f ELSE NoFile,
                            ![r].stamp = disk[f]]
  BY DEF StatFile
<1>2. f \in Files /\ disk[f] \in Version \cup {Absent} /\ disk[f] <= edits
  BY <1>1 DEF ArrivalInv, TypeOK, StoresTypeOK, RunState, StampsArePast
<1>3. /\ run' \in [Runners -> RunState]
      /\ run'[r].pc = (IF Exists(f) THEN "compare" ELSE "files")
      /\ run'[r].file = (IF Exists(f) THEN f ELSE NoFile)
      /\ run'[r].stamp = disk[f] /\ run'[r].source = run[r].source
  <2> DEFINE new == [run[r] EXCEPT !.todo = @ \ {f},
                                   !.pc = IF Exists(f) THEN "compare" ELSE "files",
                                   !.file = IF Exists(f) THEN f ELSE NoFile,
                                   !.stamp = disk[f]]
  <2>1. run[r] \in RunState
    BY HandFacts
  <2>2. new \in RunState
    BY <1>2, <2>1, NoFileAssumption DEF RunState, PC, FilePC
  <2>3. run' = [run EXCEPT ![r] = new]
    BY <1>1, <2>1 DEF ArrivalInv, TypeOK
  <2>4. run'[r] = new /\ run' \in [Runners -> RunState]
    BY <2>2, <2>3 DEF ArrivalInv, TypeOK
  <2> QED
    BY <2>1, <2>4 DEF RunState
<1>4. UNCHANGED <<diskVars, storeVars, faults>> /\ run[r].pc = "files"
  BY DEF StatFile, At
<1>5. run'[r].stamp <= edits /\ run'[r].source <= edits /\ faults' \in 0 .. MaxFaults
  BY <1>2, <1>3, <1>4, HandFacts DEF ArrivalInv, TypeOK
<1>6. InHand(r)'
  <2>1. CASE Exists(f)
    <3>1. /\ run'[r].pc = "compare" /\ run'[r].file = f /\ disk'[f] = run'[r].stamp
          /\ run'[r].stamp # Absent
      BY <1>3, <1>4, <2>1 DEF diskVars, Exists
    <3> QED
      BY <1>2, <3>1
      DEF InHand, ReadsWhatItStamps, AfterRead, NoVectorsPC, CleanupPC, FilePC, Rewriting
  <2>2. CASE ~Exists(f)
    BY <1>3, <2>2, NothingInHand
  <2> QED
    BY <2>1, <2>2
<1> QED
  BY <1>3, <1>4, <1>5, <1>6, StoresStay, ArrivalKept

LEMMA CompareArrival ==
  ASSUME VectorsAlwaysArrive, ArrivalInv, NEW r \in Runners, Compare(r)
  PROVE  ArrivalInv'
<1>1. UNCHANGED <<diskVars, storeVars, faults>> /\ run[r].pc = "compare"
  BY DEF Compare, At
<1>2. CASE NextFile(r)
  BY <1>1, <1>2, SkippedFileArrival
<1>3. CASE Step(r, "compare", "read") /\ fingerprint[run[r].file] # run[r].stamp
  <2>1. /\ run' \in [Runners -> RunState] /\ run'[r].pc = "read"
        /\ run'[r].file = run[r].file
        /\ run'[r].stamp = run[r].stamp /\ run'[r].source = run[r].source
    BY <1>3, StepFacts DEF ArrivalInv, PC, FilePC
  <2>2. run[r].file \in Files /\ run[r].stamp # Absent /\ ~Unchanged(run[r].file)
    BY <1>1, <1>3, HandFacts DEF InHand, FilePC, Unchanged
  <2>3. ~Unchanged(run[r].file)'
    BY <1>1, <2>1, <2>2, StoresStay, UnchangedStays
  <2>4. InHand(r)'
    BY <2>1, <2>2, <2>3
    DEF InHand, ReadsWhatItStamps, AfterRead, NoVectorsPC, CleanupPC, FilePC, Rewriting
  <2>5. run'[r].stamp <= edits /\ run'[r].source <= edits /\ faults' \in 0 .. MaxFaults
    BY <1>1, <2>1, HandFacts DEF ArrivalInv, TypeOK
  <2> QED
    BY <1>1, <2>1, <2>4, <2>5, StoresStay, ArrivalKept
<1> QED
  BY <1>2, <1>3 DEF Compare

LEMMA ReadFileArrival ==
  ASSUME VectorsAlwaysArrive, ArrivalInv, NEW r \in Runners, ReadFile(r)
  PROVE  ArrivalInv'
<1> DEFINE f == run[r].file
<1>1. UNCHANGED <<diskVars, storeVars, faults>> /\ run[r].pc = "read"
  BY DEF ReadFile, At
<1>2. CASE NextFile(r)
  BY <1>1, <1>2, SkippedFileArrival
<1>3. CASE /\ Exists(f) /\ disk[f] \notin Rejected
           /\ run' = [run EXCEPT ![r].pc = "deleteDocs", ![r].source = disk[f]]
  <2>1. f \in Files /\ run[r].stamp # Absent /\ ~Unchanged(f)
    BY <1>1, HandFacts DEF InHand, FilePC, Rewriting
  <2>2. disk[f] \in Version \cup {Absent} /\ disk[f] <= edits
    BY <2>1 DEF ArrivalInv, TypeOK, StoresTypeOK, StampsArePast
  <2>3. /\ run' \in [Runners -> RunState] /\ run'[r].pc = "deleteDocs" /\ run'[r].file = f
        /\ run'[r].stamp = run[r].stamp /\ run'[r].source = disk[f]
    <3> DEFINE new == [run[r] EXCEPT !.pc = "deleteDocs", !.source = disk[f]]
    <3>1. run[r] \in RunState
      BY HandFacts
    <3>2. new \in RunState
      BY <2>2, <3>1 DEF RunState, PC, FilePC
    <3>3. run' = [run EXCEPT ![r] = new]
      BY <1>3, <3>1 DEF ArrivalInv, TypeOK
    <3>4. run'[r] = new /\ run' \in [Runners -> RunState]
      BY <3>2, <3>3 DEF ArrivalInv, TypeOK
    <3> QED
      BY <3>1, <3>4 DEF RunState
  <2>4. ~Unchanged(f)' /\ disk' = disk
    BY <1>1, <2>1, <2>3, StoresStay, UnchangedStays
  <2>5. InHand(r)'
    BY <1>3, <2>1, <2>3, <2>4
    DEF InHand, ReadsWhatItStamps, AfterRead, NoVectorsPC, CleanupPC, FilePC, Rewriting, Exists
  <2>6. run'[r].stamp <= edits /\ run'[r].source <= edits /\ faults' \in 0 .. MaxFaults
    BY <1>1, <2>2, <2>3, HandFacts DEF ArrivalInv, TypeOK
  <2> QED
    BY <1>1, <2>3, <2>5, <2>6, StoresStay, ArrivalKept
<1> QED
  BY <1>2, <1>3 DEF ReadFile

(* The documents and rows are taken out and put in.                        *)
LEMMA WorkingStepArrival ==
  ASSUME VectorsAlwaysArrive, ArrivalInv, NEW r \in Runners,
         \/ DeleteOldDocs(r) \/ DeleteOldRows(r) \/ Embed(r) \/ AddNewDocs(r)
         \/ CommitDocs(r) \/ UpsertRows(r)
  PROVE  ArrivalInv'
<1> DEFINE f == run[r].file
           v == run[r].source
           labels == {"deleteDocs", "deleteVectors", "deleteRows", "embed", "addDocs",
                      "commitDocs", "upsertRows", "upsertFingerprint"}
<1>1. labels = Rewriting \ {"read"}
  BY DEF Rewriting
<1>2. ASSUME run[r].pc \in labels
      PROVE  f \in Files /\ v \in Version
  <2>1. InHand(r) /\ run[r] \in RunState
    BY HandFacts
  <2>2. f \in Files /\ v # Absent
    BY <1>2, <2>1 DEF InHand, ReadsWhatItStamps, AfterRead, FilePC
  <2> QED
    BY <2>1, <2>2 DEF RunState
<1>3. CASE DeleteOldDocs(r)
  <2>1. StoresTypeOK' /\ UNCHANGED <<diskVars, fingerprint, vectors, faults>>
    BY <1>3 DEF DeleteOldDocs, DeleteDocs, ArrivalInv, TypeOK, StoresTypeOK, diskVars, sqliteVars
  <2>2. Step(r, "deleteDocs", "deleteVectors")
    BY <1>3 DEF DeleteOldDocs
  <2> QED
    BY <1>1, <2>1, <2>2, WorkingArrival DEF NoVectorsPC
<1>4. CASE DeleteOldRows(r)
  <2>1. StoresTypeOK' /\ UNCHANGED <<diskVars, fingerprint, vectors, faults>>
    BY <1>4 DEF DeleteOldRows, DeleteSymbolsByFile, DeleteFrameworkPatternsByFile, ArrivalInv,
       TypeOK, StoresTypeOK, diskVars, tantivyVars
  <2>2. Step(r, "deleteRows", "embed")
    BY <1>4 DEF DeleteOldRows
  <2> QED
    BY <1>1, <2>1, <2>2, WorkingArrival DEF NoVectorsPC
<1>5. CASE Embed(r)
  <2>1. StoresTypeOK' /\ UNCHANGED <<diskVars, fingerprint, vectors, faults>>
    BY <1>5, StoresStay DEF Embed
  <2>2. Step(r, "embed", "addDocs")
    BY <1>5 DEF Embed
  <2> QED
    BY <1>1, <2>1, <2>2, WorkingArrival DEF NoVectorsPC
<1>6. CASE AddNewDocs(r)
  <2>1. Step(r, "addDocs", "commitDocs") /\ f \in Files /\ v \in Version
    BY <1>2, <1>6 DEF AddNewDocs, Step, At
  <2>2. StoresTypeOK' /\ UNCHANGED <<diskVars, fingerprint, vectors, faults>>
    BY <1>6, <2>1 DEF AddNewDocs, AddDocs, ArrivalInv, TypeOK, StoresTypeOK, diskVars, sqliteVars
  <2> QED
    BY <1>1, <2>1, <2>2, WorkingArrival DEF NoVectorsPC
<1>7. CASE CommitDocs(r)
  <2>1. StoresTypeOK' /\ UNCHANGED <<diskVars, fingerprint, vectors, faults>>
    BY <1>7 DEF CommitDocs, Commit, ArrivalInv, TypeOK, StoresTypeOK, diskVars, sqliteVars
  <2>2. Step(r, "commitDocs", "upsertRows")
    BY <1>7 DEF CommitDocs
  <2> QED
    BY <1>1, <2>1, <2>2, WorkingArrival DEF NoVectorsPC
<1>8. CASE UpsertRows(r)
  <2>1. Step(r, "upsertRows", "upsertFingerprint") /\ f \in Files /\ v \in Version
    BY <1>2, <1>8 DEF UpsertRows, Step, At
  <2>2. /\ symbols' = [symbols EXCEPT ![f] = @ \cup {v}]
        /\ patterns' = [patterns EXCEPT ![f] = @ \cup {v}]
        /\ testLinks' = [testLinks EXCEPT ![f] = @ \/ f \in TestFiles]
        /\ UNCHANGED <<diskVars, fingerprint, tantivyVars, vectors, faults>>
    BY <1>8 DEF UpsertRows, UpsertSymbols, UpsertFrameworkPatterns, CreateTestLinks
  <2>3. StoresTypeOK'
    BY <2>1, <2>2 DEF ArrivalInv, TypeOK, StoresTypeOK, diskVars, tantivyVars
  <2> QED
    BY <1>1, <2>1, <2>2, <2>3, WorkingArrival DEF NoVectorsPC
<1> QED
  BY <1>3, <1>4, <1>5, <1>6, <1>7, <1>8

LEMMA DeleteOldVectorsArrival ==
  ASSUME VectorsAlwaysArrive, ArrivalInv, NEW r \in Runners, DeleteOldVectors(r)
  PROVE  ArrivalInv'
<1> DEFINE f == run[r].file
<1>1. /\ Step(r, "deleteVectors", "deleteRows")
      /\ vectors' = [vectors EXCEPT ![f] = {}]
      /\ UNCHANGED <<diskVars, sqliteVars, tantivyVars, faults>>
  BY DEF DeleteOldVectors, DeleteVectors
<1>2. /\ run' \in [Runners -> RunState]
      /\ run[r].pc = "deleteVectors" /\ run'[r].pc = "deleteRows" /\ run'[r].file = f
      /\ run'[r].stamp = run[r].stamp /\ run'[r].source = run[r].source
  BY <1>1, StepFacts DEF ArrivalInv, PC, FilePC
<1>3. InHand(r) /\ f \in Files /\ run[r].stamp # Absent /\ ~Unchanged(f)
  BY <1>2, HandFacts DEF InHand, FilePC, Rewriting
<1>4. vectors'[f] = {}
  BY <1>1, <1>3 DEF ArrivalInv, TypeOK, StoresTypeOK
<1>5. ~Unchanged(f)' /\ disk' = disk
  BY <1>1, <1>2, <1>3, UnchangedStays DEF sqliteVars
<1>6. ReadsWhatItStamps(r)'
  BY <1>2, <1>3, <1>5 DEF InHand, ReadsWhatItStamps, AfterRead, FilePC
<1>7. InHand(r)'
  BY <1>2, <1>3, <1>4, <1>5, <1>6 DEF InHand
<1> QED
  BY <1>1, <1>2, <1>3, <1>7, DeletedVectorsArrival

(* The fingerprint is there and the vectors are not: they are to come.     *)
LEMMA RecordFingerprintArrival ==
  ASSUME VectorsAlwaysArrive, ArrivalInv, NEW r \in Runners, RecordFingerprint(r)
  PROVE  ArrivalInv'
<1> DEFINE f == run[r].file
<1>1. /\ Step(r, "upsertFingerprint", "addVectors")
      /\ fingerprint' = [fingerprint EXCEPT ![f] = run[r].stamp]
      /\ UNCHANGED <<diskVars, symbols, patterns, testLinks, tantivyVars, vectors, faults>>
  BY DEF RecordFingerprint, UpsertFingerprint
<1>2. /\ run' \in [Runners -> RunState]
      /\ run[r].pc = "upsertFingerprint" /\ run'[r].pc = "addVectors" /\ run'[r].file = f
      /\ run'[r].stamp = run[r].stamp /\ run'[r].source = run[r].source
  BY <1>1, StepFacts DEF ArrivalInv, PC, FilePC
<1>3. /\ InHand(r) /\ f \in Files /\ run[r].stamp # Absent /\ vectors[f] = {}
      /\ run[r].stamp \in Version \cup {Absent}
  BY <1>2, HandFacts DEF InHand, FilePC, NoVectorsPC, RunState
<1>4. \A g \in Files : fingerprint'[g] = IF g = f THEN run[r].stamp ELSE fingerprint[g]
  BY <1>1, <1>3 DEF ArrivalInv, TypeOK, StoresTypeOK
<1>5. disk' = disk /\ vectors' = vectors
  BY <1>1 DEF diskVars
<1>6. TypeOK'
  BY <1>1, <1>2, <1>3, <1>4 DEF ArrivalInv, TypeOK, StoresTypeOK, diskVars, tantivyVars
<1>7. \A g \in Files : fingerprint'[g] <= edits
  BY <1>4, HandFacts DEF ArrivalInv, StampsArePast
<1>8. StampsArePast'
  BY <1>1, <1>2, <1>7, HandFacts, StampsStillPast
<1>9. ReadsWhatItStamps(r)'
  BY <1>2, <1>3, <1>5 DEF InHand, ReadsWhatItStamps, AfterRead, FilePC
<1>10. InHand(r)'
  BY <1>2, <1>3, <1>4, <1>5, <1>9 DEF InHand, Rewriting
<1>11. \A g \in Files : ~VectorsToCome(g)
  BY <1>2 DEF VectorsToCome, At, VectorsAlwaysArrive
<1>12. \A g \in Files : g # f => HasVectors(g)'
  BY <1>4, <1>5, <1>11 DEF ArrivalInv, HasVectors, Unchanged, Exists
<1> QED
  BY <1>2, <1>6, <1>8, <1>10, <1>12, ArrivalParts

(* They come, and are those of what was stamped.                           *)
LEMMA AddNewVectorsArrival ==
  ASSUME VectorsAlwaysArrive, ArrivalInv, NEW r \in Runners, AddNewVectors(r)
  PROVE  ArrivalInv'
<1> DEFINE f == run[r].file
<1>1. /\ Step(r, "addVectors", "close")
      /\ vectors' = [vectors EXCEPT ![f] = @ \cup {run[r].source}]
      /\ UNCHANGED <<diskVars, sqliteVars, tantivyVars, faults>>
  BY DEF AddNewVectors, AddVectors
<1>2. /\ run' \in [Runners -> RunState]
      /\ run[r].pc = "addVectors" /\ run'[r].pc = "close" /\ run'[r].file = f
      /\ run'[r].stamp = run[r].stamp /\ run'[r].source = run[r].source
  BY <1>1, StepFacts DEF ArrivalInv, PC, FilePC
<1>3. /\ InHand(r) /\ f \in Files /\ run[r].stamp # Absent /\ vectors[f] = {}
      /\ fingerprint[f] = run[r].stamp /\ run[r].source \in Version
      /\ disk[f] = run[r].stamp => run[r].source = disk[f]
  BY <1>2, HandFacts
  DEF InHand, FilePC, NoVectorsPC, RunState, ReadsWhatItStamps, AfterRead
<1>4. \A g \in Files : vectors'[g] = IF g = f THEN {run[r].source} ELSE vectors[g]
  BY <1>1, <1>3 DEF ArrivalInv, TypeOK, StoresTypeOK
<1>5. UNCHANGED <<diskVars, fingerprint>>
  BY <1>1 DEF sqliteVars
<1>6. TypeOK'
  BY <1>1, <1>2, <1>3, <1>4
  DEF ArrivalInv, TypeOK, StoresTypeOK, diskVars, sqliteVars, tantivyVars
<1>7. StampsArePast'
  BY <1>2, <1>5, HandFacts, StampsStillPast DEF ArrivalInv, StampsArePast
<1>8. disk' = disk
  BY <1>5, UnchangedStays
<1>9. ReadsWhatItStamps(r)'
  BY <1>2, <1>3, <1>8 DEF InHand, ReadsWhatItStamps, AfterRead, FilePC
<1>10. InHand(r)'
  BY <1>2, <1>3, <1>9 DEF InHand, Rewriting, NoVectorsPC
<1>11. \A g \in Files : VectorsToCome(g) => g = f
  BY DEF VectorsToCome, VectorsAlwaysArrive
<1>12. ASSUME NEW g \in Files
       PROVE  HasVectors(g)'
  <2>1. CASE g = f
    BY <1>3, <1>4, <1>5, <1>8, <2>1, UnchangedStays DEF HasVectors, Unchanged
  <2>2. CASE g # f
    BY <1>4, <1>5, <1>8, <1>11, <2>2, UnchangedStays DEF ArrivalInv, HasVectors
  <2> QED
    BY <2>1, <2>2
<1> QED
  BY <1>6, <1>7, <1>10, <1>12, ArrivalParts

LEMMA CloseFileArrival ==
  ASSUME VectorsAlwaysArrive, ArrivalInv, NEW r \in Runners, CloseFile(r)
  PROVE  ArrivalInv'
  BY NextFileArrival DEF CloseFile, At, Commit

-----------------------------------------------------------------------------
LEMMA RunStepArrival ==
  ASSUME VectorsAlwaysArrive, ArrivalInv, NEW r \in Runners, RunStep(r)
  PROVE  ArrivalInv'
<1>1. CASE CleanupStep(r)
  BY <1>1, ListArrival, CleanSymbolsArrival, CleanFingerprintArrival, CleanDocsArrival,
     CleanVectorsArrival, EndCleanupArrival DEF CleanupStep
<1>2. CASE FileStep(r)
  BY <1>2, StatFileArrival, CompareArrival, ReadFileArrival, WorkingStepArrival,
     DeleteOldVectorsArrival, RecordFingerprintArrival, AddNewVectorsArrival, CloseFileArrival
  DEF FileStep
<1>3. CASE EndRun(r)
  BY <1>3, EndArrival
<1> QED
  BY <1>1, <1>2, <1>3 DEF RunStep

LEMMA InitArrival == Init => ArrivalInv
<1> HAVE Init
<1>1. /\ TypeOK /\ StampsArePast /\ edits = 0
      /\ \A f \in Files : ~Unchanged(f)
  BY InitInv, MaxEditsAssumption DEF IndInv, Init, StoresInit, Unchanged, Exists
<1>2. ASSUME NEW r \in Runners
      PROVE  InHand(r)
  <2>1. run[r].pc = "idle"
    BY DEF Init, Idle
  <2> QED
    BY <2>1
    DEF InHand, ReadsWhatItStamps, AfterRead, NoVectorsPC, CleanupPC, FilePC, Rewriting
<1> QED
  BY <1>1, <1>2 DEF ArrivalInv, HasVectors

LEMMA NextArrival ==
  ASSUME VectorsAlwaysArrive, ArrivalInv, [Next]_vars
  PROVE  ArrivalInv'
<1>1. CASE UserStep
  BY <1>1, UserArrival
<1>2. ASSUME NEW r \in Runners,
             \/ Scan(r) \/ ScanMissingFiles(r) \/ IndexPaths(r)
             \/ AddNewVectorsFails(r) \/ FailRun(r)
      PROVE  ArrivalInv'
  <2>1. ~AddNewVectorsFails(r)
    BY DEF AddNewVectorsFails, Fault, VectorsAlwaysArrive
  <2> QED
    BY <1>2, <2>1, BeginArrival, EndArrival
<1>3. ASSUME NEW r \in Runners, RunStep(r)
      PROVE  ArrivalInv'
  BY <1>3, RunStepArrival
<1>4. ~Crash
  BY DEF Crash, Fault, VectorsAlwaysArrive
<1>5. CASE UNCHANGED vars
  <2>1. UNCHANGED <<diskVars, storeVars, run, faults>>
    BY <1>5 DEF vars
  <2>2. disk' = disk /\ \A f \in Files : Unchanged(f)' <=> Unchanged(f)
    BY <2>1, StoresStay, UnchangedStays
  <2>3. fingerprint' = fingerprint /\ vectors' = vectors
    BY <2>1 DEF storeVars
  <2>4. TypeOK' /\ StampsArePast'
    BY <2>1, StoresStay DEF ArrivalInv, TypeOK, StampsArePast, diskVars, storeVars
  <2>5. \A r \in Runners : InHand(r)'
    BY <2>1, <2>2, <2>3
    DEF ArrivalInv, InHand, ReadsWhatItStamps, CleanupPC, FilePC, Rewriting, AfterRead
  <2>6. \A f \in Files : HasVectors(f)' \/ VectorsToCome(f)'
    BY <2>1, <2>2, <2>3 DEF ArrivalInv, HasVectors, VectorsToCome, At
  <2> QED
    BY <2>4, <2>5, <2>6 DEF ArrivalInv
<1> QED
  BY <1>1, <1>2, <1>3, <1>4, <1>5 DEF Next

(* With one run at a time, and as long as the table takes the vectors it   *)
(* is given and the process stays up, a file that later runs pass over has *)
(* its vectors once the run that indexed it has moved on: whatever errors  *)
(* end runs early, and whatever directories a scan misses (index_files and *)
(* cleanup_deleted_files in pipeline/mod.rs).                              *)
THEOREM UnchangedFilesHaveVectors == VectorsAlwaysArrive => (Spec => []UnchangedHasVectors)
<1> SUFFICES ASSUME VectorsAlwaysArrive
             PROVE  Spec => []UnchangedHasVectors
  OBVIOUS
<1>1. ArrivalInv /\ [Next]_vars => ArrivalInv'
  BY NextArrival
<1>2. ArrivalInv => UnchangedHasVectors
  BY DEF ArrivalInv, HasVectors, VectorsToCome, UnchangedHasVectors
<1> QED
  BY <1>1, <1>2, InitArrival, PTL DEF Spec
=============================================================================
