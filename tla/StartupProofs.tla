---------------------------- MODULE StartupProofs ----------------------------
(***************************************************************************)
(* Theorems about Startup: types, and that the vectors in the table are    *)
(* always comparable, for every set of files, builds and embedders.        *)
(***************************************************************************)
EXTENDS Startup, TLAPS

USE DimAssumption, NoneAssumption, BoundsAssumption

(* Every action keeps the types. *)
LEMMA TypesKept == TypeOK /\ [Next]_vars => TypeOK'
<1> SUFFICES ASSUME TypeOK, [Next]_vars PROVE TypeOK'
  OBVIOUS
<1> USE DEF TypeOK, Exists, Unchanged, diskVars, keywordVars, tableVars, runVars, processVars
<1>1. ASSUME NEW f \in Files, Edit(f) PROVE TypeOK'
  BY <1>1 DEF Edit, Version
<1>2. ASSUME NEW f \in Files, Remove(f) PROVE TypeOK'
  BY <1>2 DEF Remove
<1>3. ASSUME NEW f \in Files, SkipFile(f) PROVE TypeOK'
  BY <1>3 DEF SkipFile
<1>4. ASSUME NEW f \in Files, ReplaceFile(f) PROVE TypeOK'
  <2> USE <1>4
  <2>1. disk[f] \in Version
    BY DEF ReplaceFile, Absent
  <2>2. work' \in Work
    BY <2>1 DEF ReplaceFile, Work
  <2> QED
    BY <2>2 DEF ReplaceFile
<1>5. ASSUME NEW b \in Builds, NEW e \in Embedders, Start(b, e) PROVE TypeOK'
  BY <1>5 DEF Start
<1>6. CASE WipeForeignSchema
  BY <1>6 DEF WipeForeignSchema
<1>7. CASE OpenIndex
  BY <1>7 DEF OpenIndex
<1>8. CASE MigrateVectorTable
  BY <1>8 DEF MigrateVectorTable
<1>9. CASE OpenTable
  BY <1>9 DEF OpenTable
<1>10. CASE AskForRun
  BY <1>10 DEF AskForRun
<1>11. CASE EmbedFile
  <2> USE <1>11
  <2>1. work \in Work /\ run # "none" /\ pc = "up" /\ embedder \in Embedders
    BY DEF EmbedFile
  <2>2. TextsOf[work.of] \subseteq Texts
    BY <2>1 DEF Work, Texts
  <2>3. \A t \in TextsOf[work.of] : <<NameOf[embedder], t>> \in DOMAIN cache
    BY <2>1, <2>2 DEF Names
  <2>31. \A t \in TextsOf[work.of] : Maker(t) \in Embedders
    BY <2>1, <2>3 DEF Maker, Cached
  <2>4. {<<t, Maker(t)>> : t \in TextsOf[work.of]} \subseteq Texts \X Embedders
    BY <2>2, <2>31
  <2>5. work' \in Work
    BY <2>1, <2>4 DEF EmbedFile, Work
  <2>6. cache' \in [Names \X Texts -> Embedders \cup {None}]
    BY <2>1 DEF EmbedFile
  <2> QED
    BY <2>1, <2>5, <2>6 DEF EmbedFile
<1>12. CASE FailToEmbed
  BY <1>12 DEF FailToEmbed
<1>13. CASE PutDocs
  BY <1>13 DEF PutDocs, Work
<1>14. CASE PutRows
  BY <1>14 DEF PutRows, Work
<1>15. CASE PutVectors
  BY <1>15 DEF PutVectors, AddRecords, Work
<1>16. CASE EndRun
  BY <1>16 DEF EndRun
<1>17. CASE Stop
  BY <1>17 DEF Stop
<1>18. CASE UNCHANGED vars
  BY <1>18 DEF vars
<1> QED
  BY <1>1, <1>2, <1>3, <1>4, <1>5, <1>6, <1>7, <1>8, <1>9, <1>10, <1>11, <1>12, <1>13, <1>14,
     <1>15, <1>16, <1>17, <1>18 DEF Next

LEMMA InitTypes == Init => TypeOK
<1> HAVE Init
<1> USE DEF Init
<1>1. cache \in [Names \X Texts -> Embedders \cup {None}]
  OBVIOUS
<1>2. edits \in 0 .. MaxEdits /\ starts \in 0 .. MaxStarts /\ runs \in 0 .. MaxRuns
  OBVIOUS
<1>3. disk \in [Files -> Version \cup {Absent}] /\ fingerprint \in [Files -> Version \cup {Absent}]
  OBVIOUS
<1> QED
  BY <1>1, <1>2, <1>3 DEF TypeOK

(* Types of all variables, and that only a process that is up has a run.   *)
THEOREM TypeCorrect == Spec => []TypeOK
  BY InitTypes, TypesKept, PTL DEF Spec

-----------------------------------------------------------------------------
(* The invariant behind VectorsAreComparable.                              *)

(* An entry of the embedding cache was made by a model of the name it is   *)
(* filed under.                                                            *)
EntriesNameTheirMaker == \A k \in Names \X Texts : cache[k] # None => NameOf[cache[k]] = k[1]

(* The file in hand has no vectors yet, and those made for it come from    *)
(* models of the name the process runs with.                               *)
OneModelInHand ==
    work # None => /\ vectors[work.file] = {}
                   /\ \A m \in work.made : NameOf[m[2]] = NameOf[embedder]

(* Without a table there are no vectors; and a start that has got past the *)
(* migration has no table of another dimension.                            *)
TableFits ==
    /\ tableDim = None => \A f \in Files : vectors[f] = {}
    /\ pc = "open" => tableDim \in {None, DimOf[embedder]}

ComparableInv ==
    TypeOK /\ VectorsAreComparable /\ EntriesNameTheirMaker /\ OneModelInHand /\ TableFits

(* Steps that touch none of the state the invariant speaks of.             *)
LEMMA ElsewhereKeeps ==
  ASSUME ComparableInv, TypeOK', UNCHANGED <<cache, work, tableVars, pc, embedder>>
  PROVE  ComparableInv'
  BY DEF ComparableInv, VectorsAreComparable, EntriesNameTheirMaker, OneModelInHand, TableFits,
         tableVars

(* Without a file in hand the invariant is about the table and the cache.  *)
LEMMA IdleKeeps ==
  ASSUME ComparableInv, TypeOK', UNCHANGED <<cache, tableVars>>, work' = None,
         pc' = "up" => tableDim = DimOf[embedder'],
         pc' = "open" => tableDim \in {None, DimOf[embedder']}
  PROVE  ComparableInv'
  BY DEF ComparableInv, VectorsAreComparable, EntriesNameTheirMaker, OneModelInHand, TableFits,
         tableVars

(* A step that only takes vectors away, with no file in hand.              *)
LEMMA FewerVectorsKeep ==
  ASSUME ComparableInv, TypeOK', UNCHANGED <<cache, tableDim, pc, embedder>>, work' = None,
         \A f \in Files : vectors'[f] \subseteq vectors[f]
  PROVE  ComparableInv'
<1>1. VectorsAreComparable'
  BY DEF ComparableInv, VectorsAreComparable
<1>2. OneModelInHand' /\ TableFits'
  BY DEF ComparableInv, OneModelInHand, TableFits
<1>3. EntriesNameTheirMaker'
  BY DEF ComparableInv, EntriesNameTheirMaker
<1> QED
  BY <1>1, <1>2, <1>3 DEF ComparableInv

LEMMA ReplaceFileKeeps ==
  ASSUME ComparableInv, TypeOK', NEW f \in Files, ReplaceFile(f)
  PROVE  ComparableInv'
<1> USE DEF ReplaceFile, processVars
<1>1. vectors' = [vectors EXCEPT ![f] = {}] /\ vectors \in [Files -> SUBSET (Texts \X Embedders)]
  BY DEF ComparableInv, TypeOK
<1>2. \A g \in Files : vectors'[g] = IF g = f THEN {} ELSE vectors[g]
  BY <1>1
<1>3. VectorsAreComparable'
  BY <1>2 DEF ComparableInv, VectorsAreComparable
<1>4. work'.file = f /\ work'.made = {}
  OBVIOUS
<1>5. OneModelInHand'
  BY <1>2, <1>4 DEF OneModelInHand
<1>6. TableFits'
  BY <1>2 DEF ComparableInv, TableFits
<1>7. EntriesNameTheirMaker'
  BY DEF ComparableInv, EntriesNameTheirMaker
<1> QED
  BY <1>3, <1>5, <1>6, <1>7 DEF ComparableInv

(* The vectors made for a file come from the embedder that runs or from an *)
(* entry of the same name, and so do the entries that are added.           *)
LEMMA EmbedFileKeeps ==
  ASSUME ComparableInv, TypeOK', EmbedFile
  PROVE  ComparableInv'
<1> USE DEF EmbedFile, processVars, tableVars
<1>1. /\ work \in Work /\ embedder \in Embedders
      /\ cache \in [Names \X Texts -> Embedders \cup {None}]
  BY DEF ComparableInv, TypeOK
<1>2. NameOf[embedder] \in Names /\ TextsOf[work.of] \subseteq Texts
  BY <1>1 DEF Names, Texts, Work
<1>3. \A t \in TextsOf[work.of] : NameOf[Maker(t)] = NameOf[embedder]
  BY <1>1, <1>2 DEF Maker, Cached, ComparableInv, EntriesNameTheirMaker
<1>4. work'.file = work.file /\ work'.made = {<<t, Maker(t)>> : t \in TextsOf[work.of]}
  BY <1>1 DEF Work
<1>5. \A m \in work'.made : NameOf[m[2]] = NameOf[embedder]
  BY <1>3, <1>4
<1>6. OneModelInHand'
  BY <1>4, <1>5 DEF ComparableInv, OneModelInHand
<1>7. \A k \in Names \X Texts :
        cache'[k] \in {None, cache[k]} \/ (cache'[k] = embedder /\ k[1] = NameOf[embedder])
  BY <1>1
<1>8. EntriesNameTheirMaker'
  BY <1>7 DEF ComparableInv, EntriesNameTheirMaker
<1>9. VectorsAreComparable' /\ TableFits'
  BY DEF ComparableInv, VectorsAreComparable, TableFits
<1> QED
  BY <1>6, <1>8, <1>9 DEF ComparableInv

(* What add_records lets through has the dimension of the table, and goes  *)
(* to a file without vectors.                                              *)
LEMMA PutVectorsKeeps ==
  ASSUME ComparableInv, TypeOK', PutVectors
  PROVE  ComparableInv'
<1> USE DEF PutVectors, AddRecords, processVars
<1>1. /\ work \in Work /\ pc = "up" /\ embedder \in Embedders
      /\ vectors \in [Files -> SUBSET (Texts \X Embedders)]
  BY DEF ComparableInv, TypeOK
<1>2. work.file \in Files /\ vectors[work.file] = {}
  BY <1>1 DEF ComparableInv, OneModelInHand, Work
<1>3. tableDim = DimOf[embedder] /\ tableDim # None
  BY <1>1, DimAssumption, NoneAssumption DEF ComparableInv, VectorsAreComparable
<1>4. CASE vectors' = vectors
  BY <1>4 DEF ComparableInv, VectorsAreComparable, EntriesNameTheirMaker, OneModelInHand,
              TableFits
<1>5. CASE /\ \A m \in work.made : DimOf[m[2]] = DimOf[embedder]
           /\ vectors' = [vectors EXCEPT ![work.file] = @ \cup work.made]
  <2>1. \A f \in Files : vectors'[f] = IF f = work.file THEN work.made ELSE vectors[f]
    BY <1>1, <1>2, <1>5
  <2>2. \A m \in work.made : DimOf[m[2]] = tableDim /\ NameOf[m[2]] = NameOf[embedder]
    BY <1>3, <1>5 DEF ComparableInv, OneModelInHand
  <2>3. VectorsAreComparable'
    BY <1>3, <2>1, <2>2 DEF ComparableInv, VectorsAreComparable
  <2>4. OneModelInHand' /\ TableFits'
    BY <1>1, <1>3 DEF OneModelInHand, TableFits
  <2>5. EntriesNameTheirMaker'
    BY DEF ComparableInv, EntriesNameTheirMaker
  <2> QED
    BY <2>3, <2>4, <2>5 DEF ComparableInv
<1> QED
  BY <1>4, <1>5

(* The migration leaves a table of the embedder's dimension, or none.      *)
LEMMA MigrateVectorTableKeeps ==
  ASSUME ComparableInv, TypeOK', MigrateVectorTable
  PROVE  ComparableInv'
<1> USE DEF MigrateVectorTable
<1>1. work = None /\ work' = None
  BY DEF ComparableInv, TypeOK, runVars
<1>2. CASE needsReindex'
  BY <1>1, <1>2 DEF ComparableInv, VectorsAreComparable, EntriesNameTheirMaker, OneModelInHand,
                    TableFits
<1>3. CASE ~needsReindex'
  BY <1>1, <1>3, IdleKeeps
<1> QED
  BY <1>2, <1>3

LEMMA OpenTableKeeps ==
  ASSUME ComparableInv, TypeOK', OpenTable
  PROVE  ComparableInv'
<1> USE DEF OpenTable
<1>1. work = None /\ work' = None
  BY DEF ComparableInv, TypeOK
<1>2. tableDim' = DimOf[embedder] /\ tableDim \in {None, tableDim'}
  BY DEF ComparableInv, TableFits
<1>3. tableDim' # None
  BY <1>2, DimAssumption, NoneAssumption DEF ComparableInv, TypeOK
<1>4. VectorsAreComparable'
  BY <1>2 DEF ComparableInv, VectorsAreComparable, TableFits
<1> QED
  BY <1>1, <1>3, <1>4 DEF ComparableInv, EntriesNameTheirMaker, OneModelInHand, TableFits

LEMMA ComparableKept == ComparableInv /\ [Next]_vars => ComparableInv'
<1> SUFFICES ASSUME ComparableInv, [Next]_vars PROVE ComparableInv'
  OBVIOUS
<1>1. TypeOK /\ TypeOK'
  BY TypesKept DEF ComparableInv
<1>2. pc # "up" => work = None
  BY <1>1 DEF TypeOK
<1> USE <1>1
<1>3. ASSUME NEW f \in Files, Edit(f) \/ Remove(f) \/ SkipFile(f) PROVE ComparableInv'
  BY <1>3, ElsewhereKeeps DEF Edit, Remove, SkipFile, tableVars, processVars, runVars
<1>4. ASSUME NEW f \in Files, ReplaceFile(f) PROVE ComparableInv'
  BY <1>4, ReplaceFileKeeps
<1>5. ASSUME NEW b \in Builds, NEW e \in Embedders, Start(b, e) PROVE ComparableInv'
  BY <1>2, <1>5, IdleKeeps DEF Start, runVars
<1>6. CASE WipeForeignSchema
  BY <1>2, <1>6, IdleKeeps DEF WipeForeignSchema, runVars
<1>7. CASE OpenIndex
  BY <1>2, <1>7, IdleKeeps DEF OpenIndex, runVars
<1>8. CASE MigrateVectorTable
  BY <1>8, MigrateVectorTableKeeps
<1>9. CASE OpenTable
  BY <1>9, OpenTableKeeps
<1>10. CASE AskForRun
  BY <1>10, ElsewhereKeeps DEF AskForRun, processVars
<1>11. CASE EmbedFile
  BY <1>11, EmbedFileKeeps
<1>12. CASE FailToEmbed
  BY <1>12, FewerVectorsKeep DEF FailToEmbed, processVars, tableVars
<1>13. CASE PutDocs \/ PutRows
  <2>1. work \in Work /\ work' \in Work
    BY <1>13 DEF TypeOK, PutDocs, PutRows, Work
  <2>2. work'.file = work.file /\ work'.made = work.made
    BY <1>13, <2>1 DEF PutDocs, PutRows, Work
  <2>3. UNCHANGED <<cache, tableDim, vectors, pc, embedder>> /\ work # None
    BY <1>13 DEF PutDocs, PutRows, processVars, tableVars
  <2> QED
    BY <2>2, <2>3 DEF ComparableInv, VectorsAreComparable, EntriesNameTheirMaker,
                      OneModelInHand, TableFits
<1>14. CASE PutVectors
  BY <1>14, PutVectorsKeeps
<1>15. CASE EndRun
  <2>1. \A f \in Files : vectors'[f] \subseteq vectors[f]
    BY <1>15 DEF EndRun
  <2> QED
    BY <1>15, <2>1, FewerVectorsKeep DEF EndRun, processVars
<1>16. CASE Stop
  BY <1>16, IdleKeeps DEF Stop
<1>17. CASE UNCHANGED vars
  BY <1>17, ElsewhereKeeps DEF vars, processVars, runVars
<1> QED
  BY <1>3, <1>4, <1>5, <1>6, <1>7, <1>8, <1>9, <1>10, <1>11, <1>12, <1>13, <1>14, <1>15, <1>16,
     <1>17 DEF Next

(* Whatever embedders a server has been started with and whatever of their *)
(* work the embedding cache has kept, crashes at any step included: every  *)
(* vector has the dimension of the table, those of one file come from      *)
(* models of one name, and a process that is up asks with vectors of that  *)
(* dimension (storage/vector.rs, storage/cache.rs, main.rs).               *)
THEOREM VectorsStayComparable == Spec => []VectorsAreComparable
<1>1. Init => ComparableInv
  <2> HAVE Init
  <2>1. TypeOK
    BY InitTypes
  <2> QED
    BY <2>1 DEF Init, ComparableInv, VectorsAreComparable, EntriesNameTheirMaker, OneModelInHand,
                TableFits
<1>2. ComparableInv => VectorsAreComparable
  BY DEF ComparableInv
<1> QED
  BY <1>1, <1>2, ComparableKept, PTL DEF Spec

-----------------------------------------------------------------------------
(* The invariant behind OnlyUpgradesLoseAnswers.                           *)

(* Fingerprints are of contents already written, so that an edit never     *)
(* makes a file unchanged again.                                           *)
FingerprintsArePast ==
    /\ \A f \in Files : disk[f] \in 0 .. edits /\ fingerprint[f] \in 0 .. edits
    /\ work # None => work.of \in 0 .. edits

(* The writer holds nothing back of an unchanged file, so a later commit   *)
(* takes nothing from it; a file counts as changed until its rows are in   *)
(* place; and all that was buffered is committed before they are.          *)
CommitsLoseNothing ==
    /\ \A f \in Files : Unchanged(f) => buffered[f] = docs[f]
    /\ (work # None /\ work.at # "vectors") => ~Unchanged(work.file)
    /\ (work # None /\ work.at \in {"rows", "vectors"}) => buffered = docs

(* Documents that survived are of the schema of the last start that came   *)
(* up, which the version file names: also in the middle of a later start.  *)
SchemaIsKnown ==
    /\ \A f \in Files : docs[f] # {} => schemaOnDisk = lastUp.build
    /\ pc = "create" => (schemaOnDisk = build \/ \A f \in Files : docs[f] = {})
    /\ pc \in {"migrate", "open", "up"} => schemaOnDisk = build
    /\ pc = "up" => lastUp.build = build

(* A table that survived has the dimension of the last start that came up. *)
DimensionIsKnown ==
    /\ tableDim \in {None, lastUp.dim}
    /\ pc = "up" => lastUp.dim = DimOf[embedder]

SurvivalInv ==
    ComparableInv /\ FingerprintsArePast /\ CommitsLoseNothing /\ SchemaIsKnown
    /\ DimensionIsKnown

LEMMA FingerprintsArePastKept == SurvivalInv /\ [Next]_vars => FingerprintsArePast'
<1> SUFFICES ASSUME SurvivalInv, [Next]_vars PROVE FingerprintsArePast'
  OBVIOUS
<1>1. /\ edits \in 0 .. MaxEdits
      /\ disk \in [Files -> Version \cup {Absent}]
      /\ fingerprint \in [Files -> Version \cup {Absent}]
      /\ work \in Work \cup {None}
  BY DEF SurvivalInv, ComparableInv, TypeOK
<1>2. FingerprintsArePast
  BY DEF SurvivalInv
<1> USE <1>1, <1>2 DEF FingerprintsArePast, diskVars, processVars, runVars
<1>3. ASSUME NEW f \in Files, Edit(f) PROVE FingerprintsArePast'
  BY <1>3 DEF Edit
<1>4. ASSUME NEW f \in Files, Remove(f) PROVE FingerprintsArePast'
  BY <1>4 DEF Remove, Absent
<1>5. ASSUME NEW f \in Files, ReplaceFile(f) PROVE FingerprintsArePast'
  BY <1>5 DEF ReplaceFile
<1>6. CASE PutRows
  BY <1>6 DEF PutRows, Work
<1>7. CASE EndRun
  BY <1>7 DEF EndRun, Absent
<1>8. CASE EmbedFile \/ PutDocs
  <2>1. work # None /\ work'.of = work.of
    BY <1>8 DEF EmbedFile, PutDocs, Work
  <2> QED
    BY <1>8, <2>1 DEF EmbedFile, PutDocs
<1>9. CASE UNCHANGED <<disk, edits, fingerprint>> /\ work' \in {work, None}
  BY <1>9
<1> QED
  BY <1>3, <1>4, <1>5, <1>6, <1>7, <1>8, <1>9
  DEF Next, SkipFile, Start, WipeForeignSchema, OpenIndex, MigrateVectorTable, OpenTable,
      AskForRun, FailToEmbed, PutVectors, Stop, vars

(* An edit, and nothing else but PutRows, changes what is unchanged.       *)
LEMMA OnlyPutRowsMakesUnchanged ==
  ASSUME SurvivalInv, [Next]_vars, ~PutRows, NEW f \in Files, Unchanged(f)'
  PROVE  Unchanged(f) /\ disk'[f] = disk[f]
<1>1. /\ edits \in 0 .. MaxEdits
      /\ disk \in [Files -> Version \cup {Absent}]
      /\ fingerprint \in [Files -> Version \cup {Absent}]
      /\ disk[f] \in 0 .. edits /\ fingerprint[f] \in 0 .. edits
  BY DEF SurvivalInv, ComparableInv, TypeOK, FingerprintsArePast
<1> USE <1>1 DEF Unchanged, Exists
<1>2. ASSUME NEW g \in Files, Edit(g) PROVE disk'[f] = disk[f] /\ fingerprint' = fingerprint
  BY <1>2 DEF Edit
<1>3. ASSUME NEW g \in Files, Remove(g) PROVE disk'[f] = disk[f] /\ fingerprint' = fingerprint
  BY <1>3 DEF Remove
<1>4. CASE EndRun
  BY <1>4 DEF EndRun, diskVars
<1>5. CASE UNCHANGED <<disk, fingerprint>>
  BY <1>5
<1> QED
  BY <1>2, <1>3, <1>4, <1>5
  DEF Next, SkipFile, ReplaceFile, Start, WipeForeignSchema, OpenIndex, MigrateVectorTable,
      OpenTable, AskForRun, EmbedFile, FailToEmbed, PutDocs, PutVectors, Stop, vars, diskVars

LEMMA CommitsLoseNothingKept == SurvivalInv /\ [Next]_vars => CommitsLoseNothing'
<1> SUFFICES ASSUME SurvivalInv, [Next]_vars PROVE CommitsLoseNothing'
  OBVIOUS
<1>1. /\ work \in Work \cup {None}
      /\ docs \in [Files -> SUBSET Version]
      /\ buffered \in [Files -> SUBSET Version]
      /\ fingerprint \in [Files -> Version \cup {Absent}]
      /\ pc # "up" => work = None
  BY DEF SurvivalInv, ComparableInv, TypeOK
<1>2. CommitsLoseNothing
  BY DEF SurvivalInv
<1>3. ~PutRows => \A f \in Files : Unchanged(f)' => Unchanged(f)
  BY OnlyPutRowsMakesUnchanged
<1> USE <1>1, <1>2 DEF CommitsLoseNothing, keywordVars, processVars, runVars
<1>4. CASE PutRows
  <2>1. work \in Work /\ work'.file = work.file /\ work'.at = "vectors" /\ buffered = docs
    BY <1>4 DEF PutRows, Work
  <2> QED
    BY <1>4, <2>1 DEF PutRows
<1>5. CASE ~PutRows /\ UNCHANGED <<docs, buffered>> /\ work' \in {work, None}
  <2>1. work' # None => work' = work /\ work \in Work /\ work.file \in Files
    BY <1>5 DEF Work
  <2> QED
    BY <1>3, <1>5, <2>1
<1>6. ASSUME NEW f \in Files, ReplaceFile(f) PROVE CommitsLoseNothing'
  <2>1. work'.file = f /\ work'.at = "embed" /\ ~Unchanged(f)'
    BY <1>6 DEF ReplaceFile, Unchanged, Exists, diskVars
  <2>2. \A g \in Files : Unchanged(g)' => Unchanged(g)
    BY <1>6 DEF ReplaceFile, Unchanged, Exists, diskVars
  <2> QED
    BY <1>6, <2>1, <2>2 DEF ReplaceFile
<1>7. CASE EmbedFile
  <2>1. work \in Work /\ work'.file = work.file /\ work'.at = "docs"
    BY <1>7 DEF EmbedFile, Work
  <2>2. ~Unchanged(work.file)' /\ \A g \in Files : Unchanged(g)' => Unchanged(g)
    BY <1>7, <2>1 DEF EmbedFile, Unchanged, Exists, diskVars
  <2> QED
    BY <1>7, <2>1, <2>2 DEF EmbedFile
<1>8. CASE PutDocs
  <2>1. work \in Work /\ work'.file = work.file /\ work'.at = "rows"
    BY <1>8 DEF PutDocs, Work
  <2>2. ~Unchanged(work.file)'
    BY <1>8, <2>1 DEF PutDocs, Unchanged, Exists, diskVars
  <2> QED
    BY <1>8, <2>1, <2>2 DEF PutDocs
<1>9. CASE PutVectors \/ Stop
  BY <1>9 DEF PutVectors, Stop
<1>10. CASE WipeForeignSchema
  BY <1>10 DEF WipeForeignSchema, Unchanged, Exists, diskVars
<1>11. CASE EndRun
  <2>1. \A f \in Files : Unchanged(f)' => Unchanged(f)
    BY <1>11 DEF EndRun, Unchanged, Exists, diskVars
  <2>2. \A f \in Files : Unchanged(f) => buffered'[f] = buffered[f]
    BY <1>11 DEF EndRun, Unchanged
  <2> QED
    BY <1>11, <2>1, <2>2 DEF EndRun
<1> QED
  BY <1>4, <1>5, <1>6, <1>7, <1>8, <1>9, <1>10, <1>11
  DEF Next, Edit, Remove, SkipFile, Start, OpenIndex, MigrateVectorTable, OpenTable, AskForRun,
      FailToEmbed, vars

LEMMA SchemaIsKnownKept == SurvivalInv /\ [Next]_vars => SchemaIsKnown'
<1> SUFFICES ASSUME SurvivalInv, [Next]_vars PROVE SchemaIsKnown'
  OBVIOUS
<1>1. work # None \/ run # "none" => pc = "up"
  BY DEF SurvivalInv, ComparableInv, TypeOK
<1>2. SchemaIsKnown
  BY DEF SurvivalInv
<1> USE <1>1, <1>2 DEF SchemaIsKnown, keywordVars, processVars, runVars
<1>3. ASSUME NEW b \in Builds, NEW e \in Embedders, Start(b, e) PROVE SchemaIsKnown'
  BY <1>3 DEF Start
<1>4. CASE WipeForeignSchema
  BY <1>4 DEF WipeForeignSchema
<1>5. CASE OpenIndex
  BY <1>5 DEF OpenIndex
<1>6. CASE MigrateVectorTable
  BY <1>6 DEF MigrateVectorTable
<1>7. CASE OpenTable
  BY <1>7 DEF OpenTable
<1>8. CASE Stop
  BY <1>8 DEF Stop
<1>9. CASE pc = "up" /\ UNCHANGED <<pc, schemaOnDisk, build, lastUp>>
  BY <1>9
<1>10. CASE UNCHANGED <<pc, schemaOnDisk, build, lastUp, docs>>
  BY <1>10
<1> QED
  BY <1>3, <1>4, <1>5, <1>6, <1>7, <1>8, <1>9, <1>10
  DEF Next, Edit, Remove, SkipFile, ReplaceFile, AskForRun, EmbedFile, FailToEmbed, PutDocs,
      PutRows, PutVectors, EndRun, vars

LEMMA DimensionIsKnownKept == SurvivalInv /\ [Next]_vars => DimensionIsKnown'
<1> SUFFICES ASSUME SurvivalInv, [Next]_vars PROVE DimensionIsKnown'
  OBVIOUS
<1>1. /\ DimensionIsKnown
      /\ pc = "open" => tableDim \in {None, DimOf[embedder]}
  BY DEF SurvivalInv, ComparableInv, TableFits
<1> USE <1>1 DEF DimensionIsKnown, tableVars, processVars
<1>2. CASE MigrateVectorTable
  BY <1>2 DEF MigrateVectorTable
<1>3. CASE OpenTable
  BY <1>3 DEF OpenTable
<1>4. CASE UNCHANGED <<tableDim, lastUp>> /\ (pc' = "up" => UNCHANGED <<pc, embedder>>)
  BY <1>4
<1> QED
  BY <1>2, <1>3, <1>4
  DEF Next, Edit, Remove, SkipFile, ReplaceFile, Start, WipeForeignSchema, OpenIndex, AskForRun,
      EmbedFile, FailToEmbed, PutDocs, PutRows, PutVectors, EndRun, Stop, vars

LEMMA SurvivalKept == SurvivalInv /\ [Next]_vars => SurvivalInv'
  BY ComparableKept, FingerprintsArePastKept, CommitsLoseNothingKept, SchemaIsKnownKept,
     DimensionIsKnownKept
  DEF SurvivalInv

(* What a step takes from the documents of an unchanged file, it takes for *)
(* a schema that is not that of the last start.                            *)
LEMMA DocumentsSurvive ==
  ASSUME SurvivalInv, [Next]_vars, NEW f \in Files, Unchanged(f), Unchanged(f)',
         docs[f] = {disk[f]}, docs'[f] # {disk[f]}
  PROVE  build # lastUp.build
<1>1. /\ work \in Work \cup {None}
      /\ buffered \in [Files -> SUBSET Version]
      /\ docs[f] # {} /\ buffered[f] = docs[f]
      /\ (work # None /\ work.at = "docs") => work.file # f
  BY DEF SurvivalInv, ComparableInv, TypeOK, CommitsLoseNothing
<1>2. WipeForeignSchema \/ PutDocs \/ PutVectors \/ EndRun
  BY DEF Next, Edit, Remove, SkipFile, ReplaceFile, Start, OpenIndex, MigrateVectorTable,
         OpenTable, AskForRun, EmbedFile, FailToEmbed, PutRows, Stop, vars, keywordVars
<1>3. ~PutDocs
  BY <1>1 DEF PutDocs, Work
<1>4. ~PutVectors
  BY <1>1 DEF PutVectors
<1>5. ~EndRun
  BY <1>1 DEF EndRun, Unchanged
<1>6. CASE WipeForeignSchema
  BY <1>1, <1>6 DEF WipeForeignSchema, keywordVars, SurvivalInv, SchemaIsKnown
<1> QED
  BY <1>2, <1>3, <1>4, <1>5, <1>6

(* And what it takes from its vectors, for another dimension.              *)
LEMMA VectorsSurvive ==
  ASSUME SurvivalInv, [Next]_vars, NEW f \in Files, Unchanged(f), Unchanged(f)',
         vectors[f] # {}, vectors'[f] = {}
  PROVE  DimOf[embedder] # lastUp.dim
<1>1. /\ work \in Work \cup {None}
      /\ vectors \in [Files -> SUBSET (Texts \X Embedders)]
      /\ tableDim \in {None, lastUp.dim}
  BY DEF SurvivalInv, ComparableInv, TypeOK, DimensionIsKnown
<1>2. (\E g \in Files : ReplaceFile(g)) \/ MigrateVectorTable \/ PutVectors \/ EndRun
  BY DEF Next, Edit, Remove, SkipFile, Start, WipeForeignSchema, OpenIndex, OpenTable, AskForRun,
         EmbedFile, FailToEmbed, PutDocs, PutRows, Stop, vars, tableVars
<1>3. ASSUME NEW g \in Files, ReplaceFile(g) PROVE FALSE
  BY <1>1, <1>3 DEF ReplaceFile
<1>4. ~PutVectors
  BY <1>1 DEF PutVectors, AddRecords, Work
<1>5. ~EndRun
  BY DEF EndRun, Unchanged
<1>6. CASE MigrateVectorTable
  BY <1>1, <1>6 DEF MigrateVectorTable, tableVars
<1> QED
  BY <1>2, <1>3, <1>4, <1>5, <1>6

(* Over every sequence of starts, crashes, failures and runs, a file that  *)
(* runs pass over loses its documents only to a build of another schema,   *)
(* and its vectors only to an embedder of another dimension, than those of *)
(* the last start that came up (storage/tantivy.rs open_or_create,         *)
(* storage/vector.rs migrate_vector_table, the commits of the pipeline).   *)
THEOREM OnlyUpgradesTakeAnswers == Spec => OnlyUpgradesLoseAnswers
<1>1. Init => SurvivalInv
  <2> HAVE Init
  <2>1. ComparableInv
    BY InitTypes
    DEF Init, ComparableInv, VectorsAreComparable, EntriesNameTheirMaker, OneModelInHand, TableFits
  <2>2. FingerprintsArePast
    BY DEF Init, FingerprintsArePast, Absent
  <2>3. CommitsLoseNothing /\ SchemaIsKnown /\ DimensionIsKnown
    BY DEF Init, CommitsLoseNothing, SchemaIsKnown, DimensionIsKnown
  <2> QED
    BY <2>1, <2>2, <2>3 DEF SurvivalInv
<1>2. SurvivalInv /\ [Next]_vars =>
        [\A f \in Files :
           (Unchanged(f) /\ Unchanged(f)') =>
              /\ (docs[f] = {disk[f]} /\ docs'[f] # {disk[f]}) => build # lastUp.build
              /\ (vectors[f] # {} /\ vectors'[f] = {}) => DimOf[embedder] # lastUp.dim]_vars
  BY DocumentsSurvive, VectorsSurvive
<1> QED
  BY <1>1, <1>2, SurvivalKept, PTL DEF Spec, OnlyUpgradesLoseAnswers
=============================================================================
