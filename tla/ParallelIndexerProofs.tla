------------------------ MODULE ParallelIndexerProofs ------------------------
(***************************************************************************)
(* Theorems about ParallelIndexer, for every set of files, every number of *)
(* workers and any combination of edits, errors and crashes: the pool      *)
(* keeps the promise of the fingerprint table and implements FreshIndex.   *)
(*                                                                         *)
(* The argument: no two workers hold one file; the contents of a file are  *)
(* numbered upwards, so that the stamp a worker has read stands above the  *)
(* stored one and not above what is on disk; and a file that is taken      *)
(* apart is put together again, and committed, before its stamp is stored. *)
(***************************************************************************)
EXTENDS ParallelIndexer, TLAPS

-----------------------------------------------------------------------------
(* The inductive invariant. *)

(* Stored stamps are of contents written in the past, and the content on   *)
(* disk is the latest of its file.                                         *)
StampsArePast ==
    \A f \in Files :
        /\ fingerprint[f] <= edits
        /\ disk[f] <= edits
        /\ disk[f] = Absent \/ fingerprint[f] <= disk[f]

(* What a worker may be doing once it has read the stamp, once it has      *)
(* found it to be another one than the stored, once it has read the file.  *)
Stamped == {"compare", "read", "deleteDocs", "deleteRows", "addDocs", "commitDocs",
            "upsertRows", "upsertFingerprint"}
Stale == Stamped \ {"compare"}
AfterRead == Stale \ {"read"}

HoldsFile(w) ==
    worker[w].pc # "free" => /\ phase = "pool"
                             /\ worker[w].file \in Files \ todo

(* The stamp is not older than the stored one nor newer than the content.  *)
StampInBetween(w) ==
    LET me == worker[w] IN
    me.pc \in Stamped => /\ me.stamp # Absent
                         /\ me.stamp <= edits
                         /\ disk[me.file] = Absent \/ me.stamp <= disk[me.file]
                         /\ fingerprint[me.file] <= me.stamp
                         /\ me.pc \in Stale => fingerprint[me.file] # me.stamp

(* What was read is what the stamp stands for, or newer.                   *)
ReadsWhatItStamps(w) ==
    LET me == worker[w] IN
    me.pc \in AfterRead => /\ me.source \notin Rejected \cup {Absent}
                           /\ me.stamp <= me.source
                           /\ me.source <= edits
                           /\ disk[me.file] = Absent \/ me.source <= disk[me.file]

(* What an attempt has done to the stores so far.                          *)
Progress(w) ==
    LET me == worker[w] IN
    /\ me.pc \in {"deleteRows", "addDocs"} => buffered[me.file] = {}
    /\ me.pc \in {"commitDocs", "upsertRows", "upsertFingerprint"} =>
            buffered[me.file] = {me.source}
    /\ me.pc \in {"upsertRows", "upsertFingerprint"} => docs[me.file] = {me.source}
    /\ me.pc \in {"addDocs", "commitDocs", "upsertRows"} => symbols[me.file] = {}
    /\ me.pc = "upsertFingerprint" => symbols[me.file] = {me.source}

WorkerInv(w) ==
    HoldsFile(w) /\ StampInBetween(w) /\ ReadsWhatItStamps(w) /\ Progress(w)

OneWorkerPerFile ==
    \A v, w \in Workers :
        v # w /\ worker[v].pc # "free" /\ worker[w].pc # "free" =>
            worker[v].file # worker[w].file

Vouched == UnchangedHasSymbols /\ UnchangedIsSearchable

IndInv ==
    TypeOK /\ StampsArePast /\ OneWorkerPerFile /\ Vouched /\ \A w \in Workers : WorkerInv(w)

-----------------------------------------------------------------------------
(* What the ways of moving a worker do to its local state. *)

LEMMA FreeType == Free \in WorkerState
  BY AttemptsAssumption DEF Free, WorkerState, WorkerPC, Absent

LEMMA AnotherAttempt ==
  ASSUME NEW x \in WorkerState, x.attempt < MaxAttempts
  PROVE  [x EXCEPT !.pc = "stat", !.attempt = @ + 1] \in WorkerState
<1> DEFINE y == [x EXCEPT !.pc = "stat", !.attempt = @ + 1]
<1>1. x.attempt + 1 \in 0 .. MaxAttempts
  BY AttemptsAssumption DEF WorkerState
<1>2. /\ y.attempt = x.attempt + 1 /\ y.pc = "stat"
      /\ y.file = x.file /\ y.stamp = x.stamp /\ y.source = x.source
  BY DEF WorkerState
<1> QED
  BY <1>1, <1>2 DEF WorkerState, WorkerPC

LEMMA FinishFacts ==
  ASSUME TypeOK, NEW w \in Workers, Finish(w)
  PROVE  /\ worker' \in [Workers -> WorkerState]
         /\ \A v \in Workers \ {w} : worker'[v] = worker[v]
         /\ worker'[w].pc = "free"
  BY FreeType DEF Finish, TypeOK, Free

LEMMA RetryFacts ==
  ASSUME TypeOK, NEW w \in Workers, Retry(w)
  PROVE  /\ worker' \in [Workers -> WorkerState]
         /\ \A v \in Workers \ {w} : worker'[v] = worker[v]
         /\ \/ worker'[w].pc = "free"
            \/ worker'[w].pc = "stat" /\ worker'[w].file = worker[w].file
<1>1. worker \in [Workers -> WorkerState] /\ worker[w] \in WorkerState
  BY DEF TypeOK
<1>2. CASE worker[w].attempt < MaxAttempts
  <2> DEFINE next == [worker[w] EXCEPT !.pc = "stat", !.attempt = @ + 1]
  <2>1. next \in WorkerState
    BY <1>1, <1>2, AnotherAttempt
  <2>2. worker' = [worker EXCEPT ![w] = next]
    BY <1>1, <1>2 DEF Retry
  <2>3. next.pc = "stat" /\ next.file = worker[w].file
    BY <1>1 DEF WorkerState
  <2> QED
    BY <1>1, <2>1, <2>2, <2>3
<1>3. CASE ~(worker[w].attempt < MaxAttempts)
  BY <1>3, FinishFacts DEF Retry
<1> QED
  BY <1>2, <1>3

LEMMA AdvanceFacts ==
  ASSUME TypeOK, NEW w \in Workers, NEW from, NEW to \in WorkerPC, Advance(w, from, to)
  PROVE  /\ worker' \in [Workers -> WorkerState]
         /\ \A v \in Workers \ {w} : worker'[v] = worker[v]
         /\ worker[w].pc = from /\ worker'[w].pc = to
         /\ worker'[w].file = worker[w].file
         /\ worker'[w].stamp = worker[w].stamp /\ worker'[w].source = worker[w].source
  BY DEF Advance, TypeOK, WorkerState

(* A worker that is free, or about to read the stamp of its file.          *)
LEMMA RestingWorker ==
  ASSUME NEW w \in Workers, worker[w].pc \in {"free", "stat"}, HoldsFile(w)
  PROVE  WorkerInv(w)
  BY DEF WorkerInv, StampInBetween, ReadsWhatItStamps, Progress, Stamped, Stale, AfterRead

(* What the invariant says of a worker with a file.                        *)
LEMMA HeldFile ==
  ASSUME IndInv, NEW w \in Workers, worker[w].pc # "free"
  PROVE  /\ worker[w] \in WorkerState /\ phase = "pool"
         /\ worker[w].file \in Files /\ worker[w].file \notin todo
         /\ disk[worker[w].file] \in Nat /\ fingerprint[worker[w].file] \in Nat
         /\ edits \in Nat /\ worker[w].stamp \in Nat /\ worker[w].source \in Nat
         /\ worker[w].pc \in Stale => ~Unchanged(worker[w].file)
<1>1. /\ worker[w] \in WorkerState /\ phase = "pool"
      /\ worker[w].file \in Files /\ worker[w].file \notin todo
  BY DEF IndInv, TypeOK, WorkerInv, HoldsFile
<1>2. /\ disk[worker[w].file] \in Nat /\ fingerprint[worker[w].file] \in Nat
      /\ edits \in Nat /\ worker[w].stamp \in Nat /\ worker[w].source \in Nat
  BY <1>1, MaxEditsAssumption DEF IndInv, TypeOK, StoresTypeOK, Version, Absent, WorkerState
<1>3. worker[w].pc \in Stale => ~Unchanged(worker[w].file)
  BY <1>1, <1>2 DEF IndInv, WorkerInv, StampInBetween, Unchanged, Exists, Stale
<1> QED
  BY <1>1, <1>2, <1>3

-----------------------------------------------------------------------------
(* What a step leaves alone. *)

(* A worker that does not move: its file is nobody else's, except that a   *)
(* commit publishes what it has buffered.                                  *)
LEMMA OthersKeep ==
  ASSUME IndInv, NEW v \in Workers, worker'[v] = worker[v], phase' = phase, todo' \subseteq todo,
         UNCHANGED <<disk, edits>>,
         worker[v].pc # "free" =>
            LET f == worker[v].file IN
            /\ fingerprint'[f] = fingerprint[f] /\ symbols'[f] = symbols[f]
            /\ buffered'[f] = buffered[f] /\ docs'[f] \in {docs[f], buffered[f]}
  PROVE  WorkerInv(v)'
<1>1. WorkerInv(v)
  BY DEF IndInv
<1>2. HoldsFile(v)'
  BY <1>1 DEF WorkerInv, HoldsFile
<1>3. CASE worker[v].pc = "free"
  BY <1>2, <1>3 DEF WorkerInv, StampInBetween, ReadsWhatItStamps, Progress, Stamped, Stale, AfterRead
<1>4. CASE worker[v].pc # "free"
  <2>1. StampInBetween(v)' /\ ReadsWhatItStamps(v)'
    BY <1>1, <1>4 DEF WorkerInv, StampInBetween, ReadsWhatItStamps
  <2>2. Progress(v)'
    BY <1>1, <1>4 DEF WorkerInv, Progress
  <2> QED
    BY <1>2, <2>1, <2>2 DEF WorkerInv
<1> QED
  BY <1>3, <1>4

(* The step of one worker at its file, or the end of its work on it.       *)
LEMMA WorkerStepKeeps ==
  ASSUME IndInv, TypeOK', StampsArePast', NEW w \in Workers, worker[w].pc # "free",
         UNCHANGED <<disk, edits, phase, todo>>,
         \A v \in Workers \ {w} : worker'[v] = worker[v],
         worker'[w].pc = "free" \/ worker'[w].file = worker[w].file,
         \A g \in Files \ {worker[w].file} :
            /\ fingerprint'[g] = fingerprint[g] /\ symbols'[g] = symbols[g]
            /\ buffered'[g] = buffered[g] /\ docs'[g] \in {docs[g], buffered[g]},
         WorkerInv(w)',
         LET f == worker[w].file IN
         fingerprint'[f] = disk[f] /\ disk[f] # Absent =>
            symbols'[f] = {disk[f]} /\ docs'[f] = {disk[f]} /\ buffered'[f] = {disk[f]}
  PROVE  IndInv'
<1>1. ASSUME NEW v \in Workers
      PROVE  WorkerInv(v)'
  <2>1. CASE v = w
    BY <2>1
  <2>2. CASE v # w
    <3>1. worker[v].pc # "free" => worker[v].file \in Files \ {worker[w].file}
      BY <2>2, HeldFile DEF IndInv, OneWorkerPerFile
    <3> QED
      BY <2>2, <3>1, OthersKeep
  <2> QED
    BY <2>1, <2>2
<1>2. OneWorkerPerFile'
  <2> SUFFICES ASSUME NEW u \in Workers, NEW v \in Workers, u # v,
                      worker'[u].pc # "free", worker'[v].pc # "free"
               PROVE  worker'[u].file # worker'[v].file
    BY DEF OneWorkerPerFile
  <2>1. ASSUME NEW x \in Workers, worker'[x].pc # "free"
        PROVE  worker[x].pc # "free" /\ worker'[x].file = worker[x].file
    BY <2>1
  <2> QED
    BY <2>1 DEF IndInv, OneWorkerPerFile
<1>3. ASSUME NEW g \in Files, Unchanged(g)'
      PROVE  /\ symbols'[g] = {disk'[g]}
             /\ docs'[g] = {disk'[g]} /\ buffered'[g] = {disk'[g]}
  <2>1. CASE g = worker[w].file
    BY <1>3, <2>1 DEF Unchanged, Exists
  <2>2. CASE g # worker[w].file
    <3>1. Unchanged(g)
      BY <1>3, <2>2 DEF Unchanged, Exists
    <3> QED
      BY <2>2, <3>1 DEF IndInv, Vouched, UnchangedHasSymbols, UnchangedIsSearchable
  <2> QED
    BY <2>1, <2>2
<1>4. Vouched'
  BY <1>3 DEF Vouched, UnchangedHasSymbols, UnchangedIsSearchable
<1> QED
  BY <1>1, <1>2, <1>4 DEF IndInv

(* A step of the run between pools that touches none of the four stores.   *)
LEMMA RunStepKeeps ==
  ASSUME IndInv, TypeOK', UNCHANGED <<disk, edits, fingerprint, symbols, buffered, docs>>,
         \A w \in Workers : worker'[w].pc = "free"
  PROVE  IndInv'
<1>1. StampsArePast' /\ Vouched'
  BY DEF IndInv, StampsArePast, Vouched, UnchangedHasSymbols, UnchangedIsSearchable, Unchanged,
         Exists
<1>2. \A w \in Workers : WorkerInv(w)'
  BY DEF WorkerInv, HoldsFile, StampInBetween, ReadsWhatItStamps, Progress, Stamped, Stale, AfterRead
<1>3. OneWorkerPerFile'
  BY DEF OneWorkerPerFile
<1> QED
  BY <1>1, <1>2, <1>3 DEF IndInv

-----------------------------------------------------------------------------
(* The user. *)

LEMMA UserStepKeeps ==
  ASSUME IndInv, UserStep
  PROVE  IndInv'
<1>1. PICK f \in Files :
        (Edit(f) \/ Remove(f)) /\ UNCHANGED <<runVars, worker, clustered, faults, cut>>
  BY DEF UserStep
<1>2. /\ edits \in Nat /\ edits' \in 0 .. MaxEdits /\ edits <= edits'
      /\ disk' \in [Files -> Version \cup {Absent}]
      /\ disk'[f] = Absent \/ (disk'[f] = edits + 1 /\ edits' = edits + 1)
      /\ \A g \in Files \ {f} : disk'[g] = disk[g]
      /\ UNCHANGED storeVars
  BY <1>1, MaxEditsAssumption DEF Edit, Remove, IndInv, TypeOK, StoresTypeOK, Version, Absent
<1>3. /\ UNCHANGED <<phase, todo, anyIndexed, batch, worker, clustered, faults, cut>>
      /\ UNCHANGED <<fingerprint, symbols, patterns, testLinks, buffered, docs, vectors>>
  BY <1>1, <1>2 DEF runVars, storeVars
<1>4. TypeOK'
  BY <1>2, <1>3 DEF IndInv, TypeOK, StoresTypeOK
<1>5. \A g \in Files : fingerprint[g] \in Nat /\ disk[g] \in Nat
  BY MaxEditsAssumption DEF IndInv, TypeOK, StoresTypeOK, Version, Absent
<1>6. StampsArePast'
  BY <1>2, <1>3, <1>5 DEF IndInv, StampsArePast, Absent
<1>7. \A g \in Files : Unchanged(g)' => Unchanged(g) /\ disk'[g] = disk[g]
  BY <1>2, <1>3, <1>5 DEF IndInv, StampsArePast, Unchanged, Exists
<1>8. Vouched'
  BY <1>3, <1>7 DEF IndInv, Vouched, UnchangedHasSymbols, UnchangedIsSearchable
<1>9. OneWorkerPerFile'
  BY <1>3 DEF IndInv, OneWorkerPerFile
<1>10. ASSUME NEW w \in Workers
       PROVE  WorkerInv(w)'
  <2>1. WorkerInv(w)
    BY DEF IndInv
  <2>2. CASE worker[w].pc \in {"free", "stat"}
    BY <1>3, <2>1, <2>2
    DEF WorkerInv, HoldsFile, StampInBetween, ReadsWhatItStamps, Progress, Stamped, Stale, AfterRead
  <2>3. CASE worker[w].pc \notin {"free", "stat"}
    <3>1. HoldsFile(w)' /\ Progress(w)'
      BY <1>3, <2>1 DEF WorkerInv, HoldsFile, Progress
    <3>2. /\ worker[w].file \in Files
          /\ worker[w].stamp \in Nat /\ worker[w].source \in Nat
      BY <2>3, HeldFile
    <3>3. StampInBetween(w)'
      BY <1>2, <1>3, <1>5, <2>1, <3>2 DEF WorkerInv, StampInBetween, Absent
    <3>4. ReadsWhatItStamps(w)'
      BY <1>2, <1>3, <1>5, <2>1, <3>2 DEF WorkerInv, ReadsWhatItStamps, Absent
    <3> QED
      BY <3>1, <3>3, <3>4 DEF WorkerInv
  <2> QED
    BY <2>2, <2>3
<1> QED
  BY <1>4, <1>6, <1>8, <1>9, <1>10 DEF IndInv

-----------------------------------------------------------------------------
(* A worker, one lemma per action. *)

LEMMA TakeKeeps ==
  ASSUME IndInv, NEW w \in Workers, Take(w)
  PROVE  IndInv'
<1>1. PICK f \in todo :
        /\ todo' = todo \ {f}
        /\ worker' = [worker EXCEPT ![w] = [Free EXCEPT !.pc = "stat", !.file = f, !.attempt = 1]]
  BY DEF Take
<1> DEFINE me == [Free EXCEPT !.pc = "stat", !.file = f, !.attempt = 1]
<1>2. /\ f \in Files /\ phase = "pool" /\ worker[w].pc = "free"
      /\ UNCHANGED <<disk, edits, phase, anyIndexed, batch, clustered, faults, cut>>
      /\ UNCHANGED <<fingerprint, symbols, patterns, testLinks, buffered, docs, vectors>>
  BY DEF Take, IndInv, TypeOK, diskVars, storeVars
<1>3. me \in WorkerState /\ me.pc = "stat" /\ me.file = f
  <2>1. /\ me.pc = "stat" /\ me.file = f /\ me.attempt = 1
        /\ me.stamp = Free.stamp /\ me.source = Free.source
    BY DEF Free
  <2>2. 1 \in 0 .. MaxAttempts
    BY AttemptsAssumption
  <2> QED
    BY <1>2, <2>1, <2>2, FreeType DEF WorkerState, WorkerPC
<1> HIDE DEF me
<1>4. /\ worker' \in [Workers -> WorkerState] /\ worker'[w] = me
      /\ \A v \in Workers \ {w} : worker'[v] = worker[v]
  BY <1>1, <1>3 DEF IndInv, TypeOK, me
<1>5. TypeOK'
  BY <1>1, <1>2, <1>4 DEF IndInv, TypeOK, StoresTypeOK
<1>6. StampsArePast' /\ Vouched'
  BY <1>2 DEF IndInv, StampsArePast, Vouched, UnchangedHasSymbols, UnchangedIsSearchable,
              Unchanged, Exists
<1>7. OneWorkerPerFile'
  <2>1. \A v \in Workers \ {w} : worker[v].pc # "free" => worker[v].file # f
    BY HeldFile
  <2>2. SUFFICES ASSUME NEW u \in Workers, NEW v \in Workers, u # v,
                       worker'[u].pc # "free", worker'[v].pc # "free"
                PROVE  worker'[u].file # worker'[v].file
    BY DEF OneWorkerPerFile
  <2> QED
    BY <1>3, <1>4, <2>1, <2>2 DEF IndInv, OneWorkerPerFile
<1>8. ASSUME NEW v \in Workers
      PROVE  WorkerInv(v)'
  <2>1. CASE v = w
    <3>1. HoldsFile(w)'
      BY <1>1, <1>2, <1>3, <1>4 DEF HoldsFile
    <3> QED
      BY <1>3, <1>4, <2>1, <3>1
      DEF WorkerInv, StampInBetween, ReadsWhatItStamps, Progress, Stamped, Stale, AfterRead
  <2>2. CASE v # w
    BY <1>1, <1>2, <1>4, <2>2, OthersKeep
  <2> QED
    BY <2>1, <2>2
<1> QED
  BY <1>5, <1>6, <1>7, <1>8 DEF IndInv

(* An attempt that ends, with or without another, changes no store.        *)
LEMMA AttemptEndKeeps ==
  ASSUME IndInv, NEW w \in Workers, worker[w].pc # "free", Retry(w) \/ Finish(w),
         UNCHANGED <<diskVars, storeVars, runVars, clustered, cut>>, faults' \in 0 .. MaxFaults
  PROVE  IndInv'
<1>1. UNCHANGED <<disk, edits, fingerprint, symbols, patterns, testLinks, buffered, docs, vectors,
                  phase, todo, anyIndexed, batch, clustered, cut>>
  BY DEF diskVars, storeVars, runVars
<1>2. /\ worker' \in [Workers -> WorkerState]
      /\ \A v \in Workers \ {w} : worker'[v] = worker[v]
      /\ \/ worker'[w].pc = "free"
         \/ worker'[w].pc = "stat" /\ worker'[w].file = worker[w].file
  BY RetryFacts, FinishFacts DEF IndInv
<1>3. TypeOK'
  BY <1>1, <1>2 DEF IndInv, TypeOK, StoresTypeOK
<1>4. StampsArePast'
  BY <1>1 DEF IndInv, StampsArePast
<1>5. WorkerInv(w)'
  <2>1. HoldsFile(w)'
    BY <1>1, <1>2, HeldFile DEF HoldsFile
  <2> QED
    BY <1>2, <2>1
    DEF WorkerInv, StampInBetween, ReadsWhatItStamps, Progress, Stamped, Stale, AfterRead
<1> DEFINE f == worker[w].file
<1>6. fingerprint'[f] = disk[f] /\ disk[f] # Absent =>
        symbols'[f] = {disk[f]} /\ docs'[f] = {disk[f]} /\ buffered'[f] = {disk[f]}
  BY <1>1, HeldFile
  DEF IndInv, Vouched, UnchangedHasSymbols, UnchangedIsSearchable, Unchanged, Exists
<1> QED
  BY <1>1, <1>2, <1>3, <1>4, <1>5, <1>6, WorkerStepKeeps

LEMMA AttemptFailsKeeps ==
  ASSUME IndInv, NEW w \in Workers, AttemptFails(w)
  PROVE  IndInv'
  BY AttemptEndKeeps, ParallelFaultsAssumption DEF AttemptFails, Fault, IndInv, TypeOK

(* A step to the next label that changes no store and no stamp.            *)
LEMMA PassKeeps ==
  ASSUME IndInv, NEW w \in Workers, worker[w].pc # "free",
         UNCHANGED <<diskVars, storeVars, runVars, clustered, faults, cut>>,
         worker' \in [Workers -> WorkerState],
         \A v \in Workers \ {w} : worker'[v] = worker[v],
         worker'[w].file = worker[w].file, WorkerInv(w)'
  PROVE  IndInv'
<1>1. UNCHANGED <<disk, edits, fingerprint, symbols, patterns, testLinks, buffered, docs, vectors,
                  phase, todo, anyIndexed, batch, clustered, faults, cut>>
  BY DEF diskVars, storeVars, runVars
<1>2. TypeOK'
  BY <1>1 DEF IndInv, TypeOK, StoresTypeOK
<1>3. StampsArePast'
  BY <1>1 DEF IndInv, StampsArePast
<1> DEFINE f == worker[w].file
<1>4. fingerprint'[f] = disk[f] /\ disk[f] # Absent =>
        symbols'[f] = {disk[f]} /\ docs'[f] = {disk[f]} /\ buffered'[f] = {disk[f]}
  BY <1>1, HeldFile
  DEF IndInv, Vouched, UnchangedHasSymbols, UnchangedIsSearchable, Unchanged, Exists
<1> QED
  BY <1>1, <1>2, <1>3, <1>4, WorkerStepKeeps

(* The stamp of a file is its content's number, the latest.                *)
LEMMA StatKeeps ==
  ASSUME IndInv, NEW w \in Workers, Stat(w)
  PROVE  IndInv'
<1> DEFINE f == worker[w].file
<1>1. worker[w].pc = "stat"
  BY DEF Stat
<1>2. CASE Exists(f)
  <2>1. /\ f \in Files /\ worker[w] \in WorkerState /\ phase = "pool" /\ f \notin todo
        /\ disk[f] \in Version \cup {Absent} /\ disk[f] # Absent
        /\ fingerprint[f] <= disk[f] /\ disk[f] <= edits
    BY <1>1, <1>2, HeldFile DEF IndInv, TypeOK, StoresTypeOK, StampsArePast, Exists
  <2>2. worker' = [worker EXCEPT ![w].pc = "compare", ![w].stamp = disk[f]]
    BY <1>2 DEF Stat
  <2>3. /\ worker'[w].pc = "compare" /\ worker'[w].stamp = disk[f] /\ worker'[w].file = f
        /\ \A v \in Workers \ {w} : worker'[v] = worker[v]
        /\ worker' \in [Workers -> WorkerState]
    BY <2>1, <2>2 DEF IndInv, TypeOK, WorkerState, WorkerPC
  <2>4. UNCHANGED <<diskVars, storeVars, runVars, clustered, faults, cut>>
    BY DEF Stat
  <2>5. StampInBetween(w)'
    BY <2>1, <2>3, <2>4, HeldFile, <1>1
    DEF StampInBetween, Stamped, Stale, diskVars, storeVars
  <2>6. WorkerInv(w)'
    BY <2>1, <2>3, <2>4, <2>5
    DEF WorkerInv, HoldsFile, ReadsWhatItStamps, Progress, Stale, AfterRead, Stamped, runVars
  <2> QED
    BY <1>1, <2>3, <2>4, <2>6, PassKeeps
<1>3. CASE ~Exists(f)
  <2>1. faults \in 0 .. MaxFaults
    BY DEF IndInv, TypeOK
  <2> QED
    BY <1>1, <1>3, <2>1, AttemptEndKeeps DEF Stat
<1> QED
  BY <1>2, <1>3

LEMMA CompareKeeps ==
  ASSUME IndInv, NEW w \in Workers, Compare(w)
  PROVE  IndInv'
<1> DEFINE f == worker[w].file
<1>1. worker[w].pc = "compare" /\ UNCHANGED <<diskVars, storeVars, runVars, clustered, faults, cut>>
  BY DEF Compare
<1>2. CASE fingerprint[f] = worker[w].stamp
  <2>1. faults' \in 0 .. MaxFaults
    BY <1>1 DEF IndInv, TypeOK
  <2> QED
    BY <1>1, <1>2, <2>1, AttemptEndKeeps DEF Compare
<1>3. CASE fingerprint[f] # worker[w].stamp
  <2>1. Advance(w, "compare", "read")
    BY <1>3 DEF Compare
  <2>2. /\ worker' \in [Workers -> WorkerState]
        /\ \A v \in Workers \ {w} : worker'[v] = worker[v]
        /\ worker'[w].pc = "read" /\ worker'[w].file = f /\ worker'[w].stamp = worker[w].stamp
    BY <2>1, AdvanceFacts DEF WorkerPC, IndInv
  <2>3. HoldsFile(w)' /\ StampInBetween(w)'
    BY <1>1, <1>3, <2>2
    DEF IndInv, WorkerInv, HoldsFile, StampInBetween, Stamped, Stale, diskVars, storeVars, runVars
  <2>4. WorkerInv(w)'
    BY <2>2, <2>3 DEF WorkerInv, ReadsWhatItStamps, Progress, AfterRead
  <2> QED
    BY <1>1, <2>2, <2>4, PassKeeps
<1> QED
  BY <1>2, <1>3

LEMMA ReadKeeps ==
  ASSUME IndInv, NEW w \in Workers, Read(w)
  PROVE  IndInv'
<1> DEFINE f == worker[w].file
<1>1. worker[w].pc = "read" /\ UNCHANGED <<diskVars, storeVars, runVars, clustered, faults, cut>>
  BY DEF Read
<1>2. CASE Exists(f) /\ disk[f] \notin Rejected
  <2>1. /\ f \in Files /\ worker[w] \in WorkerState /\ disk[f] \in Version \cup {Absent}
        /\ disk[f] # Absent /\ disk[f] \in Nat /\ disk[f] <= edits
    BY <1>1, <1>2, HeldFile DEF IndInv, TypeOK, StoresTypeOK, StampsArePast, Exists
  <2>2. worker' = [worker EXCEPT ![w].pc = "deleteDocs", ![w].source = disk[f]]
    BY <1>2 DEF Read
  <2>3. /\ worker'[w].pc = "deleteDocs" /\ worker'[w].source = disk[f] /\ worker'[w].file = f
        /\ worker'[w].stamp = worker[w].stamp
        /\ \A v \in Workers \ {w} : worker'[v] = worker[v]
        /\ worker' \in [Workers -> WorkerState]
    BY <2>1, <2>2 DEF IndInv, TypeOK, WorkerState, WorkerPC
  <2>4. HoldsFile(w)' /\ StampInBetween(w)'
    BY <1>1, <2>3
    DEF IndInv, WorkerInv, HoldsFile, StampInBetween, Stamped, Stale, diskVars, storeVars, runVars
  <2>5. ReadsWhatItStamps(w)'
    BY <1>1, <1>2, <2>1, <2>3
    DEF IndInv, WorkerInv, StampInBetween, ReadsWhatItStamps, Stamped, AfterRead, Stale, diskVars
  <2>6. WorkerInv(w)'
    BY <2>3, <2>4, <2>5 DEF WorkerInv, Progress
  <2> QED
    BY <1>1, <2>3, <2>6, PassKeeps
<1>3. CASE ~(Exists(f) /\ disk[f] \notin Rejected)
  <2>1. faults' \in 0 .. MaxFaults
    BY <1>1 DEF IndInv, TypeOK
  <2> QED
    BY <1>1, <1>3, <2>1, AttemptEndKeeps DEF Read
<1> QED
  BY <1>2, <1>3

(* A statement on the stores of a file that is out of date stays without   *)
(* effect on what is vouched for.                                          *)
LEMMA StatementKeeps ==
  ASSUME IndInv, TypeOK', NEW w \in Workers, NEW from \in AfterRead, NEW to \in AfterRead,
         Advance(w, from, to), UNCHANGED <<disk, edits, fingerprint, phase, todo>>,
         \A g \in Files \ {worker[w].file} :
            symbols'[g] = symbols[g] /\ buffered'[g] = buffered[g]
            /\ docs'[g] \in {docs[g], buffered[g]},
         Progress(w)'
  PROVE  IndInv'
<1> DEFINE f == worker[w].file
<1>1. to \in WorkerPC
  BY DEF AfterRead, Stale, Stamped, WorkerPC
<1>2. /\ \A v \in Workers \ {w} : worker'[v] = worker[v]
      /\ worker[w].pc = from /\ worker'[w].pc = to /\ worker'[w].file = f
      /\ worker'[w].stamp = worker[w].stamp /\ worker'[w].source = worker[w].source
  BY <1>1, AdvanceFacts DEF IndInv
<1>3. from # "free" /\ from \in Stale /\ ~Unchanged(f)
  BY <1>2, HeldFile DEF AfterRead, Stale, Stamped
<1>4. WorkerInv(w)
  BY DEF IndInv
<1>5. HoldsFile(w)' /\ StampInBetween(w)' /\ ReadsWhatItStamps(w)'
  BY <1>2, <1>3, <1>4 DEF WorkerInv, HoldsFile, StampInBetween, ReadsWhatItStamps, AfterRead, Stale
<1>6. StampsArePast'
  BY DEF IndInv, StampsArePast
<1>7. ~(fingerprint'[f] = disk[f] /\ disk[f] # Absent)
  BY <1>3 DEF Unchanged, Exists
<1> QED
  BY <1>2, <1>3, <1>5, <1>6, <1>7, WorkerStepKeeps DEF WorkerInv

LEMMA DeleteOldDocsKeeps ==
  ASSUME IndInv, NEW w \in Workers, DeleteOldDocs(w)
  PROVE  IndInv'
<1> USE DEF DeleteOldDocs, DeleteDocs, diskVars, sqliteVars, runVars
<1>1. worker' \in [Workers -> WorkerState] /\ worker[w].pc = "deleteDocs"
  BY AdvanceFacts DEF IndInv, WorkerPC
<1>2. worker[w].file \in Files
  BY <1>1, HeldFile
<1>3. TypeOK'
  BY <1>1 DEF IndInv, TypeOK, StoresTypeOK
<1>4. worker'[w].pc = "deleteRows" /\ worker'[w].file = worker[w].file
  BY AdvanceFacts DEF IndInv, WorkerPC
<1>5. Progress(w)'
  BY <1>2, <1>4 DEF Progress, IndInv, TypeOK, StoresTypeOK
<1> QED
  BY <1>2, <1>3, <1>5, StatementKeeps DEF AfterRead, Stale, Stamped, IndInv, TypeOK, StoresTypeOK

LEMMA DeleteOldRowsKeeps ==
  ASSUME IndInv, NEW w \in Workers, DeleteOldRows(w)
  PROVE  IndInv'
<1> USE DEF DeleteOldRows, DeleteSymbolsByFile, DeleteFrameworkPatternsByFile, diskVars,
            tantivyVars, runVars
<1>1. worker' \in [Workers -> WorkerState] /\ worker[w].pc = "deleteRows"
  BY AdvanceFacts DEF IndInv, WorkerPC
<1>2. worker[w].file \in Files
  BY <1>1, HeldFile
<1>3. TypeOK'
  BY <1>1 DEF IndInv, TypeOK, StoresTypeOK
<1>4. worker'[w].pc = "addDocs" /\ worker'[w].file = worker[w].file
  BY AdvanceFacts DEF IndInv, WorkerPC
<1>5. Progress(w)'
  BY <1>1, <1>2, <1>4 DEF Progress, IndInv, TypeOK, StoresTypeOK, WorkerInv
<1> QED
  BY <1>2, <1>3, <1>5, StatementKeeps DEF AfterRead, Stale, Stamped, IndInv, TypeOK, StoresTypeOK

LEMMA AddNewDocsKeeps ==
  ASSUME IndInv, NEW w \in Workers, AddNewDocs(w)
  PROVE  IndInv'
<1> USE DEF AddNewDocs, AddDocs, diskVars, sqliteVars, runVars
<1> DEFINE f == worker[w].file
<1>1. worker' \in [Workers -> WorkerState] /\ worker[w].pc = "addDocs"
  BY AdvanceFacts DEF IndInv, WorkerPC
<1>2. f \in Files /\ worker[w].source \in Version
  BY <1>1, HeldFile
  DEF IndInv, WorkerInv, ReadsWhatItStamps, WorkerState, AfterRead, Stale, Stamped
<1>3. TypeOK'
  BY <1>1, <1>2 DEF IndInv, TypeOK, StoresTypeOK
<1>4. /\ worker'[w].pc = "commitDocs" /\ worker'[w].file = f
      /\ worker'[w].source = worker[w].source
  BY AdvanceFacts DEF IndInv, WorkerPC
<1>5. Progress(w)
  BY DEF IndInv, WorkerInv
<1>6. Progress(w)'
  <2>1. buffered'[f] = buffered[f] \cup {worker[w].source} /\ symbols' = symbols
    BY <1>2 DEF IndInv, TypeOK, StoresTypeOK
  <2> QED
    BY <1>1, <1>4, <1>5, <2>1 DEF Progress
<1> QED
  BY <1>2, <1>3, <1>6, StatementKeeps DEF AfterRead, Stale, Stamped, IndInv, TypeOK, StoresTypeOK

(* The commit of one worker publishes what the others have buffered.       *)
LEMMA CommitDocsKeeps ==
  ASSUME IndInv, NEW w \in Workers, CommitDocs(w)
  PROVE  IndInv'
<1> USE DEF CommitDocs, Commit, diskVars, sqliteVars, runVars
<1>1. worker' \in [Workers -> WorkerState] /\ worker[w].pc = "commitDocs"
  BY AdvanceFacts DEF IndInv, WorkerPC
<1>2. TypeOK'
  BY <1>1 DEF IndInv, TypeOK, StoresTypeOK
<1>3. /\ worker'[w].pc = "upsertRows" /\ worker'[w].file = worker[w].file
      /\ worker'[w].source = worker[w].source
  BY AdvanceFacts DEF IndInv, WorkerPC
<1>4. Progress(w)'
  BY <1>1, <1>3 DEF Progress, IndInv, WorkerInv
<1> QED
  BY <1>2, <1>4, StatementKeeps DEF AfterRead, Stale, Stamped

LEMMA UpsertRowsKeeps ==
  ASSUME IndInv, NEW w \in Workers, UpsertRows(w)
  PROVE  IndInv'
<1> USE DEF UpsertRows, UpsertSymbols, UpsertFrameworkPatterns, CreateTestLinks, diskVars,
            tantivyVars, runVars
<1> DEFINE f == worker[w].file
<1>1. worker' \in [Workers -> WorkerState] /\ worker[w].pc = "upsertRows"
  BY AdvanceFacts DEF IndInv, WorkerPC
<1>2. f \in Files /\ worker[w].source \in Version
  BY <1>1, HeldFile
  DEF IndInv, WorkerInv, ReadsWhatItStamps, WorkerState, AfterRead, Stale, Stamped
<1>3. TypeOK'
  BY <1>1, <1>2 DEF IndInv, TypeOK, StoresTypeOK
<1>4. /\ worker'[w].pc = "upsertFingerprint" /\ worker'[w].file = f
      /\ worker'[w].source = worker[w].source
  BY AdvanceFacts DEF IndInv, WorkerPC
<1>5. Progress(w)
  BY DEF IndInv, WorkerInv
<1>6. Progress(w)'
  <2>1. symbols'[f] = symbols[f] \cup {worker[w].source}
    BY <1>2 DEF IndInv, TypeOK, StoresTypeOK
  <2> QED
    BY <1>1, <1>4, <1>5, <2>1 DEF Progress
<1> QED
  BY <1>2, <1>3, <1>6, StatementKeeps DEF AfterRead, Stale, Stamped, IndInv, TypeOK, StoresTypeOK

(* The stamp is stored when the stores hold the content it stands for, or  *)
(* when the file has changed meanwhile.                                    *)
LEMMA RecordFingerprintKeeps ==
  ASSUME IndInv, NEW w \in Workers, RecordFingerprint(w)
  PROVE  IndInv'
<1> USE DEF RecordFingerprint, UpsertFingerprint, diskVars, tantivyVars
<1> DEFINE f == worker[w].file
<1>1. /\ worker' \in [Workers -> WorkerState] /\ worker[w].pc = "upsertFingerprint"
      /\ \A v \in Workers \ {w} : worker'[v] = worker[v]
      /\ worker'[w].pc = "free"
  BY FinishFacts DEF IndInv
<1>2. /\ f \in Files /\ worker[w].stamp \in Version \cup {Absent}
      /\ disk[f] \in Nat /\ worker[w].stamp \in Nat /\ worker[w].source \in Nat
  BY <1>1, HeldFile DEF WorkerState
<1>3. TypeOK'
  BY <1>1, <1>2 DEF IndInv, TypeOK, StoresTypeOK
<1>4. /\ fingerprint'[f] = worker[w].stamp
      /\ \A g \in Files \ {f} : fingerprint'[g] = fingerprint[g]
  BY <1>2 DEF IndInv, TypeOK, StoresTypeOK
<1>5. WorkerInv(w)
  BY DEF IndInv
<1>6. /\ worker[w].stamp <= edits
      /\ disk[f] = Absent \/ worker[w].stamp <= disk[f]
      /\ worker[w].stamp <= worker[w].source
      /\ disk[f] = Absent \/ worker[w].source <= disk[f]
      /\ buffered[f] = {worker[w].source} /\ docs[f] = {worker[w].source}
      /\ symbols[f] = {worker[w].source}
  BY <1>1, <1>5
  DEF WorkerInv, StampInBetween, ReadsWhatItStamps, Progress, Stamped, Stale, AfterRead
<1>7. StampsArePast'
  <2>1. UNCHANGED <<disk, edits>>
    OBVIOUS
  <2>2. ASSUME NEW g \in Files
        PROVE  /\ fingerprint'[g] <= edits /\ disk[g] <= edits
               /\ disk[g] = Absent \/ fingerprint'[g] <= disk[g]
    <3>1. CASE g = f
      BY <1>4, <1>6, <3>1 DEF IndInv, StampsArePast
    <3>2. CASE g # f
      BY <1>4, <3>2 DEF IndInv, StampsArePast
    <3> QED
      BY <3>1, <3>2
  <2> QED
    BY <2>1, <2>2 DEF StampsArePast
<1>8. WorkerInv(w)'
  BY <1>1 DEF WorkerInv, HoldsFile, StampInBetween, ReadsWhatItStamps, Progress, Stamped, Stale,
              AfterRead
<1>9. fingerprint'[f] = disk[f] /\ disk[f] # Absent =>
        symbols'[f] = {disk[f]} /\ docs'[f] = {disk[f]} /\ buffered'[f] = {disk[f]}
  BY <1>2, <1>4, <1>6
<1> QED
  BY <1>1, <1>3, <1>4, <1>7, <1>8, <1>9, WorkerStepKeeps

-----------------------------------------------------------------------------
(* The run around the pool. *)

(* While no pool is at work no worker has a file.                          *)
LEMMA OutsideThePool ==
  ASSUME IndInv, phase # "pool"
  PROVE  \A w \in Workers : worker[w].pc = "free"
  BY DEF IndInv, WorkerInv, HoldsFile

LEMMA StartRunKeeps ==
  ASSUME IndInv, NEW first \in {"clean", "pool"}, NEW files \in SUBSET Files,
         StartRun(first, files)
  PROVE  IndInv'
<1> USE DEF StartRun, diskVars, storeVars
<1>1. TypeOK'
  BY DEF IndInv, TypeOK, StoresTypeOK, Phase
<1> QED
  BY <1>1, OutsideThePool, RunStepKeeps

LEMMA CleanDeletedKeeps ==
  ASSUME IndInv, CleanDeleted
  PROVE  IndInv'
<1> DEFINE gone == Fingerprinted \ todo
<1>1. /\ UNCHANGED <<disk, edits, patterns, testLinks, todo, anyIndexed, batch, worker, faults, cut>>
      /\ phase' = "pool" /\ phase = "clean"
      /\ symbols' = [f \in Files |-> IF f \in gone THEN {} ELSE symbols[f]]
      /\ fingerprint' = [f \in Files |-> IF f \in gone THEN Absent ELSE fingerprint[f]]
      /\ buffered' = [f \in Files |-> IF f \in gone THEN {} ELSE buffered[f]]
      /\ vectors' = [f \in Files |-> IF f \in gone THEN {} ELSE vectors[f]]
      /\ clustered' = [f \in Files |-> clustered[f] /\ f \notin gone]
      /\ docs' = docs \/ docs' = buffered'
  BY DEF CleanDeleted, diskVars
<1>2. docs' \in [Files -> SUBSET Version]
  BY <1>1 DEF IndInv, TypeOK, StoresTypeOK
<1>3. TypeOK'
  BY <1>1, <1>2 DEF IndInv, TypeOK, StoresTypeOK, Phase
<1>4. StampsArePast'
  BY <1>1, MaxEditsAssumption
  DEF IndInv, StampsArePast, TypeOK, StoresTypeOK, Version, Absent
<1>5. ASSUME NEW f \in Files, Unchanged(f)'
      PROVE  symbols'[f] = {disk'[f]} /\ docs'[f] = {disk'[f]} /\ buffered'[f] = {disk'[f]}
  <2>1. f \notin gone /\ Unchanged(f)
    BY <1>1, <1>5 DEF Unchanged, Exists
  <2> QED
    BY <1>1, <2>1 DEF IndInv, Vouched, UnchangedHasSymbols, UnchangedIsSearchable
<1>6. Vouched'
  BY <1>5 DEF Vouched, UnchangedHasSymbols, UnchangedIsSearchable
<1>7. \A w \in Workers : worker'[w].pc = "free"
  BY <1>1, OutsideThePool
<1>8. OneWorkerPerFile' /\ \A w \in Workers : WorkerInv(w)'
  BY <1>7 DEF OneWorkerPerFile, WorkerInv, HoldsFile, StampInBetween, ReadsWhatItStamps, Progress,
              Stamped, Stale, AfterRead
<1> QED
  BY <1>3, <1>4, <1>6, <1>8 DEF IndInv

LEMMA RunStepsKeep ==
  ASSUME IndInv, RunStep
  PROVE  IndInv'
<1> USE DEF diskVars, storeVars, sqliteVars, tantivyVars
<1>1. CASE Scan
  BY <1>1, StartRunKeeps DEF Scan
<1>2. CASE CleanDeleted
  BY <1>2, CleanDeletedKeeps
<1>3. CASE JoinPool
  <2>1. TypeOK'
    BY <1>3 DEF JoinPool, IndInv, TypeOK, StoresTypeOK, Phase
  <2> QED
    BY <1>3, <2>1, RunStepKeeps DEF JoinPool
<1>4. CASE SelectBatch
  <2>1. phase' \in {"idle", "embed"}
    BY <1>4 DEF SelectBatch
  <2>2. batch' \in [Files -> SUBSET Version]
    BY <1>4 DEF SelectBatch, IndInv, TypeOK, StoresTypeOK
  <2>3. TypeOK'
    BY <1>4, <2>1, <2>2 DEF SelectBatch, IndInv, TypeOK, StoresTypeOK, Phase
  <2> QED
    BY <1>4, <2>3, RunStepKeeps, OutsideThePool DEF SelectBatch
<1>5. CASE Embed
  <2>1. TypeOK'
    BY <1>5 DEF Embed, IndInv, TypeOK, StoresTypeOK, Phase
  <2> QED
    BY <1>5, <2>1, RunStepKeeps, OutsideThePool DEF Embed
<1>6. CASE AddBatch
  <2>1. TypeOK'
    BY <1>6 DEF AddBatch, IndInv, TypeOK, StoresTypeOK, Phase
  <2> QED
    BY <1>6, <2>1, RunStepKeeps, OutsideThePool DEF AddBatch
<1>7. CASE UpsertClusters
  <2>1. TypeOK'
    BY <1>7 DEF UpsertClusters, IndInv, TypeOK, StoresTypeOK, Phase, NoBatch
  <2> QED
    BY <1>7, <2>1, RunStepKeeps, OutsideThePool DEF UpsertClusters
<1> QED
  BY <1>1, <1>2, <1>3, <1>4, <1>5, <1>6, <1>7 DEF RunStep

LEMMA FailRunKeeps ==
  ASSUME IndInv, FailRun
  PROVE  IndInv'
<1> USE DEF FailRun, EndAllLocals, diskVars, storeVars
<1>1. TypeOK'
  BY ParallelFaultsAssumption DEF Fault, IndInv, TypeOK, StoresTypeOK, Phase, NoBatch
<1> QED
  BY <1>1, RunStepKeeps, OutsideThePool

(* A crash loses what was buffered, which for an unchanged file is nothing *)
(* that was not committed.                                                 *)
LEMMA CrashKeeps ==
  ASSUME IndInv, Crash
  PROVE  IndInv'
<1> USE DEF Crash, EndAllLocals, LoseBuffered, diskVars, sqliteVars
<1>1. TypeOK'
  BY ParallelFaultsAssumption, FreeType
  DEF Fault, IndInv, TypeOK, StoresTypeOK, Phase, NoBatch
<1>2. StampsArePast'
  BY DEF IndInv, StampsArePast
<1>3. Vouched'
  BY DEF IndInv, Vouched, UnchangedHasSymbols, UnchangedIsSearchable, Unchanged, Exists
<1>4. \A w \in Workers : worker'[w].pc = "free"
  BY DEF Free
<1>5. OneWorkerPerFile' /\ \A w \in Workers : WorkerInv(w)'
  BY <1>4 DEF OneWorkerPerFile, WorkerInv, HoldsFile, StampInBetween, ReadsWhatItStamps, Progress,
              Stamped, Stale, AfterRead
<1> QED
  BY <1>1, <1>2, <1>3, <1>5 DEF IndInv

LEMMA InitInv == Init => IndInv
<1> SUFFICES ASSUME Init PROVE IndInv
  OBVIOUS
<1> USE DEF Init, StoresInit, Nowhere, NoBatch
<1>1. TypeOK
  <2>1. edits \in 0 .. MaxEdits /\ faults \in 0 .. MaxFaults
    BY MaxEditsAssumption, ParallelFaultsAssumption
  <2>2. StoresTypeOK
    BY <2>1 DEF StoresTypeOK
  <2> QED
    BY <2>1, <2>2, FreeType DEF TypeOK, Phase
<1>2. StampsArePast
  <2>1. edits = 0 /\ \A f \in Files : fingerprint[f] = 0 /\ disk[f] = 0
    BY DEF Absent
  <2>2. 0 <= 0
    OBVIOUS
  <2> QED
    BY ONLY <2>1, <2>2 DEF StampsArePast, Absent
<1>3. Vouched
  BY DEF Vouched, UnchangedHasSymbols, UnchangedIsSearchable, Unchanged, Exists
<1>4. \A w \in Workers : worker[w].pc = "free"
  BY DEF Free
<1>5. OneWorkerPerFile /\ \A w \in Workers : WorkerInv(w)
  BY <1>4 DEF OneWorkerPerFile, WorkerInv, HoldsFile, StampInBetween, ReadsWhatItStamps, Progress,
              Stamped, Stale, AfterRead
<1> QED
  BY <1>1, <1>2, <1>3, <1>5 DEF IndInv

LEMMA WorkerStepInv ==
  ASSUME IndInv, NEW w \in Workers, WorkerStep(w)
  PROVE  IndInv'
  BY TakeKeeps, StatKeeps, CompareKeeps, ReadKeeps, DeleteOldDocsKeeps, DeleteOldRowsKeeps,
     AddNewDocsKeeps, CommitDocsKeeps, UpsertRowsKeeps, RecordFingerprintKeeps
  DEF WorkerStep

LEMMA NextInv == IndInv /\ [Next]_vars => IndInv'
<1> SUFFICES ASSUME IndInv, [Next]_vars PROVE IndInv'
  OBVIOUS
<1>1. CASE UserStep
  BY <1>1, UserStepKeeps
<1>2. CASE RunStep
  BY <1>2, RunStepsKeep
<1>3. CASE IndexPaths
  BY <1>3, StartRunKeeps DEF IndexPaths
<1>4. ASSUME NEW w \in Workers, WorkerStep(w) \/ AttemptFails(w)
      PROVE  IndInv'
  BY <1>4, WorkerStepInv, AttemptFailsKeeps
<1>5. CASE FailRun
  BY <1>5, FailRunKeeps
<1>6. CASE Crash
  BY <1>6, CrashKeeps
<1>7. CASE UNCHANGED vars
  <2>1. UNCHANGED <<disk, edits, fingerprint, symbols, patterns, testLinks, buffered, docs, vectors,
                    phase, todo, anyIndexed, batch, worker, clustered, faults, cut>>
    BY <1>7 DEF vars, diskVars, storeVars, runVars
  <2>2. TypeOK' /\ StampsArePast' /\ OneWorkerPerFile'
    BY <2>1 DEF IndInv, TypeOK, StoresTypeOK, StampsArePast, OneWorkerPerFile
  <2>3. Vouched'
    BY <2>1 DEF IndInv, Vouched, UnchangedHasSymbols, UnchangedIsSearchable, Unchanged, Exists
  <2> QED
    BY <2>1, <2>2, <2>3, OthersKeep DEF IndInv
<1> QED
  BY <1>1, <1>2, <1>3, <1>4, <1>5, <1>6, <1>7 DEF Next

-----------------------------------------------------------------------------
(* The theorems. *)

(* IndInv holds whatever the number of workers, the edits, the attempts    *)
(* that fail and the crashes.                                              *)
THEOREM PoolKeepsIndInv == Spec => []IndInv
  BY InitInv, NextInv, PTL DEF Spec

(* The types of all variables.                                             *)
THEOREM TypeCorrect == Spec => []TypeOK
<1>1. IndInv => TypeOK
  BY DEF IndInv
<1> QED
  BY <1>1, PoolKeepsIndInv, PTL

(* A file that every run will pass over has in SQLite the symbols of what  *)
(* is on disk, however the workers' statements have been interleaved, cut  *)
(* short or tried again (process_file_parallel).                           *)
THEOREM UnchangedFilesHaveSymbols == Spec => []UnchangedHasSymbols
<1>1. IndInv => UnchangedHasSymbols
  BY DEF IndInv, Vouched
<1> QED
  BY <1>1, PoolKeepsIndInv, PTL

(* And its documents, committed: the commit that some other worker issues  *)
(* on the shared writer never leaves them half done.                       *)
THEOREM UnchangedFilesAreSearchable == Spec => []UnchangedIsSearchable
<1>1. IndInv => UnchangedIsSearchable
  BY DEF IndInv, Vouched
<1> QED
  BY <1>1, PoolKeepsIndInv, PTL

-----------------------------------------------------------------------------
(* The pool implements FreshIndex. *)

LEMMA ServedIsUnchanged ==
  /\ IndInv => Served = {f \in Files : Unchanged(f)}
  /\ IndInv' => Served' = {f \in Files : Unchanged(f)'}
  BY DEF IndInv, Vouched, UnchangedHasSymbols, UnchangedIsSearchable, Served

(* Steps after which the same files are unchanged do not show.             *)
LEMMA StepStutters ==
  ASSUME IndInv, IndInv', UNCHANGED <<disk, edits>>,
         \A f \in Files : Unchanged(f)' <=> Unchanged(f)
  PROVE  UNCHANGED Contract!vars
  BY ServedIsUnchanged DEF Contract!vars

LEMMA UserStepImplements ==
  ASSUME IndInv, IndInv', UserStep
  PROVE  Contract!Next
<1>1. PICK f \in Files : Edit(f) \/ Remove(f)
  BY DEF UserStep
<1>2. /\ \A g \in Files \ {f} : disk'[g] = disk[g]
      /\ disk'[f] = Absent \/ disk'[f] = edits + 1
      /\ fingerprint' = fingerprint
  BY <1>1 DEF Edit, Remove, IndInv, TypeOK, StoresTypeOK, storeVars
<1>3. edits + 1 # fingerprint[f]
  BY MaxEditsAssumption DEF IndInv, StampsArePast, TypeOK, StoresTypeOK, Version, Absent
<1>4. \A g \in Files : Unchanged(g)' <=> Unchanged(g) /\ g # f
  BY <1>2, <1>3 DEF Unchanged, Exists
<1>5. Served' = Served \ {f}
  BY <1>4, ServedIsUnchanged
<1>6. Contract!Write(f) \/ Contract!Unlink(f)
  BY <1>1, <1>5 DEF Edit, Remove, Contract!Write, Contract!Unlink, Contract!Gone, Absent
<1> QED
  BY <1>6 DEF Contract!Next

(* The stamp publishes the file, unless the file has changed since it was  *)
(* looked at; then nothing shows.                                          *)
LEMMA RecordFingerprintImplements ==
  ASSUME IndInv, IndInv', NEW w \in Workers, RecordFingerprint(w)
  PROVE  Contract!Next \/ UNCHANGED Contract!vars
<1> DEFINE f == worker[w].file
           stamp == worker[w].stamp
<1>1. /\ worker[w].pc = "upsertFingerprint"
      /\ fingerprint' = [fingerprint EXCEPT ![f] = stamp]
      /\ disk' = disk /\ edits' = edits
  BY DEF RecordFingerprint, UpsertFingerprint, diskVars
<1>2. /\ f \in Files /\ ~Unchanged(f) /\ stamp \in Nat /\ worker[w].source \in Nat
      /\ disk[f] \in Nat
  BY <1>1, HeldFile DEF Stale, Stamped
<1>3. /\ stamp # Absent /\ stamp <= worker[w].source
      /\ worker[w].source \notin Rejected
      /\ disk[f] = Absent \/ worker[w].source <= disk[f]
  BY <1>1
  DEF IndInv, WorkerInv, StampInBetween, ReadsWhatItStamps, Stamped, Stale, AfterRead
<1>4. \A g \in Files : fingerprint'[g] = IF g = f THEN stamp ELSE fingerprint[g]
  BY <1>1, <1>2 DEF IndInv, TypeOK, StoresTypeOK
<1>5. CASE disk[f] = stamp
  <2>1. disk[f] \notin Rejected \cup {Absent}
    BY <1>2, <1>3, <1>5
  <2>2. Served' = Served \cup {f} /\ f \notin Served
    BY <1>1, <1>2, <1>3, <1>4, <1>5, ServedIsUnchanged DEF Unchanged, Exists
  <2>3. Contract!Publish(f)
    BY <1>1, <2>1, <2>2 DEF Contract!Publish, Contract!Gone, Absent
  <2> QED
    BY <1>2, <2>3 DEF Contract!Next
<1>6. CASE disk[f] # stamp
  <2>1. \A g \in Files : Unchanged(g)' <=> Unchanged(g)
    BY <1>1, <1>2, <1>4, <1>6 DEF Unchanged, Exists
  <2> QED
    BY <1>1, <2>1, StepStutters
<1> QED
  BY <1>5, <1>6

(* A run that is about to clean up has found every unchanged file.         *)
ScanFindsUnchanged == phase = "clean" => \A f \in Files : Unchanged(f) => f \in todo

LEMMA UserStepChangesNothingBack ==
  ASSUME IndInv, UserStep
  PROVE  \A f \in Files : Unchanged(f)' => Unchanged(f)
<1>1. PICK f \in Files : Edit(f) \/ Remove(f)
  BY DEF UserStep
<1>2. /\ \A g \in Files \ {f} : disk'[g] = disk[g]
      /\ disk'[f] = Absent \/ disk'[f] = edits + 1
      /\ fingerprint' = fingerprint
  BY <1>1 DEF Edit, Remove, IndInv, TypeOK, StoresTypeOK, storeVars
<1>3. edits + 1 # fingerprint[f]
  BY MaxEditsAssumption DEF IndInv, StampsArePast, TypeOK, StoresTypeOK, Version, Absent
<1> QED
  BY <1>2, <1>3 DEF Unchanged, Exists

LEMMA WorkerStepInPool ==
  ASSUME IndInv, NEW w \in Workers, WorkerStep(w) \/ AttemptFails(w)
  PROVE  phase' = "pool"
<1>1. CASE Take(w)
  BY <1>1 DEF Take
<1>2. CASE RecordFingerprint(w)
  BY <1>2, HeldFile DEF RecordFingerprint
<1>3. CASE \/ Stat(w) \/ Compare(w) \/ Read(w) \/ DeleteOldDocs(w) \/ DeleteOldRows(w)
           \/ AddNewDocs(w) \/ CommitDocs(w) \/ UpsertRows(w) \/ AttemptFails(w)
  <2>1. worker[w].pc # "free" /\ phase' = phase
    BY <1>3 DEF Stat, Compare, Read, DeleteOldDocs, DeleteOldRows, AddNewDocs, CommitDocs,
                UpsertRows, AttemptFails, Advance, runVars
  <2> QED
    BY <2>1, HeldFile
<1> QED
  BY <1>1, <1>2, <1>3 DEF WorkerStep

LEMMA ScanKeeps == IndInv /\ ScanFindsUnchanged /\ [Next]_vars => ScanFindsUnchanged'
<1> SUFFICES ASSUME IndInv, ScanFindsUnchanged, [Next]_vars PROVE ScanFindsUnchanged'
  OBVIOUS
<1> USE DEF ScanFindsUnchanged
<1>1. CASE UserStep
  <2>1. UNCHANGED <<phase, todo>>
    BY <1>1 DEF UserStep, runVars
  <2> QED
    BY <1>1, <2>1, UserStepChangesNothingBack
<1>2. CASE Scan
  BY <1>2 DEF Scan, StartRun, Unchanged, Exists, diskVars, storeVars
<1>3. CASE CleanDeleted \/ JoinPool \/ SelectBatch \/ Embed \/ AddBatch \/ UpsertClusters
  BY <1>3 DEF CleanDeleted, JoinPool, SelectBatch, Embed, AddBatch, UpsertClusters
<1>4. CASE IndexPaths \/ FailRun \/ Crash
  BY <1>4 DEF IndexPaths, StartRun, FailRun, Crash, EndAllLocals
<1>5. ASSUME NEW w \in Workers, WorkerStep(w) \/ AttemptFails(w)
      PROVE  ScanFindsUnchanged'
  BY <1>5, WorkerStepInPool
<1>6. CASE UNCHANGED vars
  BY <1>6 DEF vars, diskVars, storeVars, runVars, Unchanged, Exists
<1> QED
  BY <1>1, <1>2, <1>3, <1>4, <1>5, <1>6 DEF Next, RunStep

LEMMA CleanDeletedStutters ==
  ASSUME IndInv, IndInv', ScanFindsUnchanged, CleanDeleted
  PROVE  UNCHANGED Contract!vars
<1>1. /\ UNCHANGED <<disk, edits>> /\ phase = "clean"
      /\ \A f \in Files :
            fingerprint'[f] = IF f \in Fingerprinted \ todo THEN Absent ELSE fingerprint[f]
  BY DEF CleanDeleted, diskVars
<1>2. \A f \in Files : Unchanged(f)' <=> Unchanged(f)
  BY <1>1 DEF ScanFindsUnchanged, Unchanged, Exists
<1> QED
  BY <1>1, <1>2, StepStutters

LEMMA StepImplements ==
  ASSUME IndInv, IndInv', ScanFindsUnchanged, [Next]_vars
  PROVE  [Contract!Next]_(Contract!vars)
<1> USE DEF diskVars, storeVars, sqliteVars, tantivyVars
<1>1. CASE UserStep
  BY <1>1, UserStepImplements
<1>2. CASE CleanDeleted
  BY <1>2, CleanDeletedStutters
<1>3. ASSUME UNCHANGED <<disk, edits, fingerprint>>
      PROVE  UNCHANGED Contract!vars
  BY <1>3, StepStutters DEF Unchanged, Exists
<1>4. CASE RunStep /\ ~CleanDeleted
  <2>1. UNCHANGED <<disk, edits, fingerprint>>
    BY <1>4
    DEF RunStep, Scan, StartRun, JoinPool, SelectBatch, Embed, AddBatch, UpsertClusters
  <2> QED
    BY <1>3, <2>1
<1>5. CASE IndexPaths \/ FailRun \/ Crash
  <2>1. UNCHANGED <<disk, edits, fingerprint>>
    BY <1>5 DEF IndexPaths, StartRun, FailRun, Crash
  <2> QED
    BY <1>3, <2>1
<1>6. ASSUME NEW w \in Workers, RecordFingerprint(w)
      PROVE  [Contract!Next]_(Contract!vars)
  BY <1>6, RecordFingerprintImplements
<1>7. ASSUME NEW w \in Workers, WorkerStep(w) \/ AttemptFails(w), ~RecordFingerprint(w)
      PROVE  UNCHANGED Contract!vars
  <2>1. CASE Take(w) \/ Stat(w) \/ Compare(w) \/ Read(w) \/ AttemptFails(w)
    <3>1. UNCHANGED <<disk, edits, fingerprint>>
      BY <2>1 DEF Take, Stat, Compare, Read, AttemptFails
    <3> QED
      BY <1>3, <3>1
  <2>2. CASE \/ DeleteOldDocs(w) \/ DeleteOldRows(w) \/ AddNewDocs(w) \/ CommitDocs(w)
             \/ UpsertRows(w)
    <3>1. UNCHANGED <<disk, edits, fingerprint>>
      BY <2>2 DEF DeleteOldDocs, DeleteOldRows, AddNewDocs, CommitDocs, UpsertRows
    <3> QED
      BY <1>3, <3>1
  <2> QED
    BY <1>7, <2>1, <2>2 DEF WorkerStep
<1>8. CASE UNCHANGED vars
  BY <1>3, <1>8 DEF vars
<1> QED
  BY <1>1, <1>2, <1>4, <1>5, <1>6, <1>7, <1>8 DEF Next

(* A pool of workers keeps the contract of FreshIndex that one sequential  *)
(* run keeps: a file once served is served until it changes, and becomes   *)
(* so by one publication.                                                  *)
THEOREM PoolImplementsFreshIndex == Spec => ImplementsFreshIndex
<1>1. Init => Contract!Init /\ ScanFindsUnchanged
  BY DEF Init, StoresInit, Contract!Init, Contract!Gone, Served, Unchanged, Exists, Absent,
         ScanFindsUnchanged
<1>2. IndInv /\ IndInv' /\ ScanFindsUnchanged /\ [Next]_vars => [Contract!Next]_(Contract!vars)
  BY StepImplements
<1> QED
  BY <1>1, <1>2, ScanKeeps, PoolKeepsIndInv, PTL DEF Spec, ImplementsFreshIndex, Contract!Spec
=============================================================================
