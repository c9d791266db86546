--------------------------- MODULE WatchLoopProofs ---------------------------
(***************************************************************************)
(* The pace of the watch loop, for every interval, gap and limit, any      *)
(* number of files and any sequence of edits and failures: runs keep their *)
(* distance, and a change waits no longer than it must.                    *)
(***************************************************************************)
EXTENDS WatchLoop, TLAPS

Changing == \E f \in Files : Changed(f)

(* The stamps in use are of contents already written: an edit never makes  *)
(* the stamp the table has.                                                *)
StampsArePast == \A f \in Files : disk[f] <= edits /\ fingerprint[f] <= edits

FailuresAreFaults == failures <= faults

-----------------------------------------------------------------------------
(* Why no change waits long. *)

WaitsOnlyForSomething == pc # "run" /\ ~Changing => staleFor = 0

(* Until the gap is over, what waits has come after the last run.          *)
WaitsWithinTheGap == pc # "run" /\ sinceIndex < MinGap => staleFor <= sinceIndex

(* A run begins after the gap, and a run that fails does not restart it.   *)
RunsAfterTheGap == pc \in {"run", "backoff"} => sinceIndex >= MinGap

(* The time left of a sleep is part of the wait.                           *)
WaitEndsInTime ==
    /\ pc = "backoff" => staleFor + timer <= MaxBackoff
    /\ pc = "sleep" => staleFor + timer <= Pause
    /\ staleFor <= Pause

(* A check that was begun when something waited finds a change, whatever   *)
(* the user does between its scan and its look at the files, or is cut     *)
(* short.                                                                  *)
ChecksFindIt == pc = "compare" /\ staleFor > 0 => FoundChanged \/ CheckFails

WaitInv ==
    /\ WaitsOnlyForSomething /\ WaitsWithinTheGap /\ RunsAfterTheGap
    /\ WaitEndsInTime /\ ChecksFindIt

-----------------------------------------------------------------------------
(* Why runs keep their distance. *)

Required == Interval + (IF failures > 0 THEN Backoff(failures) ELSE 0)

BackoffIsForFailures == pc = "backoff" => failures > 0

(* The time left of a sleep is part of the pause.                          *)
PauseIsLongEnough ==
    /\ pc = "backoff" => sinceRun + timer >= Backoff(failures)
    /\ pc = "sleep" => sinceRun + timer >= Required
    /\ pc \in {"scan", "compare"} => sinceRun >= Required

(* After a success both clocks start together.                             *)
GapIsCountedFromTheRun ==
    pc # "run" /\ failures = 0 => sinceRun >= sinceIndex \/ sinceRun >= MinGap

PaceInv == BackoffIsForFailures /\ PauseIsLongEnough /\ GapIsCountedFromTheRun

Inv == TypeOK /\ StampsArePast /\ FailuresAreFaults /\ WaitInv /\ PaceInv

-----------------------------------------------------------------------------
(* Numbers. *)

LEMMA MinOfTwo ==
  ASSUME NEW m \in Int, NEW n \in Int
  PROVE  Min({m, n}) = IF m <= n THEN m ELSE n
<1> DEFINE x == IF m <= n THEN m ELSE n
<1>1. x \in {m, n} /\ \A y \in {m, n} : x <= y
  OBVIOUS
<1>2. \A z \in {m, n} : (\A y \in {m, n} : z <= y) => z = x
  OBVIOUS
<1> HIDE DEF x
<1>3. Min({m, n}) = x
  BY <1>1, <1>2 DEF Min
<1> QED
  BY <1>3 DEF x

LEMMA MaxOfTwo ==
  ASSUME NEW m \in Int, NEW n \in Int
  PROVE  Max({m, n}) = IF m >= n THEN m ELSE n
<1> DEFINE x == IF m >= n THEN m ELSE n
<1>1. x \in {m, n} /\ \A y \in {m, n} : x >= y
  OBVIOUS
<1>2. \A z \in {m, n} : (\A y \in {m, n} : z >= y) => z = x
  OBVIOUS
<1> HIDE DEF x
<1>3. Max({m, n}) = x
  BY <1>1, <1>2 DEF Max
<1> QED
  BY <1>3 DEF x

LEMMA Times ==
  /\ Interval \in Nat /\ Interval > 0 /\ MinGap \in Nat /\ MaxBackoff \in Nat /\ MaxBackoff > 0
  /\ Pause \in Nat /\ Pause >= Interval + MinGap /\ Pause >= Interval + MaxBackoff
  /\ Late = Pause + 1 /\ NeverIndexed = MinGap + 1
  /\ MaxEdits \in Nat /\ MaxFaults \in Nat
  /\ Max({Interval, MaxBackoff}) \in Nat
  /\ Max({Interval, MaxBackoff}) >= Interval /\ Max({Interval, MaxBackoff}) >= MaxBackoff
<1>1. Interval \in Nat /\ Interval > 0 /\ MinGap \in Nat /\ MaxBackoff \in Nat /\ MaxBackoff > 0
  BY WatchTimesAssumption
<1>2. Max({MinGap, MaxBackoff}) = IF MinGap >= MaxBackoff THEN MinGap ELSE MaxBackoff
  BY <1>1, MaxOfTwo
<1>3. Max({Interval, MaxBackoff}) = IF Interval >= MaxBackoff THEN Interval ELSE MaxBackoff
  BY <1>1, MaxOfTwo
<1> QED
  BY <1>1, <1>2, <1>3, WatchBoundsAssumption DEF Pause, Late, NeverIndexed

LEMMA PowersOfTwo ==
  ASSUME NEW n \in 0 .. 8
  PROVE  2 ^ n \in Nat
<1>1. ASSUME n = 0 PROVE 2 ^ n = 1
  BY <1>1
<1>2. ASSUME n = 1 PROVE 2 ^ n = 2
  BY <1>2
<1>3. ASSUME n = 2 PROVE 2 ^ n = 4
  BY <1>3
<1>4. ASSUME n = 3 PROVE 2 ^ n = 8
  BY <1>4
<1>5. ASSUME n = 4 PROVE 2 ^ n = 16
  BY <1>5
<1>6. ASSUME n = 5 PROVE 2 ^ n = 32
  BY <1>6
<1>7. ASSUME n = 6 PROVE 2 ^ n = 64
  BY <1>7
<1>8. ASSUME n = 7 PROVE 2 ^ n = 128
  BY <1>8
<1>9. ASSUME n = 8 PROVE 2 ^ n = 256
  BY <1>9
<1> DEFINE p == 2 ^ n
<1>10. n = 0 \/ n = 1 \/ n = 2 \/ n = 3 \/ n = 4 \/ n = 5 \/ n = 6 \/ n = 7 \/ n = 8
  OBVIOUS
<1> HIDE DEF p
<1>11. p \in Nat
  BY <1>1, <1>2, <1>3, <1>4, <1>5, <1>6, <1>7, <1>8, <1>9, <1>10 DEF p
<1> QED
  BY <1>11 DEF p

(* The back-off is a time, and not longer than its limit.                  *)
LEMMA BackoffBounds ==
  ASSUME NEW k \in Nat
  PROVE  Backoff(k) \in Nat /\ Backoff(k) <= MaxBackoff
<1> DEFINE n == Min({k, 8})
           p == 2 ^ n
<1>1. n \in 0 .. 8
  BY MinOfTwo
<1>2. p \in Nat
  <2> HIDE DEF n
  <2> QED
    BY <1>1, PowersOfTwo
<1>3. Backoff(k) = Min({Interval * p, MaxBackoff})
  BY DEF Backoff
<1> HIDE DEF p
<1>4. Interval * p \in Nat
  BY <1>2, Times
<1> DEFINE q == Interval * p
<1> HIDE DEF q
<1>5. q \in Nat /\ Backoff(k) = Min({q, MaxBackoff})
  BY <1>3, <1>4 DEF q
<1>6. Backoff(k) = IF q <= MaxBackoff THEN q ELSE MaxBackoff
  BY <1>5, Times, MinOfTwo
<1> QED
  BY <1>5, <1>6, Times

LEMMA RequiredBounds ==
  ASSUME failures \in Nat
  PROVE  Required \in Nat /\ Required >= Interval /\ Required <= Pause
  BY BackoffBounds, Times DEF Required

-----------------------------------------------------------------------------
(* The invariant. *)

InvParts ==
    /\ TypeOK /\ StampsArePast /\ FailuresAreFaults
    /\ WaitsOnlyForSomething /\ WaitsWithinTheGap /\ RunsAfterTheGap /\ WaitEndsInTime /\ ChecksFindIt
    /\ BackoffIsForFailures /\ PauseIsLongEnough /\ GapIsCountedFromTheRun

LEMMA Facts ==
  ASSUME Inv
  PROVE  /\ InvParts
         /\ timer \in Nat /\ sinceIndex \in Nat /\ failures \in Nat /\ faults \in Nat
         /\ sinceRun \in Nat /\ sinceRun <= Pause /\ staleFor \in Nat /\ edits \in Nat
         /\ \A f \in Files : disk[f] \in Nat /\ fingerprint[f] \in Nat
         /\ Required \in Nat /\ Required >= Interval /\ Required <= Pause
<1>1. InvParts
  BY DEF InvParts, Inv, WaitInv, PaceInv
<1>2. /\ timer \in Nat /\ sinceIndex \in Nat /\ failures \in Nat /\ faults \in Nat
      /\ sinceRun \in Nat /\ sinceRun <= Pause /\ staleFor \in Nat /\ edits \in Nat
  BY <1>1, Times DEF InvParts, TypeOK
<1>3. \A f \in Files : disk[f] \in Nat /\ fingerprint[f] \in Nat
  BY <1>1, Times DEF InvParts, TypeOK, Version, Absent
<1> QED
  BY <1>1, <1>2, <1>3, RequiredBounds

LEMMA InitHasInv == Init => Inv
<1> SUFFICES ASSUME Init PROVE Inv
  OBVIOUS
<1>1. TypeOK
  BY Times DEF Init, TypeOK, Absent
<1>2. StampsArePast /\ FailuresAreFaults
  BY DEF Init, StampsArePast, FailuresAreFaults, Absent
<1>3. WaitInv
  BY Times DEF Init, WaitInv, WaitsOnlyForSomething, WaitsWithinTheGap, RunsAfterTheGap,
               WaitEndsInTime, ChecksFindIt
<1>4. PaceInv
  BY Times DEF Init, PaceInv, BackoffIsForFailures, PauseIsLongEnough, GapIsCountedFromTheRun,
               Required
<1> QED
  BY <1>1, <1>2, <1>3, <1>4 DEF Inv

LEMMA UserKeepsInv ==
  ASSUME Inv, UserStep
  PROVE  Inv'
<1>1. /\ InvParts /\ edits \in Nat /\ staleFor \in Nat
      /\ \A f \in Files : disk[f] \in Nat /\ fingerprint[f] \in Nat
  BY Facts
<1>2. PICK g \in Files : Edit(g) \/ Remove(g)
  BY DEF UserStep
<1>3. /\ staleFor' = IF Changing' THEN staleFor ELSE 0
      /\ UNCHANGED <<pc, timer, todo, gone, sinceIndex, failures, faults, sinceRun, fingerprint>>
  BY <1>2 DEF UserStep, Edit, Remove, Changing
<1>4. /\ \A f \in Files \ {g} : disk'[f] = disk[f]
      /\ \/ disk'[g] = edits + 1 /\ edits' = edits + 1 /\ edits < MaxEdits
         \/ disk'[g] = Absent /\ edits' = edits
      /\ disk' \in [Files -> Version \cup {Absent}] /\ edits' \in 0 .. MaxEdits
  BY <1>1, <1>2, Times DEF Edit, Remove, InvParts, TypeOK, Version
<1>5. staleFor' <= staleFor /\ staleFor' \in 0 .. Late
  BY <1>1, <1>3, Times DEF InvParts, TypeOK
<1>6. TypeOK'
  BY <1>1, <1>3, <1>4, <1>5 DEF InvParts, TypeOK
<1>7. StampsArePast' /\ FailuresAreFaults'
  BY <1>1, <1>3, <1>4 DEF InvParts, StampsArePast, FailuresAreFaults, Absent
<1>8. WaitsOnlyForSomething' /\ RunsAfterTheGap'
  BY <1>1, <1>3 DEF InvParts, WaitsOnlyForSomething, RunsAfterTheGap
<1>9. WaitsWithinTheGap' /\ WaitEndsInTime'
  <2>1. timer \in Nat /\ sinceIndex \in Nat /\ staleFor' \in Nat
    BY <1>5, Facts, Times
  <2> QED
    BY <1>1, <1>3, <1>5, <2>1, Times DEF InvParts, WaitsWithinTheGap, WaitEndsInTime
<1>10. ChecksFindIt'
  <2> SUFFICES ASSUME pc = "compare", staleFor > 0 PROVE (FoundChanged \/ CheckFails)'
    BY <1>1, <1>3 DEF ChecksFindIt
  <2>1. FoundChanged \/ CheckFails
    BY <1>1 DEF InvParts, ChecksFindIt
  <2>2. todo \subseteq Files
    BY <1>1 DEF InvParts, TypeOK
  <2>3. disk'[g] # Absent => Exists(g)' /\ Changed(g)'
    BY <1>1, <1>3, <1>4 DEF InvParts, StampsArePast, Exists, Changed, Absent
  <2>4. \A f \in Files \ {g} : (Exists(f)' <=> Exists(f)) /\ (Changed(f)' <=> Changed(f))
    BY <1>3, <1>4 DEF Exists, Changed
  <2>5. CASE g \in todo
    <3>1. CASE disk'[g] = Absent
      BY <1>3, <2>5, <3>1 DEF CheckFails, Exists
    <3>2. CASE disk'[g] # Absent
      BY <1>3, <2>3, <2>5, <3>2 DEF FoundChanged
    <3> QED
      BY <3>1, <3>2
  <2>6. CASE g \notin todo
    BY <1>3, <2>1, <2>2, <2>4, <2>6 DEF FoundChanged, CheckFails
  <2> QED
    BY <2>5, <2>6
<1>11. BackoffIsForFailures' /\ PauseIsLongEnough' /\ GapIsCountedFromTheRun'
  BY <1>1, <1>3 DEF InvParts, BackoffIsForFailures, PauseIsLongEnough, GapIsCountedFromTheRun,
                    Required
<1>12. InvParts'
  BY <1>6, <1>7, <1>8, <1>9, <1>10, <1>11 DEF InvParts
<1> QED
  BY <1>12 DEF InvParts, Inv, WaitInv, PaceInv

LEMMA TickKeepsInv ==
  ASSUME Inv, Tick
  PROVE  Inv'
<1>1. /\ InvParts /\ timer \in Nat /\ sinceIndex \in Nat /\ staleFor \in Nat
      /\ sinceRun \in Nat /\ sinceRun <= Pause
      /\ Required \in Nat /\ Required >= Interval /\ Required <= Pause
  BY Facts
<1>2. /\ UNCHANGED <<fileVars, pc, todo, gone, failures, faults>>
      /\ sinceIndex' = IF sinceIndex < MinGap THEN sinceIndex + 1 ELSE sinceIndex
      /\ Changing' = Changing /\ Required' = Required
  BY DEF Tick, Changing, Changed, Required, fileVars
<1>3. TypeOK
  BY <1>1 DEF InvParts
<1>4. sinceIndex' \in Nat /\ sinceIndex' \in 0 .. NeverIndexed
  BY <1>1, <1>2, <1>3, Times DEF TypeOK
<1>5. CASE pc = "run"
  <2>1. timer' = timer /\ sinceRun' = 0 /\ staleFor' = 0
    BY <1>5 DEF Tick
  <2>2. TypeOK'
    BY <1>2, <1>3, <1>4, <2>1, Times DEF TypeOK, fileVars
  <2>3. StampsArePast' /\ FailuresAreFaults'
    BY <1>1, <1>2 DEF InvParts, StampsArePast, FailuresAreFaults, fileVars
  <2>4. WaitInv'
    BY <1>1, <1>2, <1>5, <2>1, Times DEF InvParts, WaitInv, WaitsOnlyForSomething,
       WaitsWithinTheGap, RunsAfterTheGap, WaitEndsInTime, ChecksFindIt
  <2>5. PaceInv'
    BY <1>2, <1>5 DEF PaceInv, BackoffIsForFailures, PauseIsLongEnough, GapIsCountedFromTheRun
  <2> QED
    BY <2>2, <2>3, <2>4, <2>5 DEF Inv
<1>6. CASE pc # "run"
  <2>1. /\ pc \in {"sleep", "backoff"} /\ timer > 0 /\ timer' = timer - 1
        /\ sinceRun' = Min({sinceRun + 1, Pause})
        /\ staleFor' = IF Changing THEN Min({staleFor + 1, Late}) ELSE 0
    BY <1>6 DEF Tick, Changing
  <2>2. sinceRun' = IF sinceRun + 1 <= Pause THEN sinceRun + 1 ELSE Pause
    BY <1>1, <2>1, Times, MinOfTwo
  <2>3. Min({staleFor + 1, Late}) = IF staleFor + 1 <= Late THEN staleFor + 1 ELSE Late
    BY <1>1, Times, MinOfTwo
  <2>4. /\ staleFor' \in Nat /\ staleFor' <= staleFor + 1 /\ staleFor' <= Late
        /\ (~Changing => staleFor' = 0) /\ timer' \in Nat
    BY <1>1, <2>1, <2>3, Times
  <2>5. TypeOK'
    BY <1>1, <1>2, <1>3, <1>4, <2>1, <2>2, <2>4, Times DEF TypeOK, fileVars
  <2>6. StampsArePast' /\ FailuresAreFaults'
    BY <1>1, <1>2 DEF InvParts, StampsArePast, FailuresAreFaults, fileVars
  <2>7. WaitsOnlyForSomething' /\ RunsAfterTheGap' /\ ChecksFindIt'
    BY <1>1, <1>2, <2>1, <2>4, Times DEF InvParts, WaitsOnlyForSomething, RunsAfterTheGap, ChecksFindIt
  <2>8. WaitsWithinTheGap'
    BY <1>1, <1>2, <1>6, <2>4, Times DEF InvParts, WaitsWithinTheGap
  <2>9. WaitEndsInTime'
    BY <1>1, <1>2, <2>1, <2>4, Times DEF InvParts, WaitEndsInTime
  <2>10. BackoffIsForFailures' /\ GapIsCountedFromTheRun'
    BY <1>1, <1>2, <1>6, <2>2, Times DEF InvParts, BackoffIsForFailures, GapIsCountedFromTheRun
  <2>11. PauseIsLongEnough'
    <3>1. pc = "backoff" => Backoff(failures) \in Nat /\ Backoff(failures) <= Pause
      BY <1>3, BackoffBounds, Facts, Times
    <3> QED
      BY <1>1, <1>2, <2>1, <2>2, <3>1, Times DEF InvParts, PauseIsLongEnough
  <2> QED
    BY <2>5, <2>6, <2>7, <2>8, <2>9, <2>10, <2>11 DEF Inv, WaitInv, PaceInv
<1> QED
  BY <1>5, <1>6

LEMMA WakeUpKeepsInv ==
  ASSUME Inv, WakeUp
  PROVE  Inv'
<1>1. InvParts /\ staleFor \in Nat /\ sinceRun \in Nat
  BY Facts
<1>2. /\ pc = "sleep" /\ timer = 0 /\ pc' = "scan"
      /\ UNCHANGED <<disk, edits, fingerprint, timer, todo, gone, sinceIndex, failures, faults,
                     sinceRun, staleFor>>
      /\ Changing' = Changing /\ Required' = Required
  BY DEF WakeUp, fileVars, historyVars, Changing, Changed, Required
<1>3. TypeOK' /\ StampsArePast' /\ FailuresAreFaults'
  BY <1>1, <1>2 DEF InvParts, TypeOK, StampsArePast, FailuresAreFaults
<1>4. WaitInv'
  BY <1>1, <1>2 DEF InvParts, WaitInv, WaitsOnlyForSomething, WaitsWithinTheGap, RunsAfterTheGap,
     WaitEndsInTime, ChecksFindIt
<1>5. PaceInv'
  BY <1>1, <1>2 DEF InvParts, PaceInv, BackoffIsForFailures, PauseIsLongEnough,
     GapIsCountedFromTheRun
<1> QED
  BY <1>3, <1>4, <1>5 DEF Inv

LEMMA BackoffOverKeepsInv ==
  ASSUME Inv, BackoffOver
  PROVE  Inv'
<1>1. InvParts /\ staleFor \in Nat /\ sinceRun \in Nat /\ failures \in Nat
  BY Facts
<1>2. /\ pc = "backoff" /\ timer = 0 /\ pc' = "sleep" /\ timer' = Interval
      /\ UNCHANGED <<disk, edits, fingerprint, todo, gone, sinceIndex, failures, faults,
                     sinceRun, staleFor>>
      /\ Changing' = Changing /\ Required' = Required
  BY DEF BackoffOver, fileVars, historyVars, Changing, Changed, Required
<1>3. TypeOK' /\ StampsArePast' /\ FailuresAreFaults'
  BY <1>1, <1>2, Times DEF InvParts, TypeOK, StampsArePast, FailuresAreFaults
<1>4. WaitInv'
  BY <1>1, <1>2, Times DEF InvParts, WaitInv, WaitsOnlyForSomething, WaitsWithinTheGap,
     RunsAfterTheGap, WaitEndsInTime, ChecksFindIt
<1>5. failures > 0 /\ Required = Interval + Backoff(failures) /\ Backoff(failures) \in Nat
  BY <1>1, <1>2, BackoffBounds DEF InvParts, BackoffIsForFailures, Required
<1>6. PaceInv'
  BY <1>1, <1>2, <1>5, Times DEF InvParts, PaceInv, BackoffIsForFailures, PauseIsLongEnough,
     GapIsCountedFromTheRun
<1> QED
  BY <1>3, <1>4, <1>6 DEF Inv

LEMMA ScanFilesKeepsInv ==
  ASSUME Inv, ScanFiles
  PROVE  Inv'
<1>1. InvParts /\ staleFor \in Nat /\ sinceRun \in Nat
  BY Facts
<1>2. /\ pc = "scan" /\ pc' = "compare" /\ todo' = {f \in Files : Exists(f)}
      /\ UNCHANGED <<disk, edits, fingerprint, timer, gone, sinceIndex, failures, faults,
                     sinceRun, staleFor>>
      /\ Changing' = Changing /\ Required' = Required
  BY DEF ScanFiles, fileVars, historyVars, Changing, Changed, Required
<1>3. TypeOK' /\ StampsArePast' /\ FailuresAreFaults'
  BY <1>1, <1>2 DEF InvParts, TypeOK, StampsArePast, FailuresAreFaults
<1>4. ChecksFindIt'
  <2> SUFFICES ASSUME staleFor > 0 PROVE FoundChanged'
    BY <1>2 DEF ChecksFindIt
  <2>1. PICK f \in Files : Changed(f)
    BY <1>1, <1>2 DEF InvParts, WaitsOnlyForSomething, Changing
  <2>2. \A g \in Files : Exists(g)' = Exists(g) /\ Changed(g)' = Changed(g)
    BY <1>2 DEF Exists, Changed
  <2>3. CASE Exists(f)
    BY <1>2, <2>1, <2>2, <2>3 DEF FoundChanged
  <2>4. CASE ~Exists(f)
    <3>1. fingerprint[f] # Absent /\ f \in Files \ todo'
      BY <1>2, <2>1, <2>4 DEF Changed, Exists
    <3>2. \A g \in todo' : Exists(g)'
      BY <1>2, <2>2
    <3> QED
      BY <1>2, <3>1, <3>2 DEF FoundChanged
  <2> QED
    BY <2>3, <2>4
<1>5. WaitInv'
  BY <1>1, <1>2, <1>4 DEF InvParts, WaitInv, WaitsOnlyForSomething, WaitsWithinTheGap,
     RunsAfterTheGap, WaitEndsInTime
<1>6. PaceInv'
  BY <1>1, <1>2 DEF InvParts, PaceInv, BackoffIsForFailures, PauseIsLongEnough,
     GapIsCountedFromTheRun
<1> QED
  BY <1>3, <1>5, <1>6 DEF Inv

LEMMA SkipCycleKeepsInv ==
  ASSUME Inv, SkipCycle
  PROVE  Inv'
<1>1. /\ InvParts /\ staleFor \in Nat /\ sinceRun \in Nat /\ sinceIndex \in Nat
      /\ Required \in Nat
  BY Facts
<1>2. /\ pc = "compare" /\ pc' = "sleep" /\ timer' = Interval /\ todo' = {} /\ gone' = {}
      /\ ~FoundChanged \/ CheckFails \/ TooSoon
      /\ staleFor' = IF CheckFails THEN 0 ELSE staleFor
      /\ UNCHANGED <<disk, edits, fingerprint, sinceIndex, failures, faults, sinceRun>>
      /\ Changing' = Changing /\ Required' = Required
  BY DEF SkipCycle, Sleep, fileVars, Changing, Changed, Required
<1>3. TypeOK' /\ StampsArePast' /\ FailuresAreFaults'
  BY <1>1, <1>2, Times DEF InvParts, TypeOK, StampsArePast, FailuresAreFaults
(* Only a change that comes too soon goes on waiting.                      *)
<1>4. staleFor' = 0 \/ (staleFor' = staleFor /\ staleFor < MinGap)
  <2>1. CASE staleFor = 0 \/ CheckFails
    BY <1>2, <2>1
  <2>2. CASE staleFor > 0 /\ ~CheckFails
    <3>1. sinceIndex < MinGap
      BY <1>1, <1>2, <2>2 DEF InvParts, ChecksFindIt, TooSoon
    <3>2. staleFor <= sinceIndex
      BY <1>1, <1>2, <3>1 DEF InvParts, WaitsWithinTheGap
    <3> QED
      BY <1>1, <1>2, <2>2, <3>1, <3>2, Times
  <2> QED
    BY <1>1, <2>1, <2>2
<1>5. WaitInv'
  BY <1>1, <1>2, <1>4, Times DEF InvParts, WaitInv, WaitsOnlyForSomething, WaitsWithinTheGap,
     RunsAfterTheGap, WaitEndsInTime, ChecksFindIt
<1>6. PaceInv'
  BY <1>1, <1>2, Times DEF InvParts, PaceInv, BackoffIsForFailures, PauseIsLongEnough,
     GapIsCountedFromTheRun
<1> QED
  BY <1>3, <1>5, <1>6 DEF Inv

LEMMA FailCheckKeepsInv ==
  ASSUME Inv, FailCheck
  PROVE  Inv'
<1>1. /\ InvParts /\ sinceRun \in Nat /\ faults \in Nat /\ failures \in Nat /\ sinceIndex \in Nat
      /\ Required \in Nat
  BY Facts
<1>2. /\ pc \in {"scan", "compare"} /\ pc' = "sleep" /\ timer' = Interval /\ todo' = {} /\ gone' = {}
      /\ faults < MaxFaults /\ faults' = faults + 1 /\ staleFor' = 0
      /\ UNCHANGED <<disk, edits, fingerprint, sinceIndex, failures, sinceRun>>
      /\ Required' = Required
  BY DEF FailCheck, Sleep, fileVars, Required
<1>3. TypeOK' /\ StampsArePast' /\ FailuresAreFaults'
  BY <1>1, <1>2, Times DEF InvParts, TypeOK, StampsArePast, FailuresAreFaults
<1>4. WaitInv'
  BY <1>1, <1>2, Times DEF InvParts, WaitInv, WaitsOnlyForSomething, WaitsWithinTheGap,
     RunsAfterTheGap, WaitEndsInTime, ChecksFindIt
<1>5. PaceInv'
  BY <1>1, <1>2, Times DEF InvParts, PaceInv, BackoffIsForFailures, PauseIsLongEnough,
     GapIsCountedFromTheRun
<1> QED
  BY <1>3, <1>4, <1>5 DEF Inv

LEMMA BeginRunKeepsInv ==
  ASSUME Inv, BeginRun \/ BeginRunInVain
  PROVE  Inv'
<1>1. InvParts /\ sinceIndex \in Nat /\ faults \in Nat /\ failures \in Nat
  BY Facts
<1>2. /\ pc = "compare" /\ pc' = "run" /\ sinceIndex >= MinGap
      /\ todo' = {f \in Files : Exists(f)}
      /\ gone' = {f \in Files : fingerprint[f] # Absent /\ ~Exists(f)}
      /\ faults' = faults \/ (faults < MaxFaults /\ faults' = faults + 1)
      /\ UNCHANGED <<disk, edits, fingerprint, timer, sinceIndex, failures, sinceRun, staleFor>>
  BY <1>1, Times DEF BeginRun, BeginRunInVain, StartRun, TooSoon, fileVars, historyVars
<1>3. TypeOK' /\ StampsArePast' /\ FailuresAreFaults'
  BY <1>1, <1>2, Times DEF InvParts, TypeOK, StampsArePast, FailuresAreFaults
<1>4. WaitInv'
  BY <1>1, <1>2 DEF InvParts, WaitInv, WaitsOnlyForSomething, WaitsWithinTheGap, RunsAfterTheGap,
     WaitEndsInTime, ChecksFindIt
<1>5. PaceInv'
  BY <1>2 DEF PaceInv, BackoffIsForFailures, PauseIsLongEnough, GapIsCountedFromTheRun
<1> QED
  BY <1>3, <1>4, <1>5 DEF Inv

LEMMA RunStepKeepsInv ==
  ASSUME Inv, CleanFile \/ IndexFile
  PROVE  Inv'
<1>1. InvParts /\ edits \in Nat /\ \A f \in Files : disk[f] \in Nat /\ fingerprint[f] \in Nat
  BY Facts
<1>2. /\ pc = "run" /\ pc' = "run"
      /\ todo' \subseteq todo /\ gone' \subseteq gone
      /\ UNCHANGED <<disk, edits, timer, sinceIndex, failures, faults, sinceRun, staleFor>>
  BY DEF CleanFile, IndexFile, historyVars
<1>3. PICK f \in Files : \/ fingerprint' = [fingerprint EXCEPT ![f] = Absent]
                         \/ fingerprint' = [fingerprint EXCEPT ![f] = @]
                         \/ fingerprint' = [fingerprint EXCEPT ![f] = disk[f]]
  BY <1>1 DEF CleanFile, IndexFile, InvParts, TypeOK
<1>4. /\ fingerprint' \in [Files -> Version \cup {Absent}]
      /\ \A g \in Files : fingerprint'[g] <= edits
  BY <1>1, <1>3 DEF InvParts, TypeOK, StampsArePast, Absent
<1>5. TypeOK' /\ StampsArePast' /\ FailuresAreFaults'
  BY <1>1, <1>2, <1>4 DEF InvParts, TypeOK, StampsArePast, FailuresAreFaults
<1>6. WaitInv'
  BY <1>1, <1>2 DEF InvParts, WaitInv, WaitsOnlyForSomething, WaitsWithinTheGap, RunsAfterTheGap,
     WaitEndsInTime, ChecksFindIt
<1>7. PaceInv'
  BY <1>2 DEF PaceInv, BackoffIsForFailures, PauseIsLongEnough, GapIsCountedFromTheRun
<1> QED
  BY <1>5, <1>6, <1>7 DEF Inv

LEMMA EndRunKeepsInv ==
  ASSUME Inv, EndRun
  PROVE  Inv'
<1>1. InvParts
  BY Facts
<1>2. /\ pc' = "sleep" /\ timer' = Interval /\ todo' = {} /\ gone' = {}
      /\ sinceIndex' = 0 /\ failures' = 0 /\ sinceRun' = 0 /\ staleFor' = 0
      /\ UNCHANGED <<disk, edits, fingerprint, faults>>
  BY DEF EndRun, Sleep, fileVars
<1>3. TypeOK' /\ StampsArePast' /\ FailuresAreFaults'
  BY <1>1, <1>2, Times DEF InvParts, TypeOK, StampsArePast, FailuresAreFaults
<1>4. WaitInv'
  BY <1>1, <1>2, Times DEF InvParts, WaitInv, WaitsOnlyForSomething, WaitsWithinTheGap,
     RunsAfterTheGap, WaitEndsInTime, ChecksFindIt
<1>5. PaceInv'
  BY <1>1, <1>2, Times DEF PaceInv, BackoffIsForFailures, PauseIsLongEnough,
     GapIsCountedFromTheRun, Required
<1> QED
  BY <1>3, <1>4, <1>5 DEF Inv

LEMMA FailRunKeepsInv ==
  ASSUME Inv, FailRun
  PROVE  Inv'
<1>1. InvParts /\ failures \in Nat /\ faults \in Nat
  BY Facts
<1>2. /\ pc = "run" /\ pc' = "backoff" /\ timer' = Backoff(failures + 1)
      /\ todo' = {} /\ gone' = {} /\ faults < MaxFaults /\ faults' = faults + 1
      /\ failures' = failures + 1 /\ sinceRun' = 0 /\ staleFor' = 0
      /\ UNCHANGED <<disk, edits, fingerprint, sinceIndex>>
  BY DEF FailRun, Sleep, fileVars
<1>3. Backoff(failures + 1) \in Nat /\ Backoff(failures + 1) <= MaxBackoff
  BY <1>1, BackoffBounds
<1>4. failures + 1 <= MaxFaults
  BY <1>1, <1>2, Times DEF InvParts, FailuresAreFaults
<1>5. TypeOK' /\ StampsArePast' /\ FailuresAreFaults'
  BY <1>1, <1>2, <1>3, <1>4, Times DEF InvParts, TypeOK, StampsArePast, FailuresAreFaults
<1>6. WaitInv'
  <2>1. timer' \in Nat /\ timer' <= MaxBackoff /\ sinceIndex \in Nat
    BY <1>2, <1>3, Facts
  <2>2. WaitEndsInTime'
    BY <1>2, <2>1, Times DEF WaitEndsInTime
  <2>3. sinceIndex >= MinGap
    BY <1>1, <1>2 DEF InvParts, RunsAfterTheGap
  <2>4. WaitsOnlyForSomething' /\ WaitsWithinTheGap' /\ RunsAfterTheGap' /\ ChecksFindIt'
    BY <1>2, <2>1, <2>3, Times DEF WaitsOnlyForSomething, WaitsWithinTheGap, RunsAfterTheGap,
       ChecksFindIt
  <2> QED
    BY <2>2, <2>4 DEF WaitInv
<1>7. PaceInv'
  <2>1. BackoffIsForFailures' /\ GapIsCountedFromTheRun'
    BY <1>1, <1>2 DEF BackoffIsForFailures, GapIsCountedFromTheRun
  <2>2. Backoff(failures)' = Backoff(failures + 1)
    BY <1>2 DEF Backoff
  <2>3. PauseIsLongEnough'
    BY <1>2, <1>3, <2>2 DEF PauseIsLongEnough
  <2> QED
    BY <2>1, <2>3 DEF PaceInv
<1> QED
  BY <1>5, <1>6, <1>7 DEF Inv

THEOREM LoopKeepsInv == Spec => []Inv
<1>1. ASSUME Inv, UNCHANGED vars PROVE Inv'
  BY <1>1 DEF Inv, TypeOK, StampsArePast, FailuresAreFaults, WaitInv, WaitsOnlyForSomething,
     WaitsWithinTheGap, RunsAfterTheGap, WaitEndsInTime, ChecksFindIt, PaceInv,
     BackoffIsForFailures, PauseIsLongEnough, GapIsCountedFromTheRun, Required, Changing, Changed,
     FoundChanged, CheckFails, Exists, vars, fileVars, historyVars
<1>2. Inv /\ [Next]_vars => Inv'
  <2>1. ASSUME Inv, Next PROVE Inv'
    BY <2>1, UserKeepsInv, TickKeepsInv, WakeUpKeepsInv, BackoffOverKeepsInv, ScanFilesKeepsInv,
       SkipCycleKeepsInv, FailCheckKeepsInv, BeginRunKeepsInv, RunStepKeepsInv, EndRunKeepsInv, FailRunKeepsInv
       DEF Next, LoopStep
  <2> QED
    BY <1>1, <2>1
<1> QED
  BY <1>2, InitHasInv, PTL DEF Spec

-----------------------------------------------------------------------------
(* Theorems. *)

(* The types of all variables: no sleep is longer than an interval or the  *)
(* longest back-off, however many runs have failed.                        *)
THEOREM TypeCorrect == Spec => []TypeOK
<1>1. Inv => TypeOK
  BY DEF Inv
<1> QED
  BY <1>1, LoopKeepsInv, PTL

(* While there is something to index no run is further off than a Pause:   *)
(* for every interval, gap and back-off, whatever the user does.           *)
THEOREM ChangesWaitAtMostAPause == Spec => []ChangesArePickedUp
<1>1. Inv => ChangesArePickedUp
  <2> SUFFICES ASSUME Inv PROVE ChangesArePickedUp
    OBVIOUS
  <2>1. InvParts /\ staleFor \in Nat
    BY Facts
  <2> QED
    BY <2>1, Times DEF InvParts, WaitEndsInTime, ChangesArePickedUp
<1> QED
  BY <1>1, LoopKeepsInv, PTL

(* Runs keep the distance the gap and the back-off ask for.                *)
THEOREM RunsArePaced == Spec => Paced
<1>1. ASSUME Inv, Next, pc = "compare", pc' = "run"
      PROVE  /\ sinceRun >= Interval
             /\ failures = 0 => sinceRun >= MinGap
             /\ failures > 0 => sinceRun >= Interval + Backoff(failures)
  <2>1. /\ InvParts /\ sinceRun \in Nat /\ sinceIndex \in Nat
        /\ Required \in Nat /\ Required >= Interval
    BY <1>1, Facts
  <2>2. StartRun
    BY <1>1 DEF Next, UserStep, Tick, LoopStep, WakeUp, BackoffOver, ScanFiles, SkipCycle, FailCheck,
                BeginRun, BeginRunInVain, CleanFile, IndexFile, EndRun, FailRun
  <2>3. sinceIndex >= MinGap
    BY <2>1, <2>2, Times DEF StartRun, TooSoon
  <2>4. sinceRun >= Required
    BY <1>1, <2>1 DEF InvParts, PauseIsLongEnough
  <2>5. failures = 0 => sinceRun >= MinGap
    BY <1>1, <2>1, <2>3, Times DEF InvParts, GapIsCountedFromTheRun
  <2>6. failures > 0 => Required = Interval + Backoff(failures)
    BY DEF Required
  <2> QED
    BY <2>1, <2>4, <2>5, <2>6, Times
<1>2. Inv /\ [Next]_vars =>
        [pc = "compare" /\ pc' = "run" =>
            /\ sinceRun >= Interval
            /\ failures = 0 => sinceRun >= MinGap
            /\ failures > 0 => sinceRun >= Interval + Backoff(failures)]_vars
  BY <1>1
<1> QED
  BY <1>2, LoopKeepsInv, PTL DEF Spec, Paced
=============================================================================
