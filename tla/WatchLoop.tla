----------------------------- MODULE WatchLoop -----------------------------
(***************************************************************************)
(* The task spawn_watch_loop starts: sleep, look for changes, index, with  *)
(* a minimum time between a run and the next and a growing pause after a   *)
(* run that failed.  A run is index_all in outline: it looks at each file  *)
(* once and leaves in the fingerprint table the stamp of what it indexed   *)
(* (SequentialIndexer has the statements).  The user writes and removes    *)
(* files all along.                                                        *)
(*                                                                         *)
(* Time passes in ticks while the loop sleeps or a run is under way; what  *)
(* the loop does between two sleeps, a run excepted, takes none.           *)
(***************************************************************************)
EXTENDS Naturals, FiniteSetsExt

CONSTANTS
    Files,
    MaxEdits,    \* bound: contents ever written
    Rejected,    \* contents a run passes over without recording a stamp
    Interval,    \* interval_ms, ticks
    MinGap,      \* watch_min_index_interval_ms
    MaxBackoff,  \* max_backoff_ms
    MaxFaults    \* bound: index runs that fail

ASSUME WatchBoundsAssumption == MaxEdits \in Nat /\ MaxFaults \in Nat
ASSUME WatchTimesAssumption ==
    Interval \in Nat \ {0} /\ MinGap \in Nat /\ MaxBackoff \in Nat \ {0}

Absent == 0
Version == 1 .. MaxEdits

ASSUME WatchRejectedAssumption == Rejected \subseteq Version

VARIABLES
    disk,        \* content of each file
    edits,       \* contents written so far
    fingerprint, \* SQLite file_fingerprints
    pc,          \* where the loop is
    timer,       \* ticks left of its sleep
    todo,        \* check: the files scanned; run: the files still to look at
    gone,        \* run: fingerprinted files the scan has not found
    sinceIndex,  \* last_index_time.elapsed(), NeverIndexed, at most MinGap
    failures,    \* consecutive_failures
    faults,      \* failed runs so far
    sinceRun,    \* history: ticks since the last run ended, at most Pause
    staleFor     \* history: ticks there has been something to index and no run, at most Late

fileVars == <<disk, edits, fingerprint>>
historyVars == <<sinceRun, staleFor>>
vars == <<fileVars, pc, timer, todo, gone, sinceIndex, failures, faults, historyVars>>

NeverIndexed == MinGap + 1

(* The longest the loop is ever meant to pause between two runs when there *)
(* is something to index, and a wait that is longer.                       *)
Pause == Interval + Max({MinGap, MaxBackoff})
Late == Pause + 1

TypeOK ==
    /\ disk \in [Files -> Version \cup {Absent}]
    /\ edits \in 0 .. MaxEdits
    /\ fingerprint \in [Files -> Version \cup {Absent}]
    /\ pc \in {"sleep", "scan", "compare", "run", "backoff"}
    /\ timer \in 0 .. Max({Interval, MaxBackoff})
    /\ todo \subseteq Files
    /\ gone \subseteq Files
    /\ sinceIndex \in 0 .. NeverIndexed
    /\ failures \in 0 .. MaxFaults
    /\ faults \in 0 .. MaxFaults
    /\ sinceRun \in 0 .. Pause
    /\ staleFor \in 0 .. Late

Init ==
    /\ disk = [f \in Files |-> Absent]
    /\ edits = 0
    /\ fingerprint = [f \in Files |-> Absent]
    /\ pc = "sleep"
    /\ timer = Interval
    /\ todo = {}
    /\ gone = {}
    /\ sinceIndex = NeverIndexed
    /\ failures = 0
    /\ faults = 0
    /\ sinceRun = Pause
    /\ staleFor = 0

Exists(f) == disk[f] # Absent

(* What makes check_for_changes return true about a file: a stamp that is  *)
(* not the stored one, or a stored stamp and no file.                      *)
Changed(f) == fingerprint[f] # disk[f]

-----------------------------------------------------------------------------
(* The user and the clock. *)

Edit(f) ==
    /\ edits < MaxEdits
    /\ edits' = edits + 1
    /\ disk' = [disk EXCEPT ![f] = edits + 1]
    /\ UNCHANGED fingerprint

Remove(f) ==
    /\ Exists(f)
    /\ disk' = [disk EXCEPT ![f] = Absent]
    /\ UNCHANGED <<edits, fingerprint>>

UserStep ==
    /\ \E f \in Files : Edit(f) \/ Remove(f)
    /\ staleFor' = IF \E f \in Files : Changed(f)' THEN staleFor ELSE 0
    /\ UNCHANGED <<pc, timer, todo, gone, sinceIndex, failures, faults, sinceRun>>

(* Only a run and a sleep take time.  The waiting is counted while some    *)
(* file is changed, be it one after another, and no run is under way.      *)
Tick ==
    /\ \/ pc \in {"sleep", "backoff"} /\ timer > 0 /\ timer' = timer - 1
       \/ pc = "run" /\ UNCHANGED timer
    /\ sinceIndex' = IF sinceIndex < MinGap THEN sinceIndex + 1 ELSE sinceIndex
    /\ IF pc = "run"
         THEN sinceRun' = 0 /\ staleFor' = 0
         ELSE /\ sinceRun' = Min({sinceRun + 1, Pause})
              /\ staleFor' = IF \E f \in Files : Changed(f)
                               THEN Min({staleFor + 1, Late}) ELSE 0
    /\ UNCHANGED <<fileVars, pc, todo, gone, failures, faults>>

-----------------------------------------------------------------------------
(* The loop. *)

Sleep(length) == timer' = length /\ todo' = {} /\ gone' = {}

WakeUp ==
    /\ pc = "sleep" /\ timer = 0
    /\ pc' = "scan"
    /\ UNCHANGED <<fileVars, timer, todo, gone, sinceIndex, failures, faults, historyVars>>

BackoffOver ==
    /\ pc = "backoff" /\ timer = 0
    /\ pc' = "sleep" /\ timer' = Interval
    /\ UNCHANGED <<fileVars, todo, gone, sinceIndex, failures, faults, historyVars>>

(* check_for_changes: first the scan,                                      *)
ScanFiles ==
    /\ pc = "scan"
    /\ pc' = "compare"
    /\ todo' = {f \in Files : Exists(f)}
    /\ UNCHANGED <<fileVars, timer, gone, sinceIndex, failures, faults, historyVars>>

(* then file by file, in the order of the scan: the first whose stamp is   *)
(* not the stored one decides, a file that has vanished meanwhile is an    *)
(* error that ends the check, and last come the fingerprints without file. *)
(* Mutant: files that were deleted are no change.                          *)
FoundChangedContent == \E f \in todo : Exists(f) /\ Changed(f)

FoundChanged ==
    \/ \E f \in todo : Exists(f) /\ Changed(f)
    \/ /\ \A f \in todo : Exists(f)
       /\ \E f \in Files \ todo : fingerprint[f] # Absent

CheckFails == \E f \in todo : ~Exists(f)

(* Mutant: the time of the last run is not looked at.                      *)
NoRateLimit == FALSE

(* elapsed < min_index_interval                                            *)
TooSoon == sinceIndex < MinGap

(* Mutant: the gap is counted anew from every cycle that is skipped.       *)
SkipCycleRestartingGap ==
    /\ pc = "compare"
    /\ ~FoundChanged \/ CheckFails \/ TooSoon
    /\ pc' = "sleep"
    /\ Sleep(Interval)
    /\ sinceIndex' = IF FoundChanged THEN 0 ELSE sinceIndex
    /\ staleFor' = IF CheckFails THEN 0 ELSE staleFor
    /\ UNCHANGED <<fileVars, failures, faults, sinceRun>>

(* No change, an error, or a change too soon.                              *)
SkipCycle ==
    /\ pc = "compare"
    /\ ~FoundChanged \/ CheckFails \/ TooSoon
    /\ pc' = "sleep"
    /\ Sleep(Interval)
    /\ staleFor' = IF CheckFails THEN 0 ELSE staleFor
    /\ UNCHANGED <<fileVars, sinceIndex, failures, faults, sinceRun>>

(* The database or the stamp of a file cannot be read: the cycle is        *)
(* skipped, and no failure is counted.                                     *)
FailCheck ==
    /\ pc \in {"scan", "compare"}
    /\ faults < MaxFaults
    /\ faults' = faults + 1
    /\ pc' = "sleep"
    /\ Sleep(Interval)
    /\ staleFor' = 0
    /\ UNCHANGED <<fileVars, sinceIndex, failures, sinceRun>>

StartRun ==
    /\ pc = "compare"
    /\ ~TooSoon
    /\ pc' = "run"
    /\ todo' = {f \in Files : Exists(f)}
    /\ gone' = {f \in Files : fingerprint[f] # Absent /\ ~Exists(f)}
    /\ UNCHANGED <<fileVars, timer, sinceIndex, failures, historyVars>>

BeginRun == StartRun /\ FoundChanged /\ UNCHANGED faults

(* A stored stamp that cannot be read counts as none: a run for nothing.   *)
BeginRunInVain ==
    /\ StartRun
    /\ todo # {}
    /\ faults < MaxFaults
    /\ faults' = faults + 1

-----------------------------------------------------------------------------
(* The run. *)

(* Mutant: a deleted file is cleaned up but for its fingerprint.            *)
CleanFileKeepingStamp ==
    /\ pc = "run"
    /\ \E f \in gone : gone' = gone \ {f}
    /\ UNCHANGED <<fileVars, pc, timer, todo, sinceIndex, failures, faults, historyVars>>

CleanFile ==
    /\ pc = "run"
    /\ \E f \in gone :
          /\ fingerprint' = [fingerprint EXCEPT ![f] = Absent]
          /\ gone' = gone \ {f}
    /\ UNCHANGED <<disk, edits, pc, timer, todo, sinceIndex, failures, faults, historyVars>>

(* A file that has vanished or is rejected keeps the stamp it had.         *)
IndexFile ==
    /\ pc = "run" /\ gone = {}
    /\ \E f \in todo :
          /\ fingerprint' = [fingerprint EXCEPT ![f] =
                                IF disk[f] \in Rejected \cup {Absent} THEN @ ELSE disk[f]]
          /\ todo' = todo \ {f}
    /\ UNCHANGED <<disk, edits, pc, timer, gone, sinceIndex, failures, faults, historyVars>>

(* Mutant: the run's beginning is taken for the time of the last run.      *)
EndRunKeepingTime ==
    /\ pc = "run" /\ gone = {} /\ todo = {}
    /\ pc' = "sleep" /\ Sleep(Interval)
    /\ failures' = 0
    /\ sinceRun' = 0 /\ staleFor' = 0
    /\ sinceIndex' = IF sinceIndex = NeverIndexed THEN MinGap ELSE sinceIndex
    /\ UNCHANGED <<fileVars, faults>>

EndRun ==
    /\ pc = "run" /\ gone = {} /\ todo = {}
    /\ pc' = "sleep" /\ Sleep(Interval)
    /\ sinceIndex' = 0
    /\ failures' = 0
    /\ sinceRun' = 0 /\ staleFor' = 0
    /\ UNCHANGED <<fileVars, faults>>

(* Mutant: no limit.                                                       *)
BackoffUnlimited(k) == Interval * 2 ^ Min({k, 8})

(* interval_ms * (1 << consecutive_failures.min(8)), at most max_backoff.  *)
Backoff(k) == Min({Interval * 2 ^ Min({k, 8}), MaxBackoff})

(* last_index_time stays what it was.                                      *)
FailRun ==
    /\ pc = "run"
    /\ faults < MaxFaults
    /\ faults' = faults + 1
    /\ failures' = failures + 1
    /\ pc' = "backoff" /\ Sleep(Backoff(failures + 1))
    /\ sinceRun' = 0 /\ staleFor' = 0
    /\ UNCHANGED <<fileVars, sinceIndex>>

-----------------------------------------------------------------------------
LoopStep ==
    \/ WakeUp \/ BackoffOver \/ ScanFiles \/ SkipCycle \/ BeginRun
    \/ CleanFile \/ IndexFile \/ EndRun

Next == UserStep \/ Tick \/ LoopStep \/ FailCheck \/ BeginRunInVain \/ FailRun

Spec == Init /\ [][Next]_vars

(* Time passes while the loop sleeps, and the loop and its runs go on.     *)
Fairness == WF_vars(pc # "run" /\ Tick) /\ WF_vars(LoopStep)

FairSpec == Spec /\ Fairness

-----------------------------------------------------------------------------
(* Properties. *)

(* Between the end of a run and the beginning of the next the loop pauses: *)
(* an interval and the minimum gap after a success, an interval and the    *)
(* back-off, which doubles up to its limit, after a failure.               *)
Paced ==
    [][pc = "compare" /\ pc' = "run" =>
          /\ sinceRun >= Interval
          /\ failures = 0 => sinceRun >= MinGap
          /\ failures > 0 => sinceRun >= Interval + Backoff(failures)]_vars

(* While there is something to index no run is further off than an         *)
(* interval after the minimum gap or after the longest back-off, unless a  *)
(* check was cut short, by a file that vanished under it or by an error.   *)
ChangesArePickedUp == staleFor < Late

(* "Only re-index if files have actually changed": once the files are      *)
(* left alone the loop stops indexing.                                     *)
EventuallyQuiet == <>[](pc # "run")

(* And what it leaves behind is the index of what is on disk.              *)
EventuallyIndexed == <>[](\A f \in Files : disk[f] \notin Rejected => ~Changed(f))
=============================================================================
