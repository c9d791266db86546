----------------------------- MODULE FreshIndex -----------------------------
(***************************************************************************)
(* What an index over a changing workspace promises, without saying how it *)
(* is kept: each file is served or not; a change to a file ends its being  *)
(* served, publication starts it, and nothing else does either.            *)
(***************************************************************************)
EXTENDS Naturals

CONSTANTS
    Files,
    MaxEdits,
    Rejected    \* contents that cannot be indexed

VARIABLES
    disk,    \* content of each file
    edits,   \* contents written so far
    served   \* files answered for with the content on disk

vars == <<disk, edits, served>>

Gone == 0

Init ==
    /\ edits = 0
    /\ disk = [f \in Files |-> Gone]
    /\ served = {}

Write(f) ==
    /\ edits < MaxEdits
    /\ edits' = edits + 1
    /\ disk' = [disk EXCEPT ![f] = edits + 1]
    /\ served' = served \ {f}

Unlink(f) ==
    /\ disk[f] # Gone
    /\ disk' = [disk EXCEPT ![f] = Gone]
    /\ served' = served \ {f}
    /\ UNCHANGED edits

Publish(f) ==
    /\ f \notin served
    /\ disk[f] \notin Rejected \cup {Gone}
    /\ served' = served \cup {f}
    /\ UNCHANGED <<disk, edits>>

Next == \E f \in Files : Write(f) \/ Unlink(f) \/ Publish(f)

Spec == Init /\ [][Next]_vars

(* A file that stays as it is gets published.                              *)
FairSpec == Spec /\ \A f \in Files : WF_vars(Publish(f))
=============================================================================
