------------------------------ MODULE LruCache ------------------------------
(***************************************************************************)
(* One cache and the calls made on it, each under the lock of the          *)
(* retriever's caches: get, insert and clear, in any order.                *)
(***************************************************************************)
EXTENDS LruCaches

CONSTANTS
    Key,
    Value,
    Sizes,       \* the sizes values come with
    MaxEntries,
    MaxBytes     \* a number of bytes or NoLimit

ASSUME SizesAssumption == Sizes \subseteq Nat
ASSUME LimitsAssumption == MaxEntries \in Nat /\ MaxBytes \in Nat \cup {NoLimit}

VARIABLES
    cache,
    latest,    \* history: what each key was last inserted with since the last clear
    usedAfter  \* history: the pairs of these keys, the first used after the second

vars == <<cache, latest, usedAfter>>

limits == [entries |-> MaxEntries, bytes |-> MaxBytes]

TypeOK ==
    /\ cache.order \in Seq(Key)
    /\ Keys(cache) \subseteq Key
    /\ \A k \in Keys(cache) : cache.entries[k] \in [value : Value, size : Sizes]
    /\ cache.used \in Nat
    /\ DOMAIN latest \subseteq Key
    /\ usedAfter \subseteq (DOMAIN latest) \X (DOMAIN latest)

Init ==
    /\ cache = EmptyCache
    /\ latest = <<>>
    /\ usedAfter = {}

(* The key is now the one used last of all.                                *)
Use(k) ==
    usedAfter' = {p \in usedAfter : k \notin {p[1], p[2]}} \cup ({k} \X (DOMAIN latest' \ {k}))

GetHit(k) ==
    /\ k \in Keys(cache)
    /\ cache' = Get(cache, k)
    /\ UNCHANGED latest
    /\ Use(k)

InsertValue(k, v, size) ==
    /\ cache' = Insert(cache, k, v, size, limits)
    /\ latest' = [o \in DOMAIN latest \cup {k} |->
                     IF o = k THEN [value |-> v, size |-> size] ELSE latest[o]]
    /\ Use(k)

ClearAll ==
    /\ cache' = EmptyCache
    /\ latest' = <<>>
    /\ usedAfter' = {}

Next ==
    \/ \E k \in Key : GetHit(k)
    \/ \E k \in Key, v \in Value, size \in Sizes : InsertValue(k, v, size)
    \/ ClearAll

Spec == Init /\ [][Next]_vars

-----------------------------------------------------------------------------
(* Properties. *)

(* After every call, also after an insert larger than the cache, both      *)
(* limits hold, and what they are measured with is true: the queue and the *)
(* table hold the same keys, each once, so that a pop always frees an      *)
(* entry, and used_bytes is the size of what is in the table, through      *)
(* replacements, evictions and the saturating subtractions.                *)
WithinLimits ==
    /\ ToSet(cache.order) = Keys(cache)
    /\ IsInjective(cache.order)
    /\ cache.used = TotalSize(cache)
    /\ Len(cache.order) <= MaxEntries
    /\ MaxBytes = NoLimit \/ TotalSize(cache) <= MaxBytes

(* What is kept are the keys used most recently, in the order of use, each *)
(* with the value of its last insert.                                      *)
KeepsMostRecent ==
    /\ \A i, j \in DOMAIN cache.order : i < j => <<cache.order[j], cache.order[i]>> \in usedAfter
    /\ Keys(cache) \X (DOMAIN latest \ Keys(cache)) \subseteq usedAfter
    /\ \A k \in Keys(cache) : cache.entries[k] = latest[k]

(* An insert evicts no more than it has to: the last key to go would not   *)
(* have fitted with those that stay, be it the inserted one itself.        *)
IsLast(k, keys, after) == {k} \X (keys \ {k}) \subseteq after

Evicted == {k \in DOMAIN latest' \ Keys(cache') :
               k \in Keys(cache) \/ IsLast(k, DOMAIN latest', usedAfter')}

EvictsOnlyWhatDoesNotFit ==
    [][Evicted # {} =>
          \E last \in Evicted :
              /\ IsLast(last, Evicted, usedAfter')
              /\ \/ Len(cache'.order) + 1 > MaxEntries
                 \/ /\ MaxBytes # NoLimit
                    /\ TotalSize(cache') + latest'[last].size > MaxBytes]_vars
=============================================================================
