----------------------------- MODULE LruCaches -----------------------------
(***************************************************************************)
(* LruCache of the retriever as a value: the operations of its three       *)
(* methods.  A cache is an order of keys, the least recently used first, a *)
(* table of the values with their sizes, and the number of bytes it thinks *)
(* it holds.                                                               *)
(***************************************************************************)
EXTENDS Integers, SequencesExt, FiniteSetsExt

CONSTANT NoLimit  \* max_bytes is None

ASSUME NoLimitAssumption == NoLimit \notin Nat

EmptyCache == [order |-> <<>>, entries |-> <<>>, used |-> 0]

Keys(c) == DOMAIN c.entries

(* Mutant: the operands the wrong way round.                               *)
LessSwapped(m, n) == n - m

(* usize::saturating_sub                                                   *)
Less(m, n) == IF m >= n THEN m - n ELSE 0

(* The bytes of the values under some of the keys, counted one by one.     *)
SizeOf(c, keys) == Cardinality(UNION {{k} \X (1 .. c.entries[k].size) : k \in keys})

TotalSize(c) == SizeOf(c, Keys(c))

(* The first place of the key, if it has one, is removed from the queue.   *)
Touch(order, key) ==
    LET places == {i \in DOMAIN order : order[i] = key}
    IN  Append(IF places = {} THEN order ELSE RemoveAt(order, Min(places)), key)

(* get of a key that is there.                                             *)
Get(c, key) == [c EXCEPT !.order = Touch(c.order, key)]

(* The first half of insert, both branches.                                *)
Put(c, key, value, size) ==
    [order   |-> Touch(c.order, key),
     entries |-> [k \in Keys(c) \cup {key} |->
                     IF k = key THEN [value |-> value, size |-> size] ELSE c.entries[k]],
     used    |-> (IF key \in Keys(c) THEN Less(c.used, c.entries[key].size) ELSE c.used)
                 + size]

(* Mutant: the newest keys go.                                             *)
NewestPopped(c, n) ==
    LET left == Len(c.order) - n
        gone == {c.order[i] : i \in left + 1 .. Len(c.order)}
    IN  [order   |-> SubSeq(c.order, 1, left),
         entries |-> [k \in Keys(c) \ gone |-> c.entries[k]],
         used    |-> Less(c.used, SizeOf(c, gone \cap Keys(c)))]

(* What n rounds of the loops leave: the n oldest keys are popped and what *)
(* the table had under them is removed.  Subtracting their sizes one after *)
(* another, each time down to 0 at most, is subtracting their sum.         *)
Popped(c, n) ==
    LET gone == {c.order[i] : i \in 1 .. n}
    IN  [order   |-> SubSeq(c.order, n + 1, Len(c.order)),
         entries |-> [k \in Keys(c) \ gone |-> c.entries[k]],
         used    |-> Less(c.used, SizeOf(c, gone \cap Keys(c)))]

(* Mutant: `>=` in the loop over the entries.                              *)
FitsWithRoom(c, limits) ==
    /\ Len(c.order) < limits.entries \/ c.order = <<>>
    /\ limits.bytes = NoLimit \/ c.used <= limits.bytes \/ c.order = <<>>

(* Mutant: one entry more than the limit.                                  *)
FitsOneMore(c, limits) ==
    /\ Len(c.order) <= limits.entries + 1
    /\ limits.bytes = NoLimit \/ c.used <= limits.bytes \/ c.order = <<>>

(* Where both loops of the second half of insert stop.                     *)
Fits(c, limits) ==
    /\ Len(c.order) <= limits.entries
    /\ limits.bytes = NoLimit \/ c.used <= limits.bytes \/ c.order = <<>>

Evict(c, limits) ==
    Popped(c, Min({n \in 0 .. Len(c.order) : Fits(Popped(c, n), limits)}))

Insert(c, key, value, size, limits) == Evict(Put(c, key, value, size), limits)
=============================================================================
