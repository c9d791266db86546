--------------------------------- MODULE Orders ---------------------------------
(***************************************************************************)
(* Lists put in order, cut, filtered and summed: what ORDER BY and LIMIT of *)
(* the queries, slice::sort, Vec::truncate, Iterator::filter and sum of    *)
(* the standard library do for this program.  SelectSeq and SortSeq mean   *)
(* the same, and have no definition a proof can use.                       *)
(***************************************************************************)
EXTENDS Integers, SequencesExt, FiniteSetsExt

\* The members of a finite set in the order Before, a strict total order on it.
Sorted(S, Before(_, _)) ==
    LET before == [e \in S |-> Cardinality({d \in S : Before(d, e)})]
    IN  [i \in 1..Cardinality(S) |-> CHOOSE e \in S : before[e] = i - 1]

Truncate(s, limit) == SubSeq(s, 1, IF limit < Len(s) THEN limit ELSE Len(s))

FirstRows(S, Before(_, _), limit) == Truncate(Sorted(S, Before), limit)

\* The elements of a sequence that pass a test, in their order.
Select(s, Test(_)) ==
    LET at == Sorted({i \in DOMAIN s : Test(s[i])}, LAMBDA i, j : i < j)
    IN  [k \in DOMAIN at |-> s[at[k]]]

Sum(s) == FoldLeft(LAMBDA n, x : n + x, 0, s)
=============================================================================
