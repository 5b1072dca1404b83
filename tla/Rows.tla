-------------------------------- MODULE Rows --------------------------------
(***************************************************************************)
(* Rows as the pages handle them: the server sorts and slices, a search    *)
(* box drops some.  InOrder(S) is SetToSortSeq(S, <), and Kept a SelectSeq *)
(* by position; both are defined here so that proofs can look inside.      *)
(***************************************************************************)
EXTENDS Integers, Sequences, FiniteSets

\* ORDER BY: the elements of a finite set of numbers, ascending.
InOrder(S) ==
    CHOOSE s \in [1..Cardinality(S) -> S] :
        \A i, j \in 1..Cardinality(S) : i < j => s[i] < s[j]

\* filter: the elements of s at some of its positions.
Kept(s, positions) ==
    [k \in 1..Cardinality(positions) |-> s[InOrder(positions)[k]]]

\* LIMIT n OFFSET (p - 1) * n: nothing past the end.
Slice(s, p, n) ==
    SubSeq(s, (p - 1) * n + 1, IF p * n < Len(s) THEN p * n ELSE Len(s))
=============================================================================
