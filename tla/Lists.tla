------------------------------- MODULE Lists --------------------------------
(***************************************************************************)
(* Filters and sorts of lists, by folds.                                   *)
(***************************************************************************)
EXTENDS Integers, FiniteSetsExt, SequencesExt

\* The elements of a sequence that are in a set, in their order.
Only(seq, set) ==
    FoldLeft(LAMBDA kept, x : IF x \in set THEN Append(kept, x) ELSE kept, <<>>, seq)

\* x stands before the first element it has to stand before.
PutInPlace(x, seq, before) ==
    LET behind == {i \in DOMAIN seq : <<x, seq[i]>> \in before}
    IN  InsertAt(seq, IF behind = {} THEN Len(seq) + 1 ELSE Min(behind), x)

\* The elements of a finite set in the order of a relation; what it does not
\* order stands in some order.
Sorted(set, before) == FoldSet(LAMBDA x, seq : PutInPlace(x, seq, before), <<>>, set)
=============================================================================
