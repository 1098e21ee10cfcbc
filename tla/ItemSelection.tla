--------------------------- MODULE ItemSelection ---------------------------
(***************************************************************************)
(* What the filters over lists share: they keep the items that pass a      *)
(* test, in their order (filter, retain and the like of the source).       *)
(* SelectSeq, written as a function so that proofs can speak of it.        *)
(***************************************************************************)
EXTENDS Naturals, Sequences

(* The items at some places.                                               *)
Picked(items, places) ==
    LET picked[n \in 0..Len(items)] ==
            IF n = 0 THEN <<>>
            ELSE IF n \in places THEN Append(picked[n - 1], items[n])
                 ELSE picked[n - 1]
    IN  picked[Len(items)]

(* The items that are in S, and the others.                                *)
Those(items, S) == Picked(items, {i \in DOMAIN items : items[i] \in S})
Others(items, S) == Picked(items, {i \in DOMAIN items : items[i] \notin S})
=============================================================================
