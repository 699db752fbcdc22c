--------------------------------- MODULE Lists ---------------------------------
(* Sorting and filtering, by positions and ranks: SortSeq and SelectSeq are *)
(* recursive, which leaves nothing to reason from.                          *)
EXTENDS Naturals, Sequences, FiniteSets

(* The elements of the finite set S, in the order of Ahead: the k-th is the *)
(* one that k - 1 others are ahead of.                                      *)
Sorted(S, Ahead(_, _)) ==
  [k \in 1..Cardinality(S) |->
     CHOOSE c \in S : Cardinality({d \in S : Ahead(d, c)}) = k - 1]

(* What seq holds at the given positions, in order.                         *)
Picked(positions, seq) ==
  LET order == Sorted(positions, <)
  IN  [k \in 1..Cardinality(positions) |-> seq[order[k]]]

Only(S, seq) == Picked({i \in DOMAIN seq : seq[i] \in S}, seq)

(* The first n of seq, or all there are.                                    *)
Top(n, seq) == SubSeq(seq, 1, IF n < Len(seq) THEN n ELSE Len(seq))
================================================================================
