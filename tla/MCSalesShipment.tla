--------------------------- MODULE MCSalesShipment ---------------------------
(* Orders, items, stock and symmetry for SalesShipment. *)
EXTENDS SalesShipment, TLC

CONSTANTS o1, i1, i2, w1, w2, m1, m2

\* One order of two materials, one piece each.
OneOrder == [i \in Item |-> o1]
OneMaterial == [i \in Item |-> m1]
OneOfEach == [i \in Item |-> 1]
TwoOfEach == [i \in Item |-> 2]

\* The first warehouse has rows, the second never had stock.
RowsAtFirst == {l \in Loc : l[1] = w1}
RowsEverywhere == Loc
Pieces(n) == [l \in Loc |-> IF l \in InitRows THEN n ELSE 0]
ThreePieces == Pieces(3)

Callers == Permutations(Req)

=============================================================================
