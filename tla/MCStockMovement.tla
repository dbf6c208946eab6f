--------------------------- MODULE MCStockMovement ---------------------------
(* Documents, places and symmetry for StockMovement. *)
EXTENDS StockMovement, TLC

CONSTANTS w1, w2, m1, t1, t2, t3, d1

Here == <<w1, m1>>
There == <<w2, m1>>

\* Opposite transfers, and one onto its own warehouse.
Sources == [t \in Transfer |-> CASE t = t1 -> Here [] t = t2 -> There [] OTHER -> Here]
Targets == [t \in Transfer |-> CASE t = t1 -> There [] t = t2 -> Here [] OTHER -> Here]
Places == [d \in Requisition |-> Here]

OneOfEach == [d \in Doc |-> 1]

FirstRow == {Here}
OnePiece == [l \in Loc |-> IF l \in InitRows THEN 1 ELSE 0]

Pieces == {0, 1}
OnlyOne == {1}
=============================================================================
