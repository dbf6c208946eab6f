-------------------------- MODULE MCPurchaseReceipt --------------------------
(* Orders, items and symmetry for PurchaseReceipt. *)
EXTENDS PurchaseReceipt, TLC

CONSTANTS o1, i1, i2, m1, m2

\* One order of two materials.
TwoItems == (i1 :> o1) @@ (i2 :> o1)
TwoMaterials == (i1 :> m1) @@ (i2 :> m2)
OneOfEach == [i \in Item |-> 1]

Callers == Permutations(Req)

=============================================================================
