------------------------------ MODULE Inventory ------------------------------
(***************************************************************************)
(* The table warehouse_inventories behind inventoryRepo: one row for each  *)
(* warehouse and material that ever had stock, changed by single SQL       *)
(* statements.  A statement is atomic whoever else runs one; nothing ties  *)
(* two statements together, for the API never opens a transaction.         *)
(* Only the quantity column is kept.                                       *)
(***************************************************************************)
EXTENDS Integers, FiniteSetsExt

CONSTANTS Warehouse, Material

VARIABLES
  stock,    \* quantity at each location, 0 where there is no row
  rows      \* locations that have a row

inventoryVars == <<stock, rows>>

\* The unique index (warehouse_id, material_id).
Loc == Warehouse \X Material

InventoryInit == stock = [l \in Loc |-> 0] /\ rows = {}

InventoryTypeOK == stock \in [Loc -> Int] /\ rows \in SUBSET Loc

\* Defect: the conflict branch overwrites the quantity instead of adding.
OverwriteQuantity(l, delta) ==
  /\ stock' = [stock EXCEPT ![l] = delta]
  /\ rows' = rows \cup {l}

\* INSERT ... ON CONFLICT DO UPDATE SET quantity = quantity + delta.
AdjustQuantity(l, delta) ==
  /\ stock' = [stock EXCEPT ![l] = @ + delta]
  /\ rows' = rows \cup {l}

\* Defect: the conflict branch has no WHERE.
AnyAccepted(l, delta) == TRUE

\* The WHERE clause guards the conflict branch only: a first row is inserted
\* whatever its quantity.
Accepted(l, delta) == l \notin rows \/ stock[l] + delta >= 0

\* AdjustQuantityWithCheck that affects a row.
AdjustQuantityWithCheck(l, delta) ==
  /\ Accepted(l, delta)
  /\ AdjustQuantity(l, delta)

\* Upsert of InventoryService.Set: the count of a stocktaking replaces the row.
Upsert(l, quantity) ==
  /\ stock' = [stock EXCEPT ![l] = quantity]
  /\ rows' = rows \cup {l}

-----------------------------------------------------------------------------
\* The places of a material, and sums over places or items of it.
PlacesOf(m) == {l \in Loc : l[2] = m}
SumOver(f, S) == MapThenSumSet(LAMBDA x : f[x], S)

=============================================================================
