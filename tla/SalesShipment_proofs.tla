------------------------ MODULE SalesShipment_proofs -------------------------
(***************************************************************************)
(* Proofs about SalesShipment for any number of requests, orders, items,   *)
(* materials and warehouses, with and without the tenant column, crashes,  *)
(* Redis faults and failing statements.                                    *)
(***************************************************************************)
EXTENDS SalesShipment, Inventory_proofs

(***************************************************************************)
(* What an item lacks is an integer, positive for the loop variable.       *)
(***************************************************************************)
LEMMA MissingType ==
  ASSUME TypeOK, NEW r \in Req, NEW i \in Item
  PROVE  Missing(r, i) \in Int
BY ShipmentAssumption DEF TypeOK, CallTypeOK, Missing

(* The item at hand is one of the order's, lacks something, and has a place *)
(* in the warehouse.                                                        *)
LEMMA HandledItem ==
  ASSUME TypeOK, HandlesMissing, NEW r \in Req, pc[r] \in InLoop \ {"loop"}
  PROVE  /\ item[r] \in Item /\ item[r] \in todo[r]
         /\ Missing(r, item[r]) \in Nat /\ Missing(r, item[r]) > 0
         /\ Place(r) \in Loc
<1>1. item[r] \in Item /\ wh[r] \in Warehouse
  BY DEF TypeOK, CallTypeOK
<1>2. item[r] \in todo[r] /\ Missing(r, item[r]) > 0
  BY DEF HandlesMissing
<1>3. Missing(r, item[r]) \in Int
  BY <1>1, MissingType
<1>4. Place(r) \in Loc
  BY <1>1, ShipmentAssumption DEF Place, Loc
<1> QED BY <1>1, <1>2, <1>3, <1>4

(***************************************************************************)
(* Only AdjustStock touches the rows, the quantities and the history of    *)
(* what moved, and it takes as much out of the row as it adds to moved.    *)
(***************************************************************************)
LEMMA StockMoves ==
  ASSUME [Next]_vars, ~ UNCHANGED <<stock, rows, moved>>
  PROVE  \E r \in Req :
           /\ pc[r] = "adjust" /\ Accepted(Place(r), 0 - Missing(r, item[r]))
           /\ rows' = rows \cup {Place(r)}
           /\ stock' = [stock EXCEPT ![Place(r)] = @ + (0 - Missing(r, item[r]))]
           /\ moved' = [moved EXCEPT ![item[r]] = @ + Missing(r, item[r])]
<1>1. \E r \in Req : AdjustStock(r)
  BY DEF Next, Start, Step, vars, inventoryVars, CreateSalesOrder,
         CreateSalesOrderItem, CreateSalesOrderReturns, BatchStatusChange, StartChange, SaveStatus,
         StartShip, ListItems, SkipItem, TakeItem, LockItem, LockReplyLost,
         UnlockItem, RecordItem, FinishOrder, Crash, LockExpires
<1> QED BY <1>1 DEF AdjustStock, AdjustQuantityWithCheck, AdjustQuantity, inventoryVars

(* What has left the stock is not undone: moved does not shrink.            *)
LEMMA LeftStockStays ==
  ASSUME TypeOK, HandlesMissing, [Next]_vars, NEW i \in Item, LeftStock(i)
  PROVE  LeftStock(i)'
<1> USE ShipmentAssumption DEF TypeOK, StoreTypeOK, LeftStock
<1>1. CASE UNCHANGED <<stock, rows, moved>>
  BY <1>1
<1>2. CASE ~ UNCHANGED <<stock, rows, moved>>
  <2>1. PICK r \in Req :
          /\ pc[r] = "adjust"
          /\ moved' = [moved EXCEPT ![item[r]] = @ + Missing(r, item[r])]
    BY <1>2, StockMoves
  <2>2. item[r] \in Item /\ Missing(r, item[r]) \in Nat
    BY <2>1, HandledItem DEF InLoop
  <2> QED BY <2>1, <2>2
<1> QED BY <1>1, <1>2

(***************************************************************************)
(* The tables keep their types: quantities stay natural because the loop   *)
(* handles only items with something missing.                              *)
(***************************************************************************)
LEMMA StoreTypeStep ==
  ASSUME TypeOK, HandlesMissing, [Next]_vars
  PROVE  StoreTypeOK'
<1> USE ShipmentAssumption
    DEF TypeOK, StoreTypeOK, InventoryTypeOK, Locks!LockTableTypeOK, InLoop,
        inventoryVars, orderVars, argVars, loopVars
<1>1. ASSUME NEW o \in Order, NEW s \in SalesStatus, CreateSalesOrder(o, s)
      PROVE  StoreTypeOK'
  BY <1>1 DEF CreateSalesOrder, AnyWord
<1>2. ASSUME NEW i \in Item, CreateSalesOrderItem(i)
      PROVE  StoreTypeOK'
  BY <1>2 DEF CreateSalesOrderItem
<1>3. ASSUME NEW o \in Order, CreateSalesOrderReturns(o)
      PROVE  StoreTypeOK'
  BY <1>3 DEF CreateSalesOrderReturns
<1>4. ASSUME NEW r \in Req, NEW o \in Order, NEW s \in SalesStatus, StartChange(r, o, s)
      PROVE  StoreTypeOK'
  BY <1>4 DEF StartChange, Goto
<1>5. ASSUME NEW r \in Req, SaveStatus(r)
      PROVE  StoreTypeOK'
  BY <1>5 DEF SaveStatus, Goto, CallTypeOK, AnyWord
<1>6. ASSUME NEW r \in Req, NEW o \in Order, NEW w \in Warehouse, StartShip(r, o, w)
      PROVE  StoreTypeOK'
  BY <1>6 DEF StartShip, Goto
<1>7. ASSUME NEW r \in Req, ListItems(r)
      PROVE  StoreTypeOK'
  BY <1>7 DEF ListItems, Goto
<1>8. ASSUME NEW r \in Req, NEW i \in Item, SkipItem(r, i)
      PROVE  StoreTypeOK'
  BY <1>8 DEF SkipItem
<1>9. ASSUME NEW r \in Req, NEW i \in Item, TakeItem(r, i)
      PROVE  StoreTypeOK'
  BY <1>9 DEF TakeItem, Goto
<1>10. ASSUME NEW r \in Req, LockItem(r)
      PROVE  StoreTypeOK'
  BY <1>10 DEF LockItem, Goto, Locks!Granted, Locks!Refused, Locks!SetNX
<1>11. ASSUME NEW r \in Req, LockReplyLost(r)
      PROVE  StoreTypeOK'
  BY <1>11 DEF LockReplyLost, Locks!ReplyLost, Locks!SetNX
<1>12. ASSUME NEW r \in Req, AdjustStock(r)
      PROVE  StoreTypeOK'
  <2>1. /\ item[r] \in Item /\ Missing(r, item[r]) \in Nat /\ Missing(r, item[r]) > 0
        /\ Place(r) \in Loc
    BY <1>12, HandledItem DEF AdjustStock
  <2>2. stock' \in [Loc -> Int] /\ rows' \in SUBSET Loc
    BY <1>12, <2>1 DEF AdjustStock, AdjustQuantityWithCheck, AdjustQuantity
  <2>3. moved' \in [Item -> Nat]
    BY <1>12, <2>1 DEF AdjustStock
  <2> QED BY <1>12, <2>2, <2>3 DEF AdjustStock
<1>13. ASSUME NEW r \in Req, UnlockItem(r)
      PROVE  StoreTypeOK'
  BY <1>13 DEF UnlockItem, Goto, Locks!Released, Locks!Unlock
<1>14. ASSUME NEW r \in Req, RecordItem(r)
      PROVE  StoreTypeOK'
  <2>1. item[r] \in Item
    BY <1>14, HandledItem DEF RecordItem
  <2>2. shipped' \in [Item -> Nat]
    BY <1>14, <2>1 DEF RecordItem
  <2> QED BY <1>14, <2>2 DEF RecordItem
<1>15. ASSUME NEW r \in Req, FinishOrder(r)
      PROVE  StoreTypeOK'
  BY <1>15 DEF FinishOrder, Goto, CallTypeOK, SalesStatus, AnyWord
<1>16. ASSUME NEW r \in Req, Crash(r)
      PROVE  StoreTypeOK'
  BY <1>16 DEF Crash, Goto
<1>17. ASSUME NEW l \in Loc, LockExpires(l)
      PROVE  StoreTypeOK'
  BY <1>17 DEF LockExpires, Locks!KeyExpires
<1>18. ASSUME NEW o \in Order, NEW word \in AnyWord, BatchStatusChange(o, word)
      PROVE  StoreTypeOK'
  BY <1>18 DEF BatchStatusChange, AnyWord
<1>19. CASE UNCHANGED vars
  BY <1>19 DEF vars
<1> QED
  BY <1>1, <1>2, <1>3, <1>4, <1>5, <1>6, <1>7, <1>8, <1>9, <1>10, <1>11,
     <1>12, <1>13, <1>14, <1>15, <1>16, <1>17, <1>18, <1>19
  DEF Next, Start, Step

(***************************************************************************)
(* The variables of the calls keep their types.                            *)
(***************************************************************************)
LEMMA CallTypeStep ==
  ASSUME TypeOK, [Next]_vars
  PROVE  CallTypeOK'
<1> USE ShipmentAssumption
    DEF TypeOK, CallTypeOK, InLoop, Ended, argVars, loopVars
<1>1. ASSUME NEW o \in Order, NEW s \in SalesStatus, CreateSalesOrder(o, s)
      PROVE  CallTypeOK'
  BY <1>1 DEF CreateSalesOrder
<1>2. ASSUME NEW i \in Item, CreateSalesOrderItem(i)
      PROVE  CallTypeOK'
  BY <1>2 DEF CreateSalesOrderItem
<1>3. ASSUME NEW o \in Order, CreateSalesOrderReturns(o)
      PROVE  CallTypeOK'
  BY <1>3 DEF CreateSalesOrderReturns
<1>4. ASSUME NEW r \in Req, NEW o \in Order, NEW s \in SalesStatus, StartChange(r, o, s)
      PROVE  CallTypeOK'
  BY <1>4 DEF StartChange, Goto
<1>5. ASSUME NEW r \in Req, SaveStatus(r)
      PROVE  CallTypeOK'
  BY <1>5 DEF SaveStatus, Goto
<1>6. ASSUME NEW r \in Req, NEW o \in Order, NEW w \in Warehouse, StartShip(r, o, w)
      PROVE  CallTypeOK'
  BY <1>6 DEF StartShip, Goto
<1>7. ASSUME NEW r \in Req, ListItems(r)
      PROVE  CallTypeOK'
  <2>0. ItemsOf(ord[r]) \cap placed \in SUBSET Item
    BY DEF StoreTypeOK
  <2>1. todo' \in [Req -> SUBSET Item]
    BY <1>7, <2>0 DEF ListItems
  <2>2. snap' \in [Req -> [Item -> Nat]]
    BY <1>7 DEF ListItems, StoreTypeOK
  <2> QED BY <1>7, <2>1, <2>2 DEF ListItems, Goto
<1>8. ASSUME NEW r \in Req, NEW i \in Item, SkipItem(r, i)
      PROVE  CallTypeOK'
  BY <1>8 DEF SkipItem
<1>9. ASSUME NEW r \in Req, NEW i \in Item, TakeItem(r, i)
      PROVE  CallTypeOK'
  BY <1>9 DEF TakeItem, Goto
<1>10. ASSUME NEW r \in Req, LockItem(r)
      PROVE  CallTypeOK'
  BY <1>10 DEF LockItem, Goto, Locks!Granted, Locks!Refused, Locks!SetNX
<1>11. ASSUME NEW r \in Req, LockReplyLost(r)
      PROVE  CallTypeOK'
  BY <1>11 DEF LockReplyLost, Locks!ReplyLost, Locks!SetNX
<1>12. ASSUME NEW r \in Req, AdjustStock(r)
      PROVE  CallTypeOK'
  BY <1>12 DEF AdjustStock, Goto, AdjustQuantityWithCheck, AdjustQuantity
<1>13. ASSUME NEW r \in Req, UnlockItem(r)
      PROVE  CallTypeOK'
  BY <1>13 DEF UnlockItem, Goto, Locks!Released, Locks!Unlock
<1>14. ASSUME NEW r \in Req, RecordItem(r)
      PROVE  CallTypeOK'
  BY <1>14 DEF RecordItem, Goto
<1>15. ASSUME NEW r \in Req, FinishOrder(r)
      PROVE  CallTypeOK'
  BY <1>15 DEF FinishOrder, Goto
<1>16. ASSUME NEW r \in Req, Crash(r)
      PROVE  CallTypeOK'
  BY <1>16 DEF Crash, Goto
<1>17. ASSUME NEW l \in Loc, LockExpires(l)
      PROVE  CallTypeOK'
  BY <1>17 DEF LockExpires, Locks!KeyExpires
<1>18. ASSUME NEW o \in Order, NEW word \in AnyWord, BatchStatusChange(o, word)
      PROVE  CallTypeOK'
  BY <1>18 DEF BatchStatusChange, AnyWord
<1>19. CASE UNCHANGED vars
  BY <1>19 DEF vars
<1> QED
  BY <1>1, <1>2, <1>3, <1>4, <1>5, <1>6, <1>7, <1>8, <1>9, <1>10, <1>11,
     <1>12, <1>13, <1>14, <1>15, <1>16, <1>17, <1>18, <1>19
  DEF Next, Start, Step

(***************************************************************************)
(* The loop variable stays an unfinished item with something missing.      *)
(***************************************************************************)
LEMMA HandlesStep ==
  ASSUME TypeOK, HandlesMissing, [Next]_vars
  PROVE  HandlesMissing'
<1> USE DEF TypeOK, CallTypeOK, InLoop, Ended, argVars, loopVars, HandlesMissing, Missing
<1>1. ASSUME NEW o \in Order, NEW s \in SalesStatus, CreateSalesOrder(o, s)
      PROVE  HandlesMissing'
  BY <1>1 DEF CreateSalesOrder
<1>2. ASSUME NEW i \in Item, CreateSalesOrderItem(i)
      PROVE  HandlesMissing'
  BY <1>2 DEF CreateSalesOrderItem
<1>3. ASSUME NEW o \in Order, CreateSalesOrderReturns(o)
      PROVE  HandlesMissing'
  BY <1>3 DEF CreateSalesOrderReturns
<1>4. ASSUME NEW r \in Req, NEW o \in Order, NEW s \in SalesStatus, StartChange(r, o, s)
      PROVE  HandlesMissing'
  BY <1>4 DEF StartChange, Goto
<1>5. ASSUME NEW r \in Req, SaveStatus(r)
      PROVE  HandlesMissing'
  BY <1>5 DEF SaveStatus, Goto
<1>6. ASSUME NEW r \in Req, NEW o \in Order, NEW w \in Warehouse, StartShip(r, o, w)
      PROVE  HandlesMissing'
  BY <1>6 DEF StartShip, Goto
<1>7. ASSUME NEW r \in Req, ListItems(r)
      PROVE  HandlesMissing'
  BY <1>7 DEF ListItems, Goto
<1>8. ASSUME NEW r \in Req, NEW i \in Item, SkipItem(r, i)
      PROVE  HandlesMissing'
  BY <1>8 DEF SkipItem
<1>9. ASSUME NEW r \in Req, NEW i \in Item, TakeItem(r, i)
      PROVE  HandlesMissing'
  BY <1>9 DEF TakeItem, Goto
<1>10. ASSUME NEW r \in Req, LockItem(r)
      PROVE  HandlesMissing'
  BY <1>10 DEF LockItem, Goto, Locks!Granted, Locks!Refused, Locks!SetNX
<1>11. ASSUME NEW r \in Req, LockReplyLost(r)
      PROVE  HandlesMissing'
  BY <1>11 DEF LockReplyLost, Locks!ReplyLost, Locks!SetNX
<1>12. ASSUME NEW r \in Req, AdjustStock(r)
      PROVE  HandlesMissing'
  BY <1>12 DEF AdjustStock, Goto, AdjustQuantityWithCheck, AdjustQuantity
<1>13. ASSUME NEW r \in Req, UnlockItem(r)
      PROVE  HandlesMissing'
  BY <1>13 DEF UnlockItem, Goto, Locks!Released, Locks!Unlock
<1>14. ASSUME NEW r \in Req, RecordItem(r)
      PROVE  HandlesMissing'
  BY <1>14 DEF RecordItem, Goto
<1>15. ASSUME NEW r \in Req, FinishOrder(r)
      PROVE  HandlesMissing'
  BY <1>15 DEF FinishOrder, Goto
<1>16. ASSUME NEW r \in Req, Crash(r)
      PROVE  HandlesMissing'
  BY <1>16 DEF Crash, Goto
<1>17. ASSUME NEW l \in Loc, LockExpires(l)
      PROVE  HandlesMissing'
  BY <1>17 DEF LockExpires, Locks!KeyExpires
<1>18. ASSUME NEW o \in Order, NEW word \in AnyWord, BatchStatusChange(o, word)
      PROVE  HandlesMissing'
  BY <1>18 DEF BatchStatusChange, AnyWord
<1>19. CASE UNCHANGED vars
  BY <1>19 DEF vars
<1> QED
  BY <1>1, <1>2, <1>3, <1>4, <1>5, <1>6, <1>7, <1>8, <1>9, <1>10, <1>11,
     <1>12, <1>13, <1>14, <1>15, <1>16, <1>17, <1>18, <1>19
  DEF Next, Start, Step

(***************************************************************************)
(* Credit is only given for goods that moved.                              *)
(***************************************************************************)
LEMMA CreditStep ==
  ASSUME TypeOK, HandlesMissing, CreditMeansMoved, [Next]_vars
  PROVE  CreditMeansMoved'
<1> USE ShipmentAssumption
    DEF TypeOK, StoreTypeOK, CallTypeOK, InLoop, orderVars, loopVars, CreditMeansMoved,
        LeftStock
<1>1. ASSUME NEW o \in Order, NEW s \in SalesStatus, CreateSalesOrder(o, s)
      PROVE  CreditMeansMoved'
  BY <1>1 DEF CreateSalesOrder
<1>2. ASSUME NEW i \in Item, CreateSalesOrderItem(i)
      PROVE  CreditMeansMoved'
  BY <1>2 DEF CreateSalesOrderItem
<1>3. ASSUME NEW o \in Order, CreateSalesOrderReturns(o)
      PROVE  CreditMeansMoved'
  BY <1>3 DEF CreateSalesOrderReturns
<1>4. ASSUME NEW r \in Req, NEW o \in Order, NEW s \in SalesStatus, StartChange(r, o, s)
      PROVE  CreditMeansMoved'
  BY <1>4 DEF StartChange, Goto
<1>5. ASSUME NEW r \in Req, SaveStatus(r)
      PROVE  CreditMeansMoved'
  BY <1>5 DEF SaveStatus, Goto
<1>6. ASSUME NEW r \in Req, NEW o \in Order, NEW w \in Warehouse, StartShip(r, o, w)
      PROVE  CreditMeansMoved'
  BY <1>6 DEF StartShip, Goto
<1>7. ASSUME NEW r \in Req, ListItems(r)
      PROVE  CreditMeansMoved'
  BY <1>7 DEF ListItems, Goto
<1>8. ASSUME NEW r \in Req, NEW i \in Item, SkipItem(r, i)
      PROVE  CreditMeansMoved'
  BY <1>8 DEF SkipItem
<1>9. ASSUME NEW r \in Req, NEW i \in Item, TakeItem(r, i)
      PROVE  CreditMeansMoved'
  BY <1>9 DEF TakeItem, Goto
<1>10. ASSUME NEW r \in Req, LockItem(r)
      PROVE  CreditMeansMoved'
  BY <1>10 DEF LockItem, Goto, Locks!Granted, Locks!Refused, Locks!SetNX
<1>11. ASSUME NEW r \in Req, LockReplyLost(r)
      PROVE  CreditMeansMoved'
  BY <1>11 DEF LockReplyLost, Locks!ReplyLost, Locks!SetNX
<1>12. ASSUME NEW r \in Req, AdjustStock(r)
      PROVE  CreditMeansMoved'
  <2>1. /\ item[r] \in Item /\ Missing(r, item[r]) \in Nat /\ Missing(r, item[r]) > 0
        /\ Place(r) \in Loc
    BY <1>12, HandledItem DEF AdjustStock
  <2>2. \A i \in Item : LeftStock(i) => LeftStock(i)'
    BY LeftStockStays
  <2>3. pc'[r] = "unlock" => moved'[item[r]] >= Ordered[item[r]]
    <3> SUFFICES ASSUME pc'[r] = "unlock"
                 PROVE  moved'[item[r]] >= Ordered[item[r]]
      OBVIOUS
    <3>1. CASE snap[r][item[r]] > 0
      BY <2>1, <2>2, <3>1
    <3>2. CASE ~ (snap[r][item[r]] > 0)
      <4>1. Missing(r, item[r]) = Ordered[item[r]]
        BY <2>1, <3>2 DEF Missing
      <4>2. moved'[item[r]] = moved[item[r]] + Missing(r, item[r])
        BY <1>12, <2>1 DEF AdjustStock, Goto
      <4>3. moved[item[r]] \in Nat /\ Ordered[item[r]] \in Nat
        BY <2>1
      <4> QED BY <4>1, <4>2, <4>3
    <3> QED BY <3>1, <3>2
  <2>4. UNCHANGED <<shipped, snap, item>> /\ pc'[r] # "record"
    BY <1>12 DEF AdjustStock, Goto
  <2>5. \A s \in Req \ {r} : pc'[s] = pc[s]
    BY <1>12 DEF AdjustStock, Goto
  <2>6. \A s \in Req : pc'[s] \in {"unlock", "record"} => moved'[item[s]] >= Ordered[item[s]]
    BY <2>2, <2>3, <2>4, <2>5
  <2> QED BY <2>2, <2>4, <2>6
<1>13. ASSUME NEW r \in Req, UnlockItem(r)
      PROVE  CreditMeansMoved'
  BY <1>13 DEF UnlockItem, Goto, Locks!Released, Locks!Unlock
<1>14. ASSUME NEW r \in Req, RecordItem(r)
      PROVE  CreditMeansMoved'
  BY <1>14 DEF RecordItem, Goto
<1>15. ASSUME NEW r \in Req, FinishOrder(r)
      PROVE  CreditMeansMoved'
  BY <1>15 DEF FinishOrder, Goto
<1>16. ASSUME NEW r \in Req, Crash(r)
      PROVE  CreditMeansMoved'
  BY <1>16 DEF Crash, Goto
<1>17. ASSUME NEW l \in Loc, LockExpires(l)
      PROVE  CreditMeansMoved'
  BY <1>17 DEF LockExpires, Locks!KeyExpires
<1>18. ASSUME NEW o \in Order, NEW word \in AnyWord, BatchStatusChange(o, word)
      PROVE  CreditMeansMoved'
  BY <1>18 DEF BatchStatusChange, AnyWord
<1>19. CASE UNCHANGED vars
  BY <1>19 DEF vars
<1> QED
  BY <1>1, <1>2, <1>3, <1>4, <1>5, <1>6, <1>7, <1>8, <1>9, <1>10, <1>11,
     <1>12, <1>13, <1>14, <1>15, <1>16, <1>17, <1>18, <1>19
  DEF Next, Start, Step

(***************************************************************************)
(* Only shipments list and loop.                                           *)
(***************************************************************************)
LEMMA EntryStep ==
  ASSUME TypeOK, CallsKnowEntry, [Next]_vars
  PROVE  CallsKnowEntry'
<1> USE DEF TypeOK, CallTypeOK, CallsKnowEntry, InLoop, Ended, argVars, loopVars
<1>1. ASSUME NEW o \in Order, NEW s \in SalesStatus, CreateSalesOrder(o, s)
      PROVE  CallsKnowEntry'
  BY <1>1 DEF CreateSalesOrder
<1>2. ASSUME NEW i \in Item, CreateSalesOrderItem(i)
      PROVE  CallsKnowEntry'
  BY <1>2 DEF CreateSalesOrderItem
<1>3. ASSUME NEW o \in Order, CreateSalesOrderReturns(o)
      PROVE  CallsKnowEntry'
  BY <1>3 DEF CreateSalesOrderReturns
<1>4. ASSUME NEW r \in Req, NEW o \in Order, NEW s \in SalesStatus, StartChange(r, o, s)
      PROVE  CallsKnowEntry'
  BY <1>4 DEF StartChange, Goto
<1>5. ASSUME NEW r \in Req, SaveStatus(r)
      PROVE  CallsKnowEntry'
  BY <1>5 DEF SaveStatus, Goto
<1>6. ASSUME NEW r \in Req, NEW o \in Order, NEW w \in Warehouse, StartShip(r, o, w)
      PROVE  CallsKnowEntry'
  BY <1>6 DEF StartShip, Goto
<1>7. ASSUME NEW r \in Req, ListItems(r)
      PROVE  CallsKnowEntry'
  BY <1>7 DEF ListItems, Goto
<1>8. ASSUME NEW r \in Req, NEW i \in Item, SkipItem(r, i)
      PROVE  CallsKnowEntry'
  BY <1>8 DEF SkipItem
<1>9. ASSUME NEW r \in Req, NEW i \in Item, TakeItem(r, i)
      PROVE  CallsKnowEntry'
  BY <1>9 DEF TakeItem, Goto
<1>10. ASSUME NEW r \in Req, LockItem(r)
      PROVE  CallsKnowEntry'
  BY <1>10 DEF LockItem, Goto, Locks!Granted, Locks!Refused, Locks!SetNX
<1>11. ASSUME NEW r \in Req, LockReplyLost(r)
      PROVE  CallsKnowEntry'
  BY <1>11 DEF LockReplyLost, Locks!ReplyLost, Locks!SetNX
<1>12. ASSUME NEW r \in Req, AdjustStock(r)
      PROVE  CallsKnowEntry'
  BY <1>12 DEF AdjustStock, Goto, AdjustQuantityWithCheck, AdjustQuantity
<1>13. ASSUME NEW r \in Req, UnlockItem(r)
      PROVE  CallsKnowEntry'
  BY <1>13 DEF UnlockItem, Goto, Locks!Released, Locks!Unlock
<1>14. ASSUME NEW r \in Req, RecordItem(r)
      PROVE  CallsKnowEntry'
  BY <1>14 DEF RecordItem, Goto
<1>15. ASSUME NEW r \in Req, FinishOrder(r)
      PROVE  CallsKnowEntry'
  BY <1>15 DEF FinishOrder, Goto
<1>16. ASSUME NEW r \in Req, Crash(r)
      PROVE  CallsKnowEntry'
  BY <1>16 DEF Crash, Goto
<1>17. ASSUME NEW l \in Loc, LockExpires(l)
      PROVE  CallsKnowEntry'
  BY <1>17 DEF LockExpires, Locks!KeyExpires
<1>18. ASSUME NEW o \in Order, NEW word \in AnyWord, BatchStatusChange(o, word)
      PROVE  CallsKnowEntry'
  BY <1>18 DEF BatchStatusChange, AnyWord
<1>19. CASE UNCHANGED vars
  BY <1>19 DEF vars
<1> QED
  BY <1>1, <1>2, <1>3, <1>4, <1>5, <1>6, <1>7, <1>8, <1>9, <1>10, <1>11,
     <1>12, <1>13, <1>14, <1>15, <1>16, <1>17, <1>18, <1>19
  DEF Next, Start, Step

(***************************************************************************)
(* What a shipment listed is still to do or left the stock.                *)
(***************************************************************************)
LEMMA CoverStep ==
  ASSUME TypeOK, HandlesMissing, CreditMeansMoved, CallsKnowEntry, LoopCovers,
         "list" \notin Faults, [Next]_vars
  PROVE  LoopCovers'
<1> USE DEF TypeOK, StoreTypeOK, CallTypeOK, LoopCovers, LeftStock, ItemsOf,
        InLoop, orderVars, argVars, loopVars
<1>1. ASSUME NEW o \in Order, NEW s \in SalesStatus, CreateSalesOrder(o, s)
      PROVE  LoopCovers'
  BY <1>1 DEF CreateSalesOrder
<1>2. ASSUME NEW i \in Item, CreateSalesOrderItem(i)
      PROVE  LoopCovers'
  <2> SUFFICES ASSUME NEW s \in Req, pc'[s] \in InLoop,
                      NEW k \in (ItemsOf(ord[s]) \cap placed') \ late'
               PROVE  k \in todo'[s] \/ LeftStock(k)'
    BY <1>2 DEF CreateSalesOrderItem
  <2>1. pc[s] \in InLoop /\ entry[s] = "ship"
    BY <1>2 DEF CreateSalesOrderItem, CallsKnowEntry
  <2>2. k # i
    BY <1>2, <2>1 DEF CreateSalesOrderItem, HasListed
  <2>3. k \in (ItemsOf(ord[s]) \cap placed) \ late
    BY <1>2, <2>2 DEF CreateSalesOrderItem
  <2> QED BY <1>2, <2>1, <2>3 DEF CreateSalesOrderItem
<1>3. ASSUME NEW o \in Order, CreateSalesOrderReturns(o)
      PROVE  LoopCovers'
  BY <1>3 DEF CreateSalesOrderReturns
<1>4. ASSUME NEW r \in Req, NEW o \in Order, NEW s \in SalesStatus, StartChange(r, o, s)
      PROVE  LoopCovers'
  BY <1>4 DEF StartChange, Goto
<1>5. ASSUME NEW r \in Req, SaveStatus(r)
      PROVE  LoopCovers'
  BY <1>5 DEF SaveStatus, Goto
<1>6. ASSUME NEW r \in Req, NEW o \in Order, NEW w \in Warehouse, StartShip(r, o, w)
      PROVE  LoopCovers'
  BY <1>6 DEF StartShip, Goto
<1>7. ASSUME NEW r \in Req, ListItems(r)
      PROVE  LoopCovers'
  BY <1>7 DEF ListItems, Goto
<1>8. ASSUME NEW r \in Req, NEW i \in Item, SkipItem(r, i)
      PROVE  LoopCovers'
  <2>1. LeftStock(i)
    <3>1. snap[r][i] \in Nat /\ Ordered[i] \in Nat /\ moved[i] \in Nat
      BY ShipmentAssumption
    <3>2. snap[r][i] > 0 => LeftStock(i)
      BY DEF CreditMeansMoved
    <3>3. snap[r][i] >= Ordered[i]
      BY <1>8, <3>1 DEF SkipItem, Missing
    <3> QED BY <3>1, <3>2, <3>3
  <2>2. \A s \in Req, k \in Item : k \in todo[s] => k \in todo'[s] \/ k = i
    BY <1>8 DEF SkipItem
  <2> QED BY <1>8, <2>1, <2>2 DEF SkipItem
<1>9. ASSUME NEW r \in Req, NEW i \in Item, TakeItem(r, i)
      PROVE  LoopCovers'
  BY <1>9 DEF TakeItem, Goto
<1>10. ASSUME NEW r \in Req, LockItem(r)
      PROVE  LoopCovers'
  BY <1>10 DEF LockItem, Goto, Locks!Granted, Locks!Refused, Locks!SetNX
<1>11. ASSUME NEW r \in Req, LockReplyLost(r)
      PROVE  LoopCovers'
  BY <1>11 DEF LockReplyLost, Locks!ReplyLost, Locks!SetNX
<1>12. ASSUME NEW r \in Req, AdjustStock(r)
      PROVE  LoopCovers'
  <2>1. \A i \in Item : LeftStock(i) => LeftStock(i)'
    BY LeftStockStays
  <2>2. \A s \in Req : pc'[s] \in InLoop => pc[s] \in InLoop
    BY <1>12 DEF AdjustStock, Goto
  <2> QED BY <1>12, <2>1, <2>2 DEF AdjustStock
<1>13. ASSUME NEW r \in Req, UnlockItem(r)
      PROVE  LoopCovers'
  BY <1>13 DEF UnlockItem, Goto, Locks!Released, Locks!Unlock
<1>14. ASSUME NEW r \in Req, RecordItem(r)
      PROVE  LoopCovers'
  <2>1. item[r] \in Item /\ LeftStock(item[r])
    BY <1>14 DEF RecordItem, CreditMeansMoved
  <2>2. \A s \in Req : pc'[s] \in InLoop => pc[s] \in InLoop
    BY <1>14 DEF RecordItem, Goto
  <2>3. \A s \in Req, i \in Item :
          i \in todo[s] => i \in todo'[s] \/ (s = r /\ i = item[r])
    BY <1>14 DEF RecordItem
  <2> QED BY <1>14, <2>1, <2>2, <2>3 DEF RecordItem
<1>15. ASSUME NEW r \in Req, FinishOrder(r)
      PROVE  LoopCovers'
  BY <1>15 DEF FinishOrder, Goto
<1>16. ASSUME NEW r \in Req, Crash(r)
      PROVE  LoopCovers'
  BY <1>16 DEF Crash, Goto
<1>17. ASSUME NEW l \in Loc, LockExpires(l)
      PROVE  LoopCovers'
  BY <1>17 DEF LockExpires, Locks!KeyExpires
<1>18. ASSUME NEW o \in Order, NEW word \in AnyWord, BatchStatusChange(o, word)
      PROVE  LoopCovers'
  BY <1>18 DEF BatchStatusChange, AnyWord
<1>19. CASE UNCHANGED vars
  BY <1>19 DEF vars
<1> QED
  BY <1>1, <1>2, <1>3, <1>4, <1>5, <1>6, <1>7, <1>8, <1>9, <1>10, <1>11,
     <1>12, <1>13, <1>14, <1>15, <1>16, <1>17, <1>18, <1>19
  DEF Next, Start, Step

(***************************************************************************)
(* Only FinishOrder ends a shipment with success, with nothing left to do; *)
(* later items of the order are late.                                      *)
(***************************************************************************)
LEMMA ShipOkStep ==
  ASSUME TypeOK, HandlesMissing, LoopCovers, CallsKnowEntry, ShipOkMeansMoved, [Next]_vars
  PROVE  ShipOkMeansMoved'
<1> USE ShipmentAssumption
    DEF TypeOK, StoreTypeOK, CallTypeOK, ShipOkMeansMoved, CallsKnowEntry, InLoop, Ended,
        orderVars, argVars, loopVars
<1>1. ASSUME NEW o \in Order, NEW s \in SalesStatus, CreateSalesOrder(o, s)
      PROVE  ShipOkMeansMoved'
  BY <1>1 DEF CreateSalesOrder
<1>2. ASSUME NEW i \in Item, CreateSalesOrderItem(i)
      PROVE  ShipOkMeansMoved'
  <2> SUFFICES ASSUME NEW s \in Req, NEW k \in placed' \ late',
                      entry[s] = "ship" /\ pc[s] = "ok" /\ OrderOf[k] = ord[s]
               PROVE  moved[k] >= Ordered[k]
    BY <1>2 DEF CreateSalesOrderItem
  <2>1. k # i
    BY <1>2 DEF CreateSalesOrderItem, HasListed
  <2> QED BY <1>2, <2>1 DEF CreateSalesOrderItem
<1>3. ASSUME NEW o \in Order, CreateSalesOrderReturns(o)
      PROVE  ShipOkMeansMoved'
  BY <1>3 DEF CreateSalesOrderReturns
<1>4. ASSUME NEW r \in Req, NEW o \in Order, NEW s \in SalesStatus, StartChange(r, o, s)
      PROVE  ShipOkMeansMoved'
  BY <1>4 DEF StartChange, Goto
<1>5. ASSUME NEW r \in Req, SaveStatus(r)
      PROVE  ShipOkMeansMoved'
  BY <1>5 DEF SaveStatus, Goto
<1>6. ASSUME NEW r \in Req, NEW o \in Order, NEW w \in Warehouse, StartShip(r, o, w)
      PROVE  ShipOkMeansMoved'
  BY <1>6 DEF StartShip, Goto
<1>7. ASSUME NEW r \in Req, ListItems(r)
      PROVE  ShipOkMeansMoved'
  BY <1>7 DEF ListItems, Goto
<1>8. ASSUME NEW r \in Req, NEW i \in Item, SkipItem(r, i)
      PROVE  ShipOkMeansMoved'
  BY <1>8 DEF SkipItem
<1>9. ASSUME NEW r \in Req, NEW i \in Item, TakeItem(r, i)
      PROVE  ShipOkMeansMoved'
  BY <1>9 DEF TakeItem, Goto
<1>10. ASSUME NEW r \in Req, LockItem(r)
      PROVE  ShipOkMeansMoved'
  BY <1>10 DEF LockItem, Goto, Locks!Granted, Locks!Refused, Locks!SetNX
<1>11. ASSUME NEW r \in Req, LockReplyLost(r)
      PROVE  ShipOkMeansMoved'
  BY <1>11 DEF LockReplyLost, Locks!ReplyLost, Locks!SetNX
<1>12. ASSUME NEW r \in Req, AdjustStock(r)
      PROVE  ShipOkMeansMoved'
  <2>1. \A i \in Item : LeftStock(i) => LeftStock(i)'
    BY LeftStockStays
  <2>2. \A s \in Req : pc'[s] = "ok" => pc[s] = "ok"
    BY <1>12 DEF AdjustStock, Goto
  <2> QED BY <1>12, <2>1, <2>2 DEF AdjustStock, LeftStock
<1>13. ASSUME NEW r \in Req, UnlockItem(r)
      PROVE  ShipOkMeansMoved'
  BY <1>13 DEF UnlockItem, Goto, Locks!Released, Locks!Unlock
<1>14. ASSUME NEW r \in Req, RecordItem(r)
      PROVE  ShipOkMeansMoved'
  BY <1>14 DEF RecordItem, Goto
<1>15. ASSUME NEW r \in Req, FinishOrder(r)
      PROVE  ShipOkMeansMoved'
  <2>1. \A i \in placed \ late : OrderOf[i] = ord[r] => moved[i] >= Ordered[i]
    BY <1>15 DEF FinishOrder, LoopCovers, LeftStock, ItemsOf
  <2> QED BY <1>15, <2>1 DEF FinishOrder, Goto
<1>16. ASSUME NEW r \in Req, Crash(r)
      PROVE  ShipOkMeansMoved'
  BY <1>16 DEF Crash, Goto
<1>17. ASSUME NEW l \in Loc, LockExpires(l)
      PROVE  ShipOkMeansMoved'
  BY <1>17 DEF LockExpires, Locks!KeyExpires
<1>18. ASSUME NEW o \in Order, NEW word \in AnyWord, BatchStatusChange(o, word)
      PROVE  ShipOkMeansMoved'
  BY <1>18 DEF BatchStatusChange, AnyWord
<1>19. CASE UNCHANGED vars
  BY <1>19 DEF vars
<1> QED
  BY <1>1, <1>2, <1>3, <1>4, <1>5, <1>6, <1>7, <1>8, <1>9, <1>10, <1>11,
     <1>12, <1>13, <1>14, <1>15, <1>16, <1>17, <1>18, <1>19
  DEF Next, Start, Step

(* The invariant holds before the first call.                               *)
LEMMA InitShipmentInv == Init => ShipmentInv
<1> SUFFICES ASSUME Init
             PROVE  ShipmentInv
  OBVIOUS
<1> USE ShipmentAssumption DEF Init
<1>1. /\ AnyOf(Order) \in Order /\ AnyOf(Item) \in Item
      /\ AnyOf(Warehouse) \in Warehouse
  BY DEF AnyOf
<1>2. StoreTypeOK
  BY DEF StoreTypeOK, InventoryTypeOK, Locks!LockTableInit, Locks!LockTableTypeOK
<1>3. CallTypeOK
  BY <1>1 DEF CallTypeOK, SalesStatus
<1>4. HandlesMissing /\ CreditMeansMoved /\ LoopCovers /\ CallsKnowEntry
      /\ ShipOkMeansMoved
  BY DEF HandlesMissing, CreditMeansMoved, LoopCovers, CallsKnowEntry,
         ShipOkMeansMoved, InLoop
<1> QED BY <1>2, <1>3, <1>4 DEF ShipmentInv, TypeOK

-----------------------------------------------------------------------------
(***************************************************************************)
(* Every variable keeps its type.  Beside TypeOK the induction needs only  *)
(* HandlesMissing: loop quantities are positive, so that shipped_qty and   *)
(* moved stay natural numbers.                                             *)
(***************************************************************************)
THEOREM ShipmentTypeOK == Spec => [](TypeOK /\ HandlesMissing)
<1>1. Init => TypeOK /\ HandlesMissing
  BY InitShipmentInv DEF ShipmentInv
<1>2. TypeOK /\ HandlesMissing /\ [Next]_vars => (TypeOK /\ HandlesMissing)'
  BY StoreTypeStep, CallTypeStep, HandlesStep DEF TypeOK
<1> QED BY <1>1, <1>2, PTL DEF Spec

(***************************************************************************)
(* A shipment that answers success took every item its order had when it   *)
(* was listed out of stock in full.  The one assumption is that listing    *)
(* the items does not fail, the error ShipSalesOrder drops.                *)
(***************************************************************************)
THEOREM SuccessMeansShipped ==
  "list" \notin Faults => (Spec => []ShipOkMeansMoved)
<1> SUFFICES ASSUME "list" \notin Faults
             PROVE  Spec => []ShipOkMeansMoved
  OBVIOUS
<1>1. Init => ShipmentInv
  BY InitShipmentInv
<1>2. ShipmentInv /\ [Next]_vars => ShipmentInv'
  BY StoreTypeStep, CallTypeStep, HandlesStep, CreditStep, EntryStep, CoverStep,
     ShipOkStep DEF ShipmentInv, TypeOK
<1>3. ShipmentInv => ShipOkMeansMoved
  BY DEF ShipmentInv
<1> QED BY <1>1, <1>2, <1>3, PTL DEF Spec

(***************************************************************************)
(* No interleaving of shipments sells what a row does not hold, lock or no *)
(* lock: the WHERE clause alone keeps every location that has a row from   *)
(* the start at zero or above.  A location that gets its row from the      *)
(* INSERT half is left out, for there the theorem is false.                *)
(***************************************************************************)
THEOREM RowsAreNeverOversold == Spec => []NoOversellOfRows
<1> DEFINE Inv == InitRows \subseteq rows /\ NoOversellOfRows
<1>1. Init => Inv
  BY ShipmentAssumption DEF Init, NoOversellOfRows
<1>2. TypeOK /\ HandlesMissing /\ Inv /\ [Next]_vars => Inv'
  <2> SUFFICES ASSUME TypeOK, HandlesMissing, Inv, [Next]_vars
               PROVE  Inv'
    OBVIOUS
  <2> USE ShipmentAssumption DEF NoOversellOfRows
  <2>1. CASE UNCHANGED <<stock, rows, moved>>
    BY <2>1
  <2>2. CASE ~ UNCHANGED <<stock, rows, moved>>
    <3>1. PICK r \in Req :
            /\ pc[r] = "adjust" /\ Accepted(Place(r), 0 - Missing(r, item[r]))
            /\ rows' = rows \cup {Place(r)}
            /\ stock' = [stock EXCEPT ![Place(r)] = @ + (0 - Missing(r, item[r]))]
      BY <2>2, StockMoves
    <3>2. Missing(r, item[r]) \in Nat /\ Place(r) \in Loc
      BY <3>1, HandledItem DEF InLoop
    <3>3. stock \in [Loc -> Int]
      BY DEF TypeOK, StoreTypeOK, InventoryTypeOK
    <3>4. ASSUME NEW l \in InitRows
          PROVE  stock'[l] >= 0
      BY <3>1, <3>2, <3>3, <3>4 DEF Accepted
    <3> QED BY <3>1, <3>4
  <2> QED BY <2>1, <2>2
<1>3. Inv => NoOversellOfRows
  OBVIOUS
<1> HIDE DEF Inv
<1> QED BY <1>1, <1>2, <1>3, ShipmentTypeOK, PTL DEF Spec

(***************************************************************************)
(* Goods are conserved: for every material, what left the warehouses is    *)
(* what shipments moved, for any number of warehouses and items, whatever  *)
(* races, crashes and lost replies there are.                              *)
(***************************************************************************)
Balance(m) ==
  SumOver(InitStock, PlacesOf(m)) - SumOver(stock, PlacesOf(m)) = SumOver(moved, ItemsOfMaterial(m))

(* A step keeps the balance of a material: AdjustStock takes as much out of *)
(* one place as it adds to the moved quantity of one item, which is of the  *)
(* same material.                                                           *)
LEMMA BalanceStep ==
  ASSUME TypeOK, HandlesMissing, [Next]_vars, NEW m \in Material, Balance(m)
  PROVE  Balance(m)'
<1>1. CASE UNCHANGED <<stock, rows, moved>>
  BY <1>1 DEF Balance
<1>2. CASE ~ UNCHANGED <<stock, rows, moved>>
  <2>1. PICK r \in Req :
          /\ pc[r] = "adjust"
          /\ stock' = [stock EXCEPT ![Place(r)] = @ + (0 - Missing(r, item[r]))]
          /\ moved' = [moved EXCEPT ![item[r]] = @ + Missing(r, item[r])]
    BY <1>2, StockMoves
  <2> DEFINE d == Missing(r, item[r])
  <2>2. item[r] \in Item /\ d \in Int /\ Place(r) \in Loc
    BY <2>1, HandledItem DEF InLoop
  <2>3. (Place(r)[2] = m <=> item[r] \in ItemsOfMaterial(m)) /\ ItemsOfMaterial(m) \in SUBSET Item
    BY <2>2 DEF Place, ItemsOfMaterial
  <2>4. stock \in [Loc -> Int] /\ moved \in [Item -> Int]
    BY DEF TypeOK, StoreTypeOK, InventoryTypeOK
  <2> HIDE DEF d
  <2>5. /\ SumOver(stock, PlacesOf(m)) \in Int /\ SumOver(stock', PlacesOf(m)) \in Int
        /\ Place(r)[2] = m => SumOver(stock', PlacesOf(m)) = SumOver(stock, PlacesOf(m)) + (0 - d)
        /\ Place(r)[2] # m => SumOver(stock', PlacesOf(m)) = SumOver(stock, PlacesOf(m))
    <3>1. 0 - d \in Int /\ stock' = [stock EXCEPT ![Place(r)] = @ + (0 - d)]
      BY <2>1, <2>2 DEF d
    <3> QED BY <2>2, <2>4, <3>1, AdjustingPlaces, ShipmentAssumption
  <2>6. /\ SumOver(moved, ItemsOfMaterial(m)) \in Int /\ SumOver(moved', ItemsOfMaterial(m)) \in Int
        /\ item[r] \in ItemsOfMaterial(m)
             => SumOver(moved', ItemsOfMaterial(m)) = SumOver(moved, ItemsOfMaterial(m)) + d
        /\ item[r] \notin ItemsOfMaterial(m)
             => SumOver(moved', ItemsOfMaterial(m)) = SumOver(moved, ItemsOfMaterial(m))
    <3>1. IsFiniteSet(ItemsOfMaterial(m))
      BY <2>3, FS_Subset, ShipmentAssumption
    <3> DEFINE S == ItemsOfMaterial(m)
               i == item[r]
               g == moved'
    <3>2. /\ \A z \in S : moved[z] \in Int /\ g[z] \in Int
          /\ \A z \in S \ {i} : g[z] = moved[z]
          /\ i \in S => g[i] = moved[i] + d
      BY <2>1, <2>2, <2>3, <2>4 DEF d
    <3> HIDE DEF S, i, g
    <3>3. IsFiniteSet(S)
      BY <3>1 DEF S
    <3>4. /\ SumOver(moved, S) \in Int /\ SumOver(g, S) \in Int
          /\ i \in S => SumOver(g, S) = SumOver(moved, S) + (g[i] - moved[i])
          /\ i \notin S => SumOver(g, S) = SumOver(moved, S)
      BY <3>2, <3>3, SumOverAdjusted
    <3>5. i \in S => g[i] - moved[i] = d
      BY <2>2, <3>2
    <3> QED BY <3>4, <3>5 DEF S, i, g
  <2>7. SumOver(InitStock, PlacesOf(m)) \in Int
    <3>1. IsFiniteSet(PlacesOf(m)) /\ \A l \in PlacesOf(m) : InitStock[l] \in Int
      BY ShipmentAssumption, FS_Subset DEF PlacesOf
    <3> QED BY <3>1, SumOverTaken
  <2> QED BY <2>2, <2>3, <2>5, <2>6, <2>7 DEF Balance
<1> QED BY <1>1, <1>2

(* Nothing has moved at the start and the stock is the initial stock.       *)
LEMMA BalanceAtStart ==
  ASSUME Init, NEW m \in Material
  PROVE  Balance(m)
<1>1. IsFiniteSet(ItemsOfMaterial(m)) /\ IsFiniteSet(PlacesOf(m))
  BY ShipmentAssumption, FS_Subset DEF ItemsOfMaterial, PlacesOf
<1>2. stock = InitStock /\ \A i \in ItemsOfMaterial(m) : moved[i] = 0
  BY DEF Init, ItemsOfMaterial
<1>3. SumOver(moved, ItemsOfMaterial(m)) = 0
  BY <1>1, <1>2, SumOverZero
<1>4. SumOver(InitStock, PlacesOf(m)) \in Int
  <2>1. \A l \in PlacesOf(m) : InitStock[l] \in Int
    BY ShipmentAssumption DEF PlacesOf
  <2> QED BY <1>1, <2>1, SumOverTaken
<1> QED BY <1>2, <1>3, <1>4 DEF Balance

(* For every material, what is gone from the stock of all warehouses is     *)
(* what the shipments moved of its items.                                   *)
THEOREM GoodsAreConserved == Spec => []GoodsConserved
<1> DEFINE Inv == \A m \in Material : Balance(m)
<1>1. Init => Inv
  BY BalanceAtStart
<1>2. TypeOK /\ HandlesMissing /\ Inv /\ [Next]_vars => Inv'
  BY BalanceStep
<1>3. Inv => GoodsConserved
  BY DEF Balance, GoodsConserved
<1> HIDE DEF Inv
<1> QED BY <1>1, <1>2, <1>3, ShipmentTypeOK, PTL DEF Spec

-----------------------------------------------------------------------------
(***************************************************************************)
(* A request lacks of an item at most what was ordered of it.              *)
(***************************************************************************)
LEMMA LacksAtMostOrdered ==
  ASSUME TypeOK, HandlesMissing, NEW r \in Req, pc[r] \in InLoop \ {"loop"}
  PROVE  Missing(r, item[r]) \in UNION {1 .. Ordered[i] : i \in Item}
<1>1. item[r] \in Item /\ Missing(r, item[r]) \in Nat /\ Missing(r, item[r]) > 0
  BY HandledItem
<1>2. snap[r][item[r]] \in Nat /\ Ordered[item[r]] \in Nat
  BY <1>1, ShipmentAssumption DEF TypeOK, CallTypeOK
<1>3. Missing(r, item[r]) \in 1 .. Ordered[item[r]]
  BY <1>1, <1>2 DEF Missing
<1> QED BY <1>1, <1>3

(***************************************************************************)
(* Shipments implement the ledger of GoodsLedger: each step takes what an  *)
(* item lacks off one shelf that has it, or off one that never had any     *)
(* entry, or leaves the shelves as they are.                               *)
(***************************************************************************)
THEOREM ShipmentsKeepTheLedger == Spec => LedgerKept
<1>1. Init => Ledger!Init
  <2>1. <<>> = [c \in {} |-> <<>>]
    OBVIOUS
  <2> QED BY <2>1, ShipmentAssumption DEF Init, Ledger!Init
<1>2. TypeOK /\ HandlesMissing /\ [Next]_vars => [Ledger!Next]_Ledger!ledgerVars
  <2> SUFFICES ASSUME TypeOK, HandlesMissing, [Next]_vars
               PROVE  [Ledger!Next]_Ledger!ledgerVars
    OBVIOUS
  <2>1. CASE UNCHANGED <<stock, rows, moved>>
    BY <2>1 DEF Ledger!ledgerVars
  <2>2. CASE ~ UNCHANGED <<stock, rows, moved>>
    <3>1. PICK r \in Req :
            /\ pc[r] = "adjust" /\ Accepted(Place(r), 0 - Missing(r, item[r]))
            /\ rows' = rows \cup {Place(r)}
            /\ stock' = [stock EXCEPT ![Place(r)] = @ + (0 - Missing(r, item[r]))]
      BY <2>2, StockMoves
    <3> DEFINE d == Missing(r, item[r])
    <3>2. Place(r) \in Loc /\ d \in Nat /\ stock[Place(r)] \in Int
      BY <3>1, HandledItem DEF InLoop, TypeOK, StoreTypeOK, InventoryTypeOK
    <3>3. d \in UNION {1 .. Ordered[i] : i \in Item}
      BY <3>1, LacksAtMostOrdered DEF InLoop
    <3> HIDE DEF d
    <3>4. stock[Place(r)] + (0 - d) = stock[Place(r)] - d
      BY <3>2
    <3>5. Ledger!Issue(Place(r), d)
      BY <3>1, <3>4 DEF Ledger!Issue, Ledger!Take, Accepted, d
    <3> QED BY <3>2, <3>3, <3>5 DEF Ledger!Next
  <2> QED BY <2>1, <2>2
<1> QED BY <1>1, <1>2, ShipmentTypeOK, PTL DEF Spec, LedgerKept, Ledger!Spec

=============================================================================
