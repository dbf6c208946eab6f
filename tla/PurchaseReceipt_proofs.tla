----------------------- MODULE PurchaseReceipt_proofs ------------------------
(***************************************************************************)
(* Proofs about PurchaseReceipt for any number of requests, orders, items, *)
(* materials, warehouses and inspections, with and without the tenant      *)
(* column, crashes, Redis faults and failing statements.                   *)
(***************************************************************************)
EXTENDS PurchaseReceipt, Inventory_proofs

(***************************************************************************)
(* What an item lacks is an integer, positive for the loop variable.       *)
(***************************************************************************)
LEMMA MissingType ==
  ASSUME TypeOK, NEW r \in Req, NEW i \in Item
  PROVE  Missing(r, i) \in Int
BY ReceiptAssumption DEF TypeOK, CallTypeOK, Missing

(* The item at hand is one of the order's and lacks something.              *)
LEMMA HandledItem ==
  ASSUME TypeOK, HandlesMissing, NEW r \in Req,
         pc[r] \in {"lock", "adjust", "unlock", "unlockErr", "record"}
  PROVE  /\ item[r] \in Item /\ item[r] \in todo[r]
         /\ Missing(r, item[r]) \in Nat /\ Missing(r, item[r]) > 0
<1>1. item[r] \in Item
  BY DEF TypeOK, CallTypeOK
<1>2. item[r] \in todo[r] /\ Missing(r, item[r]) > 0
  BY DEF HandlesMissing, InLoop
<1>3. Missing(r, item[r]) \in Int
  BY <1>1, MissingType
<1> QED BY <1>1, <1>2, <1>3

(***************************************************************************)
(* Goods only ever come in: no step takes back what an item moved, and     *)
(* received_qty has the same fate only through RecordItem.                 *)
(***************************************************************************)
LEMMA MovedGrows ==
  ASSUME TypeOK, HandlesMissing, [Next]_vars, NEW i \in Item
  PROVE  moved'[i] >= moved[i]
<1> USE DEF TypeOK, StoreTypeOK
<1>1. ASSUME NEW r \in Req, AdjustStock(r)
      PROVE  moved'[i] >= moved[i]
  <2>1. item[r] \in Item /\ Missing(r, item[r]) \in Nat
    BY <1>1, HandledItem DEF AdjustStock, Doubt, histVars
  <2> QED BY <1>1, <2>1 DEF AdjustStock, Doubt, histVars
<1>2. CASE UNCHANGED moved
  BY <1>2
<1>3. UNCHANGED moved \/ \E r \in Req : AdjustStock(r)
  BY DEF Next, Start, Step, vars, CreatePurchaseOrder, CreatePurchaseOrderReturns,
         CreatePurchaseOrderItem, BatchStatusChange, CreateInspection, AddInspectionItem,
         StartReceive, StartInspectedReceive, StartComplete, StartAutoReceive,
         ListInspectionItems, SaveVerdict, MarkInspecting, ListItems, SkipItem,
         TakeItem,
         LockItem, LockReplyLost, UnlockItem, RecordItem, FinishOrder, Crash,
         LockExpires, SetStatus, Doubt, histVars
<1> QED BY <1>1, <1>2, <1>3

(***************************************************************************)
(* The tables keep their types: quantities stay natural because the loop   *)
(* handles only items with something missing.                              *)
(***************************************************************************)
LEMMA StoreTypeStep ==
  ASSUME TypeOK, HandlesMissing, [Next]_vars
  PROVE  StoreTypeOK'
<1> USE ReceiptAssumption
    DEF TypeOK, StoreTypeOK, InventoryTypeOK, Locks!LockTableTypeOK, InLoop,
        inventoryVars, orderVars, qiVars, argVars, loopVars
<1>1. ASSUME NEW o \in Order,
             CreatePurchaseOrder(o)
      PROVE  StoreTypeOK'
  BY <1>1 DEF CreatePurchaseOrder, histVars
<1>2. ASSUME NEW o \in Order,
             CreatePurchaseOrderReturns(o)
      PROVE  StoreTypeOK'
  BY <1>2 DEF CreatePurchaseOrderReturns, histVars
<1>3. ASSUME NEW i \in Item,
             CreatePurchaseOrderItem(i)
      PROVE  StoreTypeOK'
  BY <1>3 DEF CreatePurchaseOrderItem, histVars
<1>4. ASSUME NEW q \in Inspection, NEW o \in Order,
             CreateInspection(q, o)
      PROVE  StoreTypeOK'
  BY <1>4 DEF CreateInspection, InsertInspection, histVars
<1>5. ASSUME NEW q \in Inspection,
             AddInspectionItem(q)
      PROVE  StoreTypeOK'
  BY <1>5 DEF AddInspectionItem, histVars
<1>6. ASSUME NEW r \in Req, NEW o \in Order, NEW w \in Warehouse,
             StartReceive(r, o, w)
      PROVE  StoreTypeOK'
  BY <1>6 DEF StartReceive, Goto, histVars
<1>7. ASSUME NEW r \in Req, NEW o \in Order, NEW q \in Inspection,
             StartInspectedReceive(r, o, q)
      PROVE  StoreTypeOK'
  BY <1>7 DEF StartInspectedReceive, InsertInspection, Goto, histVars
<1>8. ASSUME NEW r \in Req, NEW q \in Inspection,
             StartComplete(r, q)
      PROVE  StoreTypeOK'
  BY <1>8 DEF StartComplete, Goto, histVars
<1>9. ASSUME NEW r \in Req, NEW q \in Inspection, NEW w \in Warehouse,
             StartAutoReceive(r, q, w)
      PROVE  StoreTypeOK'
  BY <1>9 DEF StartAutoReceive, Goto, histVars
<1>10. ASSUME NEW r \in Req,
             ListInspectionItems(r)
      PROVE  StoreTypeOK'
  BY <1>10 DEF ListInspectionItems, Goto, histVars
<1>11. ASSUME NEW r \in Req,
             SaveVerdict(r)
      PROVE  StoreTypeOK'
  BY <1>11 DEF SaveVerdict, Goto, histVars
<1>12. ASSUME NEW r \in Req,
             MarkInspecting(r)
      PROVE  StoreTypeOK'
  BY <1>12 DEF MarkInspecting, Goto, CallTypeOK, SetStatus, histVars
<1>13. ASSUME NEW r \in Req,
             ListItems(r)
      PROVE  StoreTypeOK'
  <2>1. todo'[r] \in SUBSET Item
    BY <1>13 DEF ListItems, CallTypeOK
  <2>2. doubtful' \in SUBSET Item
    BY <1>13, <2>1 DEF ListItems
  <2> QED BY <1>13, <2>2 DEF ListItems
<1>14. ASSUME NEW r \in Req, NEW i \in Item,
             SkipItem(r, i)
      PROVE  StoreTypeOK'
  BY <1>14 DEF SkipItem, histVars
<1>15. ASSUME NEW r \in Req, NEW i \in Item,
             TakeItem(r, i)
      PROVE  StoreTypeOK'
  BY <1>15 DEF TakeItem, Goto, histVars
<1>16. ASSUME NEW r \in Req,
             LockItem(r)
      PROVE  StoreTypeOK'
  BY <1>16 DEF LockItem, Goto, Locks!Granted, Locks!Refused, Locks!SetNX, histVars
<1>17. ASSUME NEW r \in Req,
             LockReplyLost(r)
      PROVE  StoreTypeOK'
  BY <1>17 DEF LockReplyLost, Locks!ReplyLost, Locks!SetNX, histVars
<1>18. ASSUME NEW r \in Req,
             AdjustStock(r)
      PROVE  StoreTypeOK'
  <2>1. item[r] \in Item /\ Missing(r, item[r]) \in Nat
    BY <1>18, HandledItem DEF AdjustStock, Doubt, histVars
  <2>2. stock' \in [Loc -> Int] /\ rows' \in SUBSET Loc
    <3>1. Place(r) \in Loc
      BY <2>1 DEF Place, Loc, CallTypeOK
    <3> QED BY <1>18, <2>1, <3>1 DEF AdjustStock, AdjustQuantity, Doubt, histVars
  <2>3. moved' \in [Item -> Nat]
    BY <1>18, <2>1 DEF AdjustStock
  <2>4. doubtful' \in SUBSET Item
    BY <1>18, <2>1 DEF AdjustStock, Doubt
  <2> QED BY <1>18, <2>2, <2>3, <2>4 DEF AdjustStock
<1>19. ASSUME NEW r \in Req,
             UnlockItem(r)
      PROVE  StoreTypeOK'
  BY <1>19 DEF UnlockItem, Goto, Locks!Released, Locks!Unlock, histVars
<1>20. ASSUME NEW r \in Req,
             RecordItem(r)
      PROVE  StoreTypeOK'
  <2>1. item[r] \in Item /\ Missing(r, item[r]) \in Nat
    BY <1>20, HandledItem DEF RecordItem, Doubt, histVars
  <2>2. received' \in [Item -> Nat]
    BY <1>20, <2>1 DEF RecordItem
  <2>3. doubtful' \in SUBSET Item
    BY <1>20, <2>1 DEF RecordItem, Doubt
  <2> QED BY <1>20, <2>2, <2>3 DEF RecordItem
<1>21. ASSUME NEW r \in Req,
             FinishOrder(r)
      PROVE  StoreTypeOK'
  BY <1>21 DEF FinishOrder, Goto, CallTypeOK, SetStatus, histVars
<1>22. ASSUME NEW r \in Req,
             Crash(r)
      PROVE  StoreTypeOK'
  <2>1. doubtful' \in SUBSET Item
    BY <1>22 DEF Crash, CallTypeOK
  <2> QED BY <1>22, <2>1 DEF Crash
<1>23. ASSUME NEW l \in Loc,
             LockExpires(l)
      PROVE  StoreTypeOK'
  BY <1>23 DEF LockExpires, Locks!KeyExpires, histVars
<1>24. ASSUME NEW o \in Order, NEW word \in AnyWord,
             BatchStatusChange(o, word)
      PROVE  StoreTypeOK'
  BY <1>24 DEF BatchStatusChange, AnyWord, histVars
<1>25. CASE UNCHANGED vars
  BY <1>25 DEF vars, histVars
<1> QED
  BY <1>1, <1>2, <1>3, <1>4, <1>5, <1>6, <1>7, <1>8, <1>9, <1>10, <1>11, <1>12,
     <1>13, <1>14, <1>15, <1>16, <1>17, <1>18, <1>19, <1>20, <1>21, <1>22, <1>23, <1>24,
     <1>25
  DEF Next, Start, Step

(***************************************************************************)
(* The variables of the calls keep their types.                            *)
(***************************************************************************)
LEMMA CallTypeStep ==
  ASSUME TypeOK, [Next]_vars
  PROVE  CallTypeOK'
<1> USE ReceiptAssumption
    DEF TypeOK, CallTypeOK, InLoop, Ended, argVars, loopVars
<1>1. ASSUME NEW o \in Order,
             CreatePurchaseOrder(o)
      PROVE  CallTypeOK'
  BY <1>1 DEF CreatePurchaseOrder, histVars
<1>2. ASSUME NEW o \in Order,
             CreatePurchaseOrderReturns(o)
      PROVE  CallTypeOK'
  BY <1>2 DEF CreatePurchaseOrderReturns, histVars
<1>3. ASSUME NEW i \in Item,
             CreatePurchaseOrderItem(i)
      PROVE  CallTypeOK'
  BY <1>3 DEF CreatePurchaseOrderItem, histVars
<1>4. ASSUME NEW q \in Inspection, NEW o \in Order,
             CreateInspection(q, o)
      PROVE  CallTypeOK'
  BY <1>4 DEF CreateInspection, InsertInspection, histVars
<1>5. ASSUME NEW q \in Inspection,
             AddInspectionItem(q)
      PROVE  CallTypeOK'
  BY <1>5 DEF AddInspectionItem, histVars
<1>6. ASSUME NEW r \in Req, NEW o \in Order, NEW w \in Warehouse,
             StartReceive(r, o, w)
      PROVE  CallTypeOK'
  BY <1>6 DEF StartReceive, Goto, histVars
<1>7. ASSUME NEW r \in Req, NEW o \in Order, NEW q \in Inspection,
             StartInspectedReceive(r, o, q)
      PROVE  CallTypeOK'
  BY <1>7 DEF StartInspectedReceive, InsertInspection, Goto, histVars
<1>8. ASSUME NEW r \in Req, NEW q \in Inspection,
             StartComplete(r, q)
      PROVE  CallTypeOK'
  BY <1>8 DEF StartComplete, Goto, histVars
<1>9. ASSUME NEW r \in Req, NEW q \in Inspection, NEW w \in Warehouse,
             StartAutoReceive(r, q, w)
      PROVE  CallTypeOK'
  BY <1>9 DEF StartAutoReceive, Goto, StoreTypeOK, histVars
<1>10. ASSUME NEW r \in Req,
             ListInspectionItems(r)
      PROVE  CallTypeOK'
  BY <1>10 DEF ListInspectionItems, Goto, histVars
<1>11. ASSUME NEW r \in Req,
             SaveVerdict(r)
      PROVE  CallTypeOK'
  BY <1>11 DEF SaveVerdict, Goto, histVars
<1>12. ASSUME NEW r \in Req,
             MarkInspecting(r)
      PROVE  CallTypeOK'
  BY <1>12 DEF MarkInspecting, Goto, SetStatus, histVars
<1>13. ASSUME NEW r \in Req,
             ListItems(r)
      PROVE  CallTypeOK'
  <2>1. todo' \in [Req -> SUBSET Item]
    BY <1>13 DEF ListItems, StoreTypeOK, histVars
  <2>2. snap' \in [Req -> [Item -> Nat]]
    BY <1>13 DEF ListItems, StoreTypeOK, histVars
  <2> QED BY <1>13, <2>1, <2>2 DEF ListItems, Goto, histVars
<1>14. ASSUME NEW r \in Req, NEW i \in Item,
             SkipItem(r, i)
      PROVE  CallTypeOK'
  BY <1>14 DEF SkipItem, histVars
<1>15. ASSUME NEW r \in Req, NEW i \in Item,
             TakeItem(r, i)
      PROVE  CallTypeOK'
  BY <1>15 DEF TakeItem, Goto, histVars
<1>16. ASSUME NEW r \in Req,
             LockItem(r)
      PROVE  CallTypeOK'
  BY <1>16 DEF LockItem, Goto, Locks!Granted, Locks!Refused, Locks!SetNX, histVars
<1>17. ASSUME NEW r \in Req,
             LockReplyLost(r)
      PROVE  CallTypeOK'
  BY <1>17 DEF LockReplyLost, Locks!ReplyLost, Locks!SetNX, histVars
<1>18. ASSUME NEW r \in Req,
             AdjustStock(r)
      PROVE  CallTypeOK'
  BY <1>18 DEF AdjustStock, Goto, Place, AdjustQuantity, Doubt, histVars
<1>19. ASSUME NEW r \in Req,
             UnlockItem(r)
      PROVE  CallTypeOK'
  BY <1>19 DEF UnlockItem, Goto, Locks!Released, Locks!Unlock, histVars
<1>20. ASSUME NEW r \in Req,
             RecordItem(r)
      PROVE  CallTypeOK'
  BY <1>20 DEF RecordItem, Goto, Doubt, histVars
<1>21. ASSUME NEW r \in Req,
             FinishOrder(r)
      PROVE  CallTypeOK'
  BY <1>21 DEF FinishOrder, Goto, SetStatus, histVars
<1>22. ASSUME NEW r \in Req,
             Crash(r)
      PROVE  CallTypeOK'
  BY <1>22 DEF Crash, Goto, histVars
<1>23. ASSUME NEW l \in Loc,
             LockExpires(l)
      PROVE  CallTypeOK'
  BY <1>23 DEF LockExpires, Locks!KeyExpires, histVars
<1>24. ASSUME NEW o \in Order, NEW word \in AnyWord,
             BatchStatusChange(o, word)
      PROVE  CallTypeOK'
  BY <1>24 DEF BatchStatusChange, AnyWord, histVars
<1>25. CASE UNCHANGED vars
  BY <1>25 DEF vars, histVars
<1> QED
  BY <1>1, <1>2, <1>3, <1>4, <1>5, <1>6, <1>7, <1>8, <1>9, <1>10, <1>11, <1>12,
     <1>13, <1>14, <1>15, <1>16, <1>17, <1>18, <1>19, <1>20, <1>21, <1>22, <1>23, <1>24,
     <1>25
  DEF Next, Start, Step

(* An item that is in stock is not taken out again: moved does not shrink.  *)
LEMMA StockedStays ==
  ASSUME TypeOK, HandlesMissing, [Next]_vars, NEW i \in Item, Stocked(i)
  PROVE  Stocked(i)'
<1>1. moved'[i] >= moved[i]
  BY MovedGrows
<1>2. moved[i] \in Nat /\ moved'[i] \in Nat /\ Ordered[i] \in Nat
  BY ReceiptAssumption, StoreTypeStep DEF TypeOK, StoreTypeOK
<1> QED BY <1>1, <1>2 DEF Stocked

(***************************************************************************)
(* The loop variable stays an unfinished item with something missing.      *)
(***************************************************************************)
LEMMA HandlesStep ==
  ASSUME TypeOK, HandlesMissing, [Next]_vars
  PROVE  HandlesMissing'
<1> USE DEF TypeOK, CallTypeOK, InLoop, argVars, loopVars
<1>1. ASSUME NEW o \in Order,
             CreatePurchaseOrder(o)
      PROVE  HandlesMissing'
  BY <1>1 DEF CreatePurchaseOrder, HandlesMissing, Missing, histVars
<1>2. ASSUME NEW o \in Order,
             CreatePurchaseOrderReturns(o)
      PROVE  HandlesMissing'
  BY <1>2 DEF CreatePurchaseOrderReturns, HandlesMissing, Missing, histVars
<1>3. ASSUME NEW i \in Item,
             CreatePurchaseOrderItem(i)
      PROVE  HandlesMissing'
  BY <1>3 DEF CreatePurchaseOrderItem, HandlesMissing, Missing, histVars
<1>4. ASSUME NEW q \in Inspection, NEW o \in Order,
             CreateInspection(q, o)
      PROVE  HandlesMissing'
  BY <1>4 DEF CreateInspection, InsertInspection, HandlesMissing, Missing, histVars
<1>5. ASSUME NEW q \in Inspection,
             AddInspectionItem(q)
      PROVE  HandlesMissing'
  BY <1>5 DEF AddInspectionItem, HandlesMissing, Missing, histVars
<1>6. ASSUME NEW r \in Req, NEW o \in Order, NEW w \in Warehouse,
             StartReceive(r, o, w)
      PROVE  HandlesMissing'
  BY <1>6 DEF StartReceive, Goto, HandlesMissing, Missing, histVars
<1>7. ASSUME NEW r \in Req, NEW o \in Order, NEW q \in Inspection,
             StartInspectedReceive(r, o, q)
      PROVE  HandlesMissing'
  BY <1>7 DEF StartInspectedReceive, InsertInspection, Goto, HandlesMissing, Missing, histVars
<1>8. ASSUME NEW r \in Req, NEW q \in Inspection,
             StartComplete(r, q)
      PROVE  HandlesMissing'
  BY <1>8 DEF StartComplete, Goto, HandlesMissing, Missing, histVars
<1>9. ASSUME NEW r \in Req, NEW q \in Inspection, NEW w \in Warehouse,
             StartAutoReceive(r, q, w)
      PROVE  HandlesMissing'
  BY <1>9 DEF StartAutoReceive, Goto, HandlesMissing, Missing, histVars
<1>10. ASSUME NEW r \in Req,
             ListInspectionItems(r)
      PROVE  HandlesMissing'
  BY <1>10 DEF ListInspectionItems, Goto, HandlesMissing, Missing, histVars
<1>11. ASSUME NEW r \in Req,
             SaveVerdict(r)
      PROVE  HandlesMissing'
  BY <1>11 DEF SaveVerdict, Goto, HandlesMissing, Missing, histVars
<1>12. ASSUME NEW r \in Req,
             MarkInspecting(r)
      PROVE  HandlesMissing'
  BY <1>12 DEF MarkInspecting, Goto, HandlesMissing, Missing, SetStatus, histVars
<1>13. ASSUME NEW r \in Req,
             ListItems(r)
      PROVE  HandlesMissing'
  BY <1>13 DEF ListItems, Goto, HandlesMissing, Missing, histVars
<1>14. ASSUME NEW r \in Req, NEW i \in Item,
             SkipItem(r, i)
      PROVE  HandlesMissing'
  BY <1>14 DEF SkipItem, HandlesMissing, Missing, histVars
<1>15. ASSUME NEW r \in Req, NEW i \in Item,
             TakeItem(r, i)
      PROVE  HandlesMissing'
  BY <1>15 DEF TakeItem, Goto, HandlesMissing, Missing, histVars
<1>16. ASSUME NEW r \in Req,
             LockItem(r)
      PROVE  HandlesMissing'
  BY <1>16 DEF LockItem, Goto, Locks!Granted, Locks!Refused, Locks!SetNX, HandlesMissing, Missing, histVars
<1>17. ASSUME NEW r \in Req,
             LockReplyLost(r)
      PROVE  HandlesMissing'
  BY <1>17 DEF LockReplyLost, Locks!ReplyLost, Locks!SetNX, HandlesMissing, Missing, histVars
<1>18. ASSUME NEW r \in Req,
             AdjustStock(r)
      PROVE  HandlesMissing'
  BY <1>18 DEF AdjustStock, Goto, Place, AdjustQuantity, HandlesMissing, Missing, Doubt, histVars
<1>19. ASSUME NEW r \in Req,
             UnlockItem(r)
      PROVE  HandlesMissing'
  BY <1>19 DEF UnlockItem, Goto, Locks!Released, Locks!Unlock, HandlesMissing, Missing, histVars
<1>20. ASSUME NEW r \in Req,
             RecordItem(r)
      PROVE  HandlesMissing'
  BY <1>20 DEF RecordItem, Goto, HandlesMissing, Missing, Doubt, histVars
<1>21. ASSUME NEW r \in Req,
             FinishOrder(r)
      PROVE  HandlesMissing'
  BY <1>21 DEF FinishOrder, Goto, HandlesMissing, Missing, SetStatus, histVars
<1>22. ASSUME NEW r \in Req,
             Crash(r)
      PROVE  HandlesMissing'
  BY <1>22 DEF Crash, Goto, HandlesMissing, Missing, histVars
<1>23. ASSUME NEW l \in Loc,
             LockExpires(l)
      PROVE  HandlesMissing'
  BY <1>23 DEF LockExpires, Locks!KeyExpires, HandlesMissing, Missing, histVars
<1>24. ASSUME NEW o \in Order, NEW word \in AnyWord,
             BatchStatusChange(o, word)
      PROVE  HandlesMissing'
  BY <1>24 DEF BatchStatusChange, AnyWord, HandlesMissing, Missing, histVars
<1>25. CASE UNCHANGED vars
  BY <1>25 DEF vars, HandlesMissing, Missing, histVars
<1> QED
  BY <1>1, <1>2, <1>3, <1>4, <1>5, <1>6, <1>7, <1>8, <1>9, <1>10, <1>11, <1>12,
     <1>13, <1>14, <1>15, <1>16, <1>17, <1>18, <1>19, <1>20, <1>21, <1>22, <1>23, <1>24,
     <1>25
  DEF Next, Start, Step

(***************************************************************************)
(* Credit is only given for goods that moved.                              *)
(***************************************************************************)
LEMMA CreditStep ==
  ASSUME TypeOK, HandlesMissing, CreditMeansStocked, [Next]_vars
  PROVE  CreditMeansStocked'
<1> USE ReceiptAssumption
<1>1. ASSUME NEW o \in Order,
             CreatePurchaseOrder(o)
      PROVE  CreditMeansStocked'
  BY <1>1 DEF CreatePurchaseOrder, TypeOK, StoreTypeOK,
      CallTypeOK, CreditMeansStocked, Stocked, orderVars, loopVars, histVars
<1>2. ASSUME NEW o \in Order,
             CreatePurchaseOrderReturns(o)
      PROVE  CreditMeansStocked'
  BY <1>2 DEF CreatePurchaseOrderReturns, TypeOK, StoreTypeOK,
      CallTypeOK, CreditMeansStocked, Stocked, orderVars, loopVars, histVars
<1>3. ASSUME NEW i \in Item,
             CreatePurchaseOrderItem(i)
      PROVE  CreditMeansStocked'
  BY <1>3 DEF CreatePurchaseOrderItem, TypeOK, StoreTypeOK,
      CallTypeOK, CreditMeansStocked, Stocked, orderVars, loopVars, histVars
<1>4. ASSUME NEW q \in Inspection, NEW o \in Order,
             CreateInspection(q, o)
      PROVE  CreditMeansStocked'
  BY <1>4 DEF CreateInspection, InsertInspection, TypeOK, StoreTypeOK,
      CallTypeOK, CreditMeansStocked, Stocked, orderVars, loopVars, histVars
<1>5. ASSUME NEW q \in Inspection,
             AddInspectionItem(q)
      PROVE  CreditMeansStocked'
  BY <1>5 DEF AddInspectionItem, TypeOK, StoreTypeOK,
      CallTypeOK, CreditMeansStocked, Stocked, orderVars, loopVars, histVars
<1>6. ASSUME NEW r \in Req, NEW o \in Order, NEW w \in Warehouse,
             StartReceive(r, o, w)
      PROVE  CreditMeansStocked'
  BY <1>6 DEF StartReceive, Goto, TypeOK, StoreTypeOK,
      CallTypeOK, CreditMeansStocked, Stocked, orderVars, loopVars, histVars
<1>7. ASSUME NEW r \in Req, NEW o \in Order, NEW q \in Inspection,
             StartInspectedReceive(r, o, q)
      PROVE  CreditMeansStocked'
  BY <1>7 DEF StartInspectedReceive, InsertInspection, Goto, TypeOK, StoreTypeOK,
      CallTypeOK, CreditMeansStocked, Stocked, orderVars, loopVars, histVars
<1>8. ASSUME NEW r \in Req, NEW q \in Inspection,
             StartComplete(r, q)
      PROVE  CreditMeansStocked'
  BY <1>8 DEF StartComplete, Goto, TypeOK, StoreTypeOK,
      CallTypeOK, CreditMeansStocked, Stocked, orderVars, loopVars, histVars
<1>9. ASSUME NEW r \in Req, NEW q \in Inspection, NEW w \in Warehouse,
             StartAutoReceive(r, q, w)
      PROVE  CreditMeansStocked'
  BY <1>9 DEF StartAutoReceive, Goto, TypeOK, StoreTypeOK,
      CallTypeOK, CreditMeansStocked, Stocked, orderVars, loopVars, histVars
<1>10. ASSUME NEW r \in Req,
             ListInspectionItems(r)
      PROVE  CreditMeansStocked'
  BY <1>10 DEF ListInspectionItems, Goto, TypeOK, StoreTypeOK,
      CallTypeOK, CreditMeansStocked, Stocked, orderVars, loopVars, histVars
<1>11. ASSUME NEW r \in Req,
             SaveVerdict(r)
      PROVE  CreditMeansStocked'
  BY <1>11 DEF SaveVerdict, Goto, TypeOK, StoreTypeOK,
      CallTypeOK, CreditMeansStocked, Stocked, orderVars, loopVars, histVars
<1>12. ASSUME NEW r \in Req,
             MarkInspecting(r)
      PROVE  CreditMeansStocked'
  BY <1>12 DEF MarkInspecting, Goto, TypeOK, StoreTypeOK,
      CallTypeOK, CreditMeansStocked, Stocked, orderVars, loopVars, SetStatus, histVars
<1>13. ASSUME NEW r \in Req,
             ListItems(r)
      PROVE  CreditMeansStocked'
  BY <1>13 DEF ListItems, Goto, TypeOK, StoreTypeOK,
      CallTypeOK, CreditMeansStocked, Stocked, orderVars, loopVars, histVars
<1>14. ASSUME NEW r \in Req, NEW i \in Item,
             SkipItem(r, i)
      PROVE  CreditMeansStocked'
  BY <1>14 DEF SkipItem, TypeOK, StoreTypeOK,
      CallTypeOK, CreditMeansStocked, Stocked, orderVars, loopVars, histVars
<1>15. ASSUME NEW r \in Req, NEW i \in Item,
             TakeItem(r, i)
      PROVE  CreditMeansStocked'
  BY <1>15 DEF TakeItem, Goto, TypeOK, StoreTypeOK,
      CallTypeOK, CreditMeansStocked, Stocked, orderVars, loopVars, histVars
<1>16. ASSUME NEW r \in Req,
             LockItem(r)
      PROVE  CreditMeansStocked'
  BY <1>16 DEF LockItem, Goto, Locks!Granted, Locks!Refused, Locks!SetNX, TypeOK, StoreTypeOK,
      CallTypeOK, CreditMeansStocked, Stocked, orderVars, loopVars, histVars
<1>17. ASSUME NEW r \in Req,
             LockReplyLost(r)
      PROVE  CreditMeansStocked'
  BY <1>17 DEF LockReplyLost, Locks!ReplyLost, Locks!SetNX, TypeOK, StoreTypeOK,
      CallTypeOK, CreditMeansStocked, Stocked, orderVars, loopVars, histVars
<1>18. ASSUME NEW r \in Req,
             AdjustStock(r)
      PROVE  CreditMeansStocked'
  <2>1. item[r] \in Item /\ Missing(r, item[r]) \in Nat
    BY <1>18, HandledItem DEF AdjustStock, Doubt, histVars
  <2>2. \A i \in Item : Stocked(i) => Stocked(i)'
    BY StockedStays
  <2>3. pc'[r] = "unlock" => Stocked(item[r])'
    <3> SUFFICES ASSUME pc'[r] = "unlock"
                 PROVE  Stocked(item[r])'
      OBVIOUS
    <3>1. CASE snap[r][item[r]] > 0
      <4>1. Stocked(item[r])
        BY <2>1, <3>1 DEF CreditMeansStocked
      <4>2. moved'[item[r]] >= Ordered[item[r]] /\ item' = item
        BY <1>18, <2>1, <2>2, <4>1 DEF AdjustStock, Stocked, loopVars, Doubt, histVars
      <4> QED BY <4>2 DEF Stocked
    <3>2. CASE ~ (snap[r][item[r]] > 0)
      <4>1. snap[r][item[r]] = 0 /\ Ordered[item[r]] \in Nat
        BY <2>1, <3>2, ReceiptAssumption DEF TypeOK, CallTypeOK
      <4>2. Missing(r, item[r]) = Ordered[item[r]]
        BY <4>1 DEF Missing
      <4>3. moved'[item[r]] = moved[item[r]] + Missing(r, item[r])
        BY <1>18, <2>1 DEF AdjustStock, Goto, TypeOK, StoreTypeOK, CallTypeOK, Doubt, histVars
      <4>4. moved[item[r]] \in Nat
        BY <2>1 DEF TypeOK, StoreTypeOK
      <4>5. moved'[item[r]] >= Ordered[item[r]]
        BY <4>1, <4>2, <4>3, <4>4
      <4>6. item' = item
        BY <1>18 DEF AdjustStock, loopVars, Doubt, histVars
      <4> QED BY <4>5, <4>6 DEF Stocked
    <3> QED BY <3>1, <3>2
  <2>4. received' = received /\ snap' = snap /\ item' = item
    BY <1>18 DEF AdjustStock, orderVars, loopVars, Doubt, histVars
  <2>5. \A s \in Req \ {r} : pc'[s] = pc[s]
    BY <1>18 DEF AdjustStock, Goto, TypeOK, CallTypeOK, Doubt, histVars
  <2>6. pc'[r] # "record"
    BY <1>18 DEF AdjustStock, Goto, TypeOK, CallTypeOK, Doubt, histVars
  <2>7. \A s \in Req : pc'[s] \in {"unlock", "record"} => Stocked(item[s])'
    <3> SUFFICES ASSUME NEW s \in Req, pc'[s] \in {"unlock", "record"}
                 PROVE  Stocked(item[s])'
      OBVIOUS
    <3>1. CASE s = r
      BY <2>3, <2>6, <3>1
    <3>2. CASE s # r
      <4>1. item[s] \in Item /\ Stocked(item[s])
        BY <2>5, <3>2 DEF CreditMeansStocked, TypeOK, CallTypeOK
      <4>2. moved'[item[s]] >= Ordered[item[s]]
        BY <4>1, <2>2 DEF Stocked
      <4> QED BY <4>2, <2>4 DEF Stocked
    <3> QED BY <3>1, <3>2
  <2> QED BY <2>2, <2>4, <2>7 DEF CreditMeansStocked
<1>19. ASSUME NEW r \in Req,
             UnlockItem(r)
      PROVE  CreditMeansStocked'
  BY <1>19 DEF UnlockItem, Goto, Locks!Released, Locks!Unlock, TypeOK, StoreTypeOK,
      CallTypeOK, CreditMeansStocked, Stocked, orderVars, loopVars, histVars
<1>20. ASSUME NEW r \in Req,
             RecordItem(r)
      PROVE  CreditMeansStocked'
  BY <1>20 DEF RecordItem, Goto, TypeOK, StoreTypeOK,
      CallTypeOK, CreditMeansStocked, Stocked, orderVars, loopVars, Doubt, histVars
<1>21. ASSUME NEW r \in Req,
             FinishOrder(r)
      PROVE  CreditMeansStocked'
  BY <1>21 DEF FinishOrder, Goto, TypeOK, StoreTypeOK,
      CallTypeOK, CreditMeansStocked, Stocked, orderVars, loopVars, SetStatus, histVars
<1>22. ASSUME NEW r \in Req,
             Crash(r)
      PROVE  CreditMeansStocked'
  BY <1>22 DEF Crash, Goto, TypeOK, StoreTypeOK,
      CallTypeOK, CreditMeansStocked, Stocked, orderVars, loopVars, histVars
<1>23. ASSUME NEW l \in Loc,
             LockExpires(l)
      PROVE  CreditMeansStocked'
  BY <1>23 DEF LockExpires, Locks!KeyExpires, TypeOK, StoreTypeOK,
      CallTypeOK, CreditMeansStocked, Stocked, orderVars, loopVars, histVars
<1>24. ASSUME NEW o \in Order, NEW word \in AnyWord,
             BatchStatusChange(o, word)
      PROVE  CreditMeansStocked'
  BY <1>24 DEF BatchStatusChange, AnyWord, TypeOK, StoreTypeOK,
      CallTypeOK, CreditMeansStocked, Stocked, orderVars, loopVars, histVars
<1>25. CASE UNCHANGED vars
  BY <1>25 DEF vars, CreditMeansStocked, Stocked, orderVars, loopVars, histVars
<1> QED
  BY <1>1, <1>2, <1>3, <1>4, <1>5, <1>6, <1>7, <1>8, <1>9, <1>10, <1>11, <1>12,
     <1>13, <1>14, <1>15, <1>16, <1>17, <1>18, <1>19, <1>20, <1>21, <1>22, <1>23, <1>24,
     <1>25
  DEF Next, Start, Step

(***************************************************************************)
(* What a receipt listed is still to do or in stock.                       *)
(***************************************************************************)
LEMMA CoverStep ==
  ASSUME TypeOK, HandlesMissing, CreditMeansStocked, LoopCovers, "list" \notin Faults,
         [Next]_vars
  PROVE  LoopCovers'
<1> USE DEF TypeOK, StoreTypeOK, CallTypeOK, LoopCovers, Stocked, ItemsOf,
        InLoop, orderVars, argVars, loopVars
<1>1. ASSUME NEW o \in Order,
             CreatePurchaseOrder(o)
      PROVE  LoopCovers'
  BY <1>1 DEF CreatePurchaseOrder, histVars
<1>2. ASSUME NEW o \in Order,
             CreatePurchaseOrderReturns(o)
      PROVE  LoopCovers'
  BY <1>2 DEF CreatePurchaseOrderReturns, histVars
<1>3. ASSUME NEW i \in Item,
             CreatePurchaseOrderItem(i)
      PROVE  LoopCovers'
  <2> SUFFICES ASSUME NEW s \in Req, pc'[s] \in InLoop,
                      NEW k \in (ItemsOf(ord[s]) \cap placed') \ late'
               PROVE  k \in todo'[s] \/ Stocked(k)'
    BY <1>3 DEF CreatePurchaseOrderItem, histVars
  <2>1. k # i
    BY <1>3 DEF CreatePurchaseOrderItem, HasListed, histVars
  <2>2. k \in (ItemsOf(ord[s]) \cap placed) \ late /\ pc[s] \in InLoop
    BY <1>3, <2>1 DEF CreatePurchaseOrderItem, histVars
  <2> QED BY <1>3, <2>2 DEF CreatePurchaseOrderItem, histVars
<1>4. ASSUME NEW q \in Inspection, NEW o \in Order,
             CreateInspection(q, o)
      PROVE  LoopCovers'
  BY <1>4 DEF CreateInspection, InsertInspection, histVars
<1>5. ASSUME NEW q \in Inspection,
             AddInspectionItem(q)
      PROVE  LoopCovers'
  BY <1>5 DEF AddInspectionItem, histVars
<1>6. ASSUME NEW r \in Req, NEW o \in Order, NEW w \in Warehouse,
             StartReceive(r, o, w)
      PROVE  LoopCovers'
  BY <1>6 DEF StartReceive, Goto, histVars
<1>7. ASSUME NEW r \in Req, NEW o \in Order, NEW q \in Inspection,
             StartInspectedReceive(r, o, q)
      PROVE  LoopCovers'
  BY <1>7 DEF StartInspectedReceive, InsertInspection, Goto, histVars
<1>8. ASSUME NEW r \in Req, NEW q \in Inspection,
             StartComplete(r, q)
      PROVE  LoopCovers'
  BY <1>8 DEF StartComplete, Goto, histVars
<1>9. ASSUME NEW r \in Req, NEW q \in Inspection, NEW w \in Warehouse,
             StartAutoReceive(r, q, w)
      PROVE  LoopCovers'
  BY <1>9 DEF StartAutoReceive, Goto, histVars
<1>10. ASSUME NEW r \in Req,
             ListInspectionItems(r)
      PROVE  LoopCovers'
  BY <1>10 DEF ListInspectionItems, Goto, histVars
<1>11. ASSUME NEW r \in Req,
             SaveVerdict(r)
      PROVE  LoopCovers'
  BY <1>11 DEF SaveVerdict, Goto, histVars
<1>12. ASSUME NEW r \in Req,
             MarkInspecting(r)
      PROVE  LoopCovers'
  BY <1>12 DEF MarkInspecting, Goto, SetStatus, histVars
<1>13. ASSUME NEW r \in Req,
             ListItems(r)
      PROVE  LoopCovers'
  BY <1>13 DEF ListItems, Goto, histVars
<1>14. ASSUME NEW r \in Req, NEW i \in Item,
             SkipItem(r, i)
      PROVE  LoopCovers'
  <2>1. Stocked(i)
    <3>1. snap[r][i] \in Nat /\ Ordered[i] \in Nat /\ moved[i] \in Nat
      BY ReceiptAssumption
    <3>2. snap[r][i] > 0 => Stocked(i)
      BY DEF CreditMeansStocked
    <3>3. snap[r][i] >= Ordered[i]
      BY <1>14, <3>1 DEF SkipItem, Missing, histVars
    <3> QED BY <3>1, <3>2, <3>3
  <2>2. \A s \in Req, k \in Item : k \in todo[s] => k \in todo'[s] \/ k = i
    BY <1>14 DEF SkipItem, histVars
  <2> QED BY <1>14, <2>1, <2>2 DEF SkipItem, histVars
<1>15. ASSUME NEW r \in Req, NEW i \in Item,
             TakeItem(r, i)
      PROVE  LoopCovers'
  BY <1>15 DEF TakeItem, Goto, histVars
<1>16. ASSUME NEW r \in Req,
             LockItem(r)
      PROVE  LoopCovers'
  BY <1>16 DEF LockItem, Goto, Locks!Granted, Locks!Refused, Locks!SetNX, histVars
<1>17. ASSUME NEW r \in Req,
             LockReplyLost(r)
      PROVE  LoopCovers'
  BY <1>17 DEF LockReplyLost, Locks!ReplyLost, Locks!SetNX, histVars
<1>18. ASSUME NEW r \in Req,
             AdjustStock(r)
      PROVE  LoopCovers'
  <2>1. \A i \in Item : Stocked(i) => Stocked(i)'
    BY StockedStays
  <2>2. \A s \in Req : pc'[s] \in InLoop => pc[s] \in InLoop
    BY <1>18 DEF AdjustStock, Goto, Doubt, histVars
  <2> QED BY <1>18, <2>1, <2>2 DEF AdjustStock, Doubt, histVars
<1>19. ASSUME NEW r \in Req,
             UnlockItem(r)
      PROVE  LoopCovers'
  BY <1>19 DEF UnlockItem, Goto, Locks!Released, Locks!Unlock, histVars
<1>20. ASSUME NEW r \in Req,
             RecordItem(r)
      PROVE  LoopCovers'
  <2>1. item[r] \in Item /\ Stocked(item[r])
    BY <1>20 DEF RecordItem, CreditMeansStocked, Doubt, histVars
  <2>2. \A s \in Req : pc'[s] \in InLoop => pc[s] \in InLoop
    BY <1>20 DEF RecordItem, Goto, Doubt, histVars
  <2>3. \A s \in Req, i \in Item :
          i \in todo[s] => i \in todo'[s] \/ (s = r /\ i = item[r])
    BY <1>20 DEF RecordItem, Doubt, histVars
  <2> QED BY <1>20, <2>1, <2>2, <2>3 DEF RecordItem, Doubt, histVars
<1>21. ASSUME NEW r \in Req,
             FinishOrder(r)
      PROVE  LoopCovers'
  BY <1>21 DEF FinishOrder, Goto, SetStatus, histVars
<1>22. ASSUME NEW r \in Req,
             Crash(r)
      PROVE  LoopCovers'
  BY <1>22 DEF Crash, Goto, histVars
<1>23. ASSUME NEW l \in Loc,
             LockExpires(l)
      PROVE  LoopCovers'
  BY <1>23 DEF LockExpires, Locks!KeyExpires, histVars
<1>24. ASSUME NEW o \in Order, NEW word \in AnyWord,
             BatchStatusChange(o, word)
      PROVE  LoopCovers'
  BY <1>24 DEF BatchStatusChange, AnyWord, histVars
<1>25. CASE UNCHANGED vars
  BY <1>25 DEF vars, histVars
<1> QED
  BY <1>1, <1>2, <1>3, <1>4, <1>5, <1>6, <1>7, <1>8, <1>9, <1>10, <1>11, <1>12,
     <1>13, <1>14, <1>15, <1>16, <1>17, <1>18, <1>19, <1>20, <1>21, <1>22, <1>23, <1>24,
     <1>25
  DEF Next, Start, Step

(***************************************************************************)
(* Only FinishOrder and the batch desk make an order received, and         *)
(* FinishOrder only with nothing to do.                                    *)
(***************************************************************************)
LEMMA ReceivedStep ==
  ASSUME TypeOK, HandlesMissing, LoopCovers, ReceivedMeansStocked, [Next]_vars
  PROVE  ReceivedMeansStocked'
<1> USE DEF TypeOK, StoreTypeOK, CallTypeOK, LoopCovers, ReceivedMeansStocked,
        Stocked, ItemsOf, InLoop, orderVars, argVars, loopVars
<1>1. ASSUME NEW o \in Order,
             CreatePurchaseOrder(o)
      PROVE  ReceivedMeansStocked'
  BY <1>1 DEF CreatePurchaseOrder, histVars
<1>2. ASSUME NEW o \in Order,
             CreatePurchaseOrderReturns(o)
      PROVE  ReceivedMeansStocked'
  BY <1>2 DEF CreatePurchaseOrderReturns, histVars
<1>3. ASSUME NEW i \in Item,
             CreatePurchaseOrderItem(i)
      PROVE  ReceivedMeansStocked'
  BY <1>3 DEF CreatePurchaseOrderItem, histVars
<1>4. ASSUME NEW q \in Inspection, NEW o \in Order,
             CreateInspection(q, o)
      PROVE  ReceivedMeansStocked'
  BY <1>4 DEF CreateInspection, InsertInspection, histVars
<1>5. ASSUME NEW q \in Inspection,
             AddInspectionItem(q)
      PROVE  ReceivedMeansStocked'
  BY <1>5 DEF AddInspectionItem, histVars
<1>6. ASSUME NEW r \in Req, NEW o \in Order, NEW w \in Warehouse,
             StartReceive(r, o, w)
      PROVE  ReceivedMeansStocked'
  BY <1>6 DEF StartReceive, Goto, histVars
<1>7. ASSUME NEW r \in Req, NEW o \in Order, NEW q \in Inspection,
             StartInspectedReceive(r, o, q)
      PROVE  ReceivedMeansStocked'
  BY <1>7 DEF StartInspectedReceive, InsertInspection, Goto, histVars
<1>8. ASSUME NEW r \in Req, NEW q \in Inspection,
             StartComplete(r, q)
      PROVE  ReceivedMeansStocked'
  BY <1>8 DEF StartComplete, Goto, histVars
<1>9. ASSUME NEW r \in Req, NEW q \in Inspection, NEW w \in Warehouse,
             StartAutoReceive(r, q, w)
      PROVE  ReceivedMeansStocked'
  BY <1>9 DEF StartAutoReceive, Goto, histVars
<1>10. ASSUME NEW r \in Req,
             ListInspectionItems(r)
      PROVE  ReceivedMeansStocked'
  BY <1>10 DEF ListInspectionItems, Goto, histVars
<1>11. ASSUME NEW r \in Req,
             SaveVerdict(r)
      PROVE  ReceivedMeansStocked'
  BY <1>11 DEF SaveVerdict, Goto, histVars
<1>12. ASSUME NEW r \in Req,
             MarkInspecting(r)
      PROVE  ReceivedMeansStocked'
  <2>1. \A o \in Order : status'[o] = "received" => status[o] = "received"
    BY <1>12 DEF MarkInspecting, SetStatus, histVars
  <2> QED BY <1>12, <2>1, ReceiptAssumption DEF MarkInspecting, SetStatus, histVars
<1>13. ASSUME NEW r \in Req,
             ListItems(r)
      PROVE  ReceivedMeansStocked'
  BY <1>13 DEF ListItems, Goto, histVars
<1>14. ASSUME NEW r \in Req, NEW i \in Item,
             SkipItem(r, i)
      PROVE  ReceivedMeansStocked'
  BY <1>14 DEF SkipItem, histVars
<1>15. ASSUME NEW r \in Req, NEW i \in Item,
             TakeItem(r, i)
      PROVE  ReceivedMeansStocked'
  BY <1>15 DEF TakeItem, Goto, histVars
<1>16. ASSUME NEW r \in Req,
             LockItem(r)
      PROVE  ReceivedMeansStocked'
  BY <1>16 DEF LockItem, Goto, Locks!Granted, Locks!Refused, Locks!SetNX, histVars
<1>17. ASSUME NEW r \in Req,
             LockReplyLost(r)
      PROVE  ReceivedMeansStocked'
  BY <1>17 DEF LockReplyLost, Locks!ReplyLost, Locks!SetNX, histVars
<1>18. ASSUME NEW r \in Req,
             AdjustStock(r)
      PROVE  ReceivedMeansStocked'
  <2>1. \A i \in Item : Stocked(i) => Stocked(i)'
    BY StockedStays
  <2> QED BY <1>18, <2>1 DEF AdjustStock, Doubt, histVars
<1>19. ASSUME NEW r \in Req,
             UnlockItem(r)
      PROVE  ReceivedMeansStocked'
  BY <1>19 DEF UnlockItem, Goto, Locks!Released, Locks!Unlock, histVars
<1>20. ASSUME NEW r \in Req,
             RecordItem(r)
      PROVE  ReceivedMeansStocked'
  BY <1>20 DEF RecordItem, Goto, Doubt, histVars
<1>21. ASSUME NEW r \in Req,
             FinishOrder(r)
      PROVE  ReceivedMeansStocked'
  <2>1. \A o \in Order : status'[o] = "received" => status[o] = "received" \/ o = ord[r]
    BY <1>21 DEF FinishOrder, SetStatus, histVars
  <2>2. \A i \in placed \ late : OrderOf[i] = ord[r] => Stocked(i)
    BY <1>21 DEF FinishOrder, SetStatus, histVars
  <2> QED BY <1>21, <2>1, <2>2, ReceiptAssumption DEF FinishOrder, SetStatus, histVars
<1>22. ASSUME NEW r \in Req,
             Crash(r)
      PROVE  ReceivedMeansStocked'
  BY <1>22 DEF Crash, Goto, histVars
<1>23. ASSUME NEW l \in Loc,
             LockExpires(l)
      PROVE  ReceivedMeansStocked'
  BY <1>23 DEF LockExpires, Locks!KeyExpires, histVars
<1>24. ASSUME NEW o \in Order, NEW word \in AnyWord,
             BatchStatusChange(o, word)
      PROVE  ReceivedMeansStocked'
  BY <1>24 DEF BatchStatusChange, AnyWord, histVars
<1>25. CASE UNCHANGED vars
  BY <1>25 DEF vars, histVars
<1> QED
  BY <1>1, <1>2, <1>3, <1>4, <1>5, <1>6, <1>7, <1>8, <1>9, <1>10, <1>11, <1>12,
     <1>13, <1>14, <1>15, <1>16, <1>17, <1>18, <1>19, <1>20, <1>21, <1>22, <1>23, <1>24,
     <1>25
  DEF Next, Start, Step

(***************************************************************************)
(* A key is taken on entering the section and given back on leaving it.    *)
(***************************************************************************)
LEMMA KeyStep ==
  ASSUME TypeOK, KeyHasUser, [Next]_vars
  PROVE  KeyHasUser'
<1> USE ReceiptAssumption DEF TypeOK, StoreTypeOK, CallTypeOK, KeyHasUser, Place, InLoop, Ended,
        argVars, loopVars, Locks!LockTableTypeOK
<1>1. ASSUME NEW o \in Order,
             CreatePurchaseOrder(o)
      PROVE  KeyHasUser'
  BY <1>1 DEF CreatePurchaseOrder, histVars
<1>2. ASSUME NEW o \in Order,
             CreatePurchaseOrderReturns(o)
      PROVE  KeyHasUser'
  BY <1>2 DEF CreatePurchaseOrderReturns, histVars
<1>3. ASSUME NEW i \in Item,
             CreatePurchaseOrderItem(i)
      PROVE  KeyHasUser'
  BY <1>3 DEF CreatePurchaseOrderItem, histVars
<1>4. ASSUME NEW q \in Inspection, NEW o \in Order,
             CreateInspection(q, o)
      PROVE  KeyHasUser'
  BY <1>4 DEF CreateInspection, InsertInspection, histVars
<1>5. ASSUME NEW q \in Inspection,
             AddInspectionItem(q)
      PROVE  KeyHasUser'
  BY <1>5 DEF AddInspectionItem, histVars
<1>6. ASSUME NEW r \in Req, NEW o \in Order, NEW w \in Warehouse,
             StartReceive(r, o, w)
      PROVE  KeyHasUser'
  BY <1>6 DEF StartReceive, Goto, histVars
<1>7. ASSUME NEW r \in Req, NEW o \in Order, NEW q \in Inspection,
             StartInspectedReceive(r, o, q)
      PROVE  KeyHasUser'
  <2> SUFFICES ASSUME NEW s \in Req, NEW l \in Loc, lockKey'[l] = s
               PROVE  \/ /\ pc'[s] \in {"adjust", "unlock", "unlockErr"}
                         /\ l = <<wh'[s], MatOf[item'[s]]>>
                      \/ pc'[s] = "dead"
    OBVIOUS
  <2>1. lockKey[l] = s /\ s # r
    BY <1>7 DEF StartInspectedReceive, histVars
  <2> QED BY <1>7, <2>1 DEF StartInspectedReceive, Goto, histVars
<1>8. ASSUME NEW r \in Req, NEW q \in Inspection,
             StartComplete(r, q)
      PROVE  KeyHasUser'
  BY <1>8 DEF StartComplete, Goto, histVars
<1>9. ASSUME NEW r \in Req, NEW q \in Inspection, NEW w \in Warehouse,
             StartAutoReceive(r, q, w)
      PROVE  KeyHasUser'
  BY <1>9 DEF StartAutoReceive, Goto, histVars
<1>10. ASSUME NEW r \in Req,
             ListInspectionItems(r)
      PROVE  KeyHasUser'
  <2>1. /\ pc[r] = "listChecks" /\ UNCHANGED <<lockKey, wh, item>>
        /\ \A s \in Req : s # r => pc'[s] = pc[s]
    BY <1>10 DEF ListInspectionItems, Goto, argVars, loopVars, histVars
  <2> QED BY <2>1
<1>11. ASSUME NEW r \in Req,
             SaveVerdict(r)
      PROVE  KeyHasUser'
  BY <1>11 DEF SaveVerdict, Goto, histVars
<1>12. ASSUME NEW r \in Req,
             MarkInspecting(r)
      PROVE  KeyHasUser'
  BY <1>12 DEF MarkInspecting, Goto, SetStatus, histVars
<1>13. ASSUME NEW r \in Req,
             ListItems(r)
      PROVE  KeyHasUser'
  BY <1>13 DEF ListItems, Goto, histVars
<1>14. ASSUME NEW r \in Req, NEW i \in Item,
             SkipItem(r, i)
      PROVE  KeyHasUser'
  BY <1>14 DEF SkipItem, histVars
<1>15. ASSUME NEW r \in Req, NEW i \in Item,
             TakeItem(r, i)
      PROVE  KeyHasUser'
  BY <1>15 DEF TakeItem, Goto, histVars
<1>16. ASSUME NEW r \in Req,
             LockItem(r)
      PROVE  KeyHasUser'
  <2> SUFFICES ASSUME NEW s \in Req, NEW l \in Loc, lockKey'[l] = s
               PROVE  \/ /\ pc'[s] \in {"adjust", "unlock", "unlockErr"}
                         /\ l = <<wh'[s], MatOf[item'[s]]>>
                      \/ pc'[s] = "dead"
    OBVIOUS
  <2>1. CASE lockKey[l] = s
    <3>1. s # r
      BY <1>16, <2>1 DEF LockItem, histVars
    <3> QED BY <1>16, <2>1, <3>1 DEF LockItem, Goto, histVars
  <2>2. CASE lockKey[l] # s
    <3>1. /\ lockKey' = [lockKey EXCEPT ![Place(r)] = r]
          /\ pc' = [pc EXCEPT ![r] = "adjust"]
      <4> HIDE DEF Place
      <4> QED BY <1>16, <2>2 DEF LockItem, Goto, Locks!Granted, Locks!Refused,
                              Locks!SetNX, histVars
    <3>2. l = Place(r) /\ s = r
      BY <2>2, <3>1
    <3> QED BY <1>16, <3>1, <3>2 DEF LockItem, histVars
  <2> QED BY <2>1, <2>2
<1>17. ASSUME NEW r \in Req,
             LockReplyLost(r)
      PROVE  KeyHasUser'
  BY <1>17 DEF LockReplyLost, Locks!ReplyLost, Locks!SetNX, histVars
<1>18. ASSUME NEW r \in Req,
             AdjustStock(r)
      PROVE  KeyHasUser'
  BY <1>18 DEF AdjustStock, Goto, Place, AdjustQuantity, Doubt, histVars
<1>19. ASSUME NEW r \in Req,
             UnlockItem(r)
      PROVE  KeyHasUser'
  <2> SUFFICES ASSUME NEW s \in Req, NEW l \in Loc, lockKey'[l] = s
               PROVE  \/ /\ pc'[s] \in {"adjust", "unlock", "unlockErr"}
                         /\ l = <<wh'[s], MatOf[item'[s]]>>
                      \/ pc'[s] = "dead"
    OBVIOUS
  <2>1. lockKey[l] = s
    <3> HIDE DEF Place
    <3> QED BY <1>19 DEF UnlockItem, Locks!Released, Locks!Unlock, histVars
  <2>2. s # r
    <3> SUFFICES ASSUME s = r
                 PROVE  FALSE
      OBVIOUS
    <3>1. l = Place(r)
      BY <1>19, <2>1 DEF UnlockItem, histVars
    <3>2. lockKey' = [lockKey EXCEPT ![l] = IF @ = r THEN NoReq ELSE @]
      BY <1>19, <3>1 DEF UnlockItem, Locks!Released, Locks!Unlock, histVars
    <3> QED BY <2>1, <3>2
  <2> QED BY <1>19, <2>1, <2>2 DEF UnlockItem, Goto, histVars
<1>20. ASSUME NEW r \in Req,
             RecordItem(r)
      PROVE  KeyHasUser'
  BY <1>20 DEF RecordItem, Goto, Doubt, histVars
<1>21. ASSUME NEW r \in Req,
             FinishOrder(r)
      PROVE  KeyHasUser'
  BY <1>21 DEF FinishOrder, Goto, SetStatus, histVars
<1>22. ASSUME NEW r \in Req,
             Crash(r)
      PROVE  KeyHasUser'
  BY <1>22 DEF Crash, Goto, Active, histVars
<1>23. ASSUME NEW l \in Loc,
             LockExpires(l)
      PROVE  KeyHasUser'
  BY <1>23 DEF LockExpires, Locks!KeyExpires, histVars
<1>24. ASSUME NEW o \in Order, NEW word \in AnyWord,
             BatchStatusChange(o, word)
      PROVE  KeyHasUser'
  BY <1>24 DEF BatchStatusChange, AnyWord, histVars
<1>25. CASE UNCHANGED vars
  BY <1>25 DEF vars, histVars
<1> QED
  BY <1>1, <1>2, <1>3, <1>4, <1>5, <1>6, <1>7, <1>8, <1>9, <1>10, <1>11, <1>12,
     <1>13, <1>14, <1>15, <1>16, <1>17, <1>18, <1>19, <1>20, <1>21, <1>22, <1>23, <1>24,
     <1>25
  DEF Next, Start, Step

(* The invariants hold before the first call.                               *)
LEMMA InitReceiptInv == Init => ReceiptInv /\ KeyHasUser
<1> SUFFICES ASSUME Init
             PROVE  ReceiptInv /\ KeyHasUser
  OBVIOUS
<1> USE ReceiptAssumption DEF Init
<1>1. /\ AnyOf(Order) \in Order /\ AnyOf(Item) \in Item
      /\ AnyOf(Inspection) \in Inspection /\ AnyOf(Warehouse) \in Warehouse
  BY DEF AnyOf
<1>2. StoreTypeOK
  BY <1>1 DEF StoreTypeOK, InventoryInit, InventoryTypeOK, Locks!LockTableInit,
              Locks!LockTableTypeOK
<1>3. CallTypeOK
  BY <1>1 DEF CallTypeOK
<1>4. HandlesMissing /\ CreditMeansStocked /\ LoopCovers /\ ReceivedMeansStocked
  BY DEF HandlesMissing, CreditMeansStocked, LoopCovers, ReceivedMeansStocked,
         InLoop
<1>5. KeyHasUser
  BY DEF KeyHasUser, Locks!LockTableInit
<1> QED BY <1>2, <1>3, <1>4, <1>5 DEF ReceiptInv, TypeOK

(***************************************************************************)
(* Every variable keeps its type.  Beside TypeOK the induction needs only  *)
(* HandlesMissing: loop quantities are positive, so that received_qty and  *)
(* moved stay natural numbers.                                             *)
(***************************************************************************)
THEOREM ReceiptTypeOK == Spec => []TypeOK
<1>1. Init => TypeOK /\ HandlesMissing
  BY InitReceiptInv DEF ReceiptInv
<1>2. TypeOK /\ HandlesMissing /\ [Next]_vars => (TypeOK /\ HandlesMissing)'
  BY StoreTypeStep, CallTypeStep, HandlesStep DEF TypeOK
<1> QED BY <1>1, <1>2, PTL DEF Spec

(***************************************************************************)
(* An order that a receipt marked received is in stock: whatever races,    *)
(* refusals, crashes, failing statements and batch changes of statuses     *)
(* there are, a receipt marks an order only after every item it saw was    *)
(* moved in full.  What the batch desk marks is not covered.  The one      *)
(* assumption is that listing the items does not fail, the error           *)
(* ReceivePurchase drops.                                                  *)
(***************************************************************************)
THEOREM ReceivedOrdersAreStocked ==
  "list" \notin Faults => (Spec => []ReceivedMeansStocked)
<1> SUFFICES ASSUME "list" \notin Faults
             PROVE  Spec => []ReceivedMeansStocked
  OBVIOUS
<1>1. Init => ReceiptInv
  BY InitReceiptInv
<1>2. ReceiptInv /\ [Next]_vars => ReceiptInv'
  BY StoreTypeStep, CallTypeStep, HandlesStep, CreditStep, CoverStep,
     ReceivedStep DEF ReceiptInv, TypeOK
<1>3. ReceiptInv => ReceivedMeansStocked
  BY DEF ReceiptInv
<1> QED BY <1>1, <1>2, <1>3, PTL DEF Spec

(***************************************************************************)
(* No path out of a call, success, refusal, failed statement or panic,     *)
(* leaves an inventory lock behind for its ttl.                            *)
(***************************************************************************)
THEOREM CallsGiveLocksBack == Spec => []NoKeyLeftBehind
<1>1. Init => KeyHasUser
  BY InitReceiptInv
<1>2. TypeOK /\ KeyHasUser /\ [Next]_vars => KeyHasUser'
  BY KeyStep
<1>3. KeyHasUser => NoKeyLeftBehind
  BY DEF KeyHasUser, NoKeyLeftBehind, Ended
<1> QED BY <1>1, <1>2, <1>3, ReceiptTypeOK, PTL DEF Spec

-----------------------------------------------------------------------------
(* The n units a request handles are n.                                     *)
LEMMA UnitsOf ==
  ASSUME NEW r, NEW n \in Nat
  PROVE  IsFiniteSet({r} \X (1 .. n)) /\ Cardinality({r} \X (1 .. n)) = n
<1>1. IsFiniteSet({r}) /\ Cardinality({r}) = 1
  BY FS_Singleton
<1>2. IsFiniteSet(1 .. n) /\ Cardinality(1 .. n) = n
  <2>1. 1 \in Int /\ n \in Int
    OBVIOUS
  <2>2. IsFiniteSet(1 .. n) /\ Cardinality(1 .. n) = IF 1 > n THEN 0 ELSE n - 1 + 1
    BY <2>1, FS_Interval
  <2> QED BY <2>2
<1>3. /\ IsFiniteSet({r} \X (1 .. n))
      /\ Cardinality({r} \X (1 .. n)) = Cardinality({r}) * Cardinality(1 .. n)
  BY <1>1, <1>2, FS_Product
<1> QED BY <1>1, <1>2, <1>3

(* Who records i has units of i under way; a request that does not, has not. *)
LEMMA UnderWayBy ==
  ASSUME NEW i, NEW u
  PROVE  u \in UnderWay(i) <=> \E r \in Recording(i) : u \in {r} \X (1 .. Missing(r, i))
BY DEF UnderWay

(***************************************************************************)
(* A step that neither moves nor records and sets no request to record     *)
(* anything: fewer units may be under way, since a request that died will  *)
(* not record its own.                                                     *)
(***************************************************************************)
LEMMA CoveredWithout ==
  ASSUME TypeOK, RecordsCovered, UNCHANGED <<received, moved>>,
         \A s \in Req : pc'[s] \in {"unlock", "record"} =>
            pc[s] \in {"unlock", "record"} /\ item'[s] = item[s] /\ snap'[s] = snap[s],
         \A s \in Req : snap'[s] = snap[s] \/ snap'[s] = received
  PROVE  RecordsCovered'
<1> SUFFICES ASSUME NEW i \in Item
             PROVE  /\ IsFiniteSet(UnderWay(i)')
                    /\ received[i] + Cardinality(UnderWay(i)') <= moved[i]
                    /\ \A s \in Req : snap'[s][i] + Cardinality(UnderWay(i)') <= moved[i]
  BY DEF RecordsCovered
<1>1. UnderWay(i)' \in SUBSET UnderWay(i)
  BY DEF UnderWay, Recording, Missing
<1>2. IsFiniteSet(UnderWay(i)) /\ Cardinality(UnderWay(i)) \in Nat
  BY FS_CardinalityType DEF RecordsCovered
<1>3. /\ IsFiniteSet(UnderWay(i)') /\ Cardinality(UnderWay(i)') \in Nat
      /\ Cardinality(UnderWay(i)') <= Cardinality(UnderWay(i))
  BY <1>1, <1>2, FS_Subset, FS_CardinalityType
<1>4. /\ received[i] \in Nat /\ moved[i] \in Nat
      /\ \A s \in Req : snap[s][i] \in Nat
  BY DEF TypeOK, StoreTypeOK, CallTypeOK
<1>5. received[i] + Cardinality(UnderWay(i)') <= moved[i]
  BY <1>2, <1>3, <1>4 DEF RecordsCovered
<1>6. ASSUME NEW s \in Req
      PROVE  snap'[s][i] + Cardinality(UnderWay(i)') <= moved[i]
  <2>1. snap[s][i] + Cardinality(UnderWay(i)') <= moved[i]
    BY <1>2, <1>3, <1>4 DEF RecordsCovered
  <2> QED BY <1>5, <2>1
<1> QED BY <1>3, <1>5, <1>6

(***************************************************************************)
(* Stock grows by what the item lacked, and as many units are under way    *)
(* now; after an error nobody will record them.                            *)
(***************************************************************************)
LEMMA CoveredByAdjusting ==
  ASSUME TypeOK, HandlesMissing, RecordsCovered, NEW r \in Req, AdjustStock(r)
  PROVE  RecordsCovered'
<1> DEFINE j == item[r]
           n == Missing(r, j)
<1>1. j \in Item /\ n \in Nat
  BY HandledItem DEF AdjustStock, Doubt, histVars
<1>2. UNCHANGED <<received, snap, item>> /\ pc[r] = "adjust"
  BY DEF AdjustStock, orderVars, loopVars, Doubt, histVars
<1>3. CASE UNCHANGED moved
  <2>1. \A s \in Req : pc'[s] \in {"unlock", "record"} => pc[s] \in {"unlock", "record"}
    BY <1>1, <1>3, HandledItem DEF AdjustStock, Goto, TypeOK, StoreTypeOK, CallTypeOK, Doubt, histVars
  <2> QED BY <1>2, <1>3, <2>1, CoveredWithout
<1>4. CASE moved' = [moved EXCEPT ![j] = @ + n]
  <2> SUFFICES ASSUME NEW i \in Item
               PROVE  /\ IsFiniteSet(UnderWay(i)')
                      /\ received[i] + Cardinality(UnderWay(i)') <= moved'[i]
                      /\ \A s \in Req : snap[s][i] + Cardinality(UnderWay(i)') <= moved'[i]
    BY <1>2 DEF RecordsCovered
  <2> DEFINE mine == IF i = j THEN {r} \X (1 .. n) ELSE {}
             more == IF i = j THEN n ELSE 0
  <2>1. IsFiniteSet(mine) /\ Cardinality(mine) = more /\ more \in Nat
    BY <1>1, UnitsOf, FS_EmptySet
  <2>2. moved'[i] = moved[i] + more
    BY <1>1, <1>4 DEF TypeOK, StoreTypeOK
  <2>3. UnderWay(i)' \in SUBSET (UnderWay(i) \cup mine)
    <3>1. \A s \in Req : s # r => pc'[s] = pc[s]
      BY DEF AdjustStock, Goto, TypeOK, CallTypeOK, Doubt, histVars
    <3>2. \A s \in Recording(i)' : s \in Recording(i) \/ (s = r /\ i = j)
      BY <1>2, <3>1 DEF Recording
    <3> QED BY <1>2, <3>2 DEF UnderWay, Missing
  <2>4. IsFiniteSet(UnderWay(i)) /\ Cardinality(UnderWay(i)) \in Nat
    BY FS_CardinalityType DEF RecordsCovered
  <2>5. /\ IsFiniteSet(UnderWay(i) \cup mine)
        /\ Cardinality(UnderWay(i) \cup mine) <= Cardinality(UnderWay(i)) + more
        /\ Cardinality(UnderWay(i) \cup mine) \in Nat
    <3> HIDE DEF mine, more
    <3>1. IsFiniteSet(UnderWay(i) \cup mine)
          /\ Cardinality(UnderWay(i) \cup mine) = Cardinality(UnderWay(i)) + Cardinality(mine) - Cardinality(UnderWay(i) \cap mine)
      BY <2>1, <2>4, FS_Union
    <3>2. Cardinality(UnderWay(i) \cap mine) \in Nat
      <4>1. IsFiniteSet(UnderWay(i) \cap mine)
        BY <2>1, FS_Subset
      <4> QED BY <4>1, FS_CardinalityType
    <3>3. Cardinality(UnderWay(i) \cup mine) \in Nat
      BY <3>1, FS_CardinalityType
    <3> QED BY <2>1, <2>4, <3>1, <3>2, <3>3
  <2>6. /\ IsFiniteSet(UnderWay(i)') /\ Cardinality(UnderWay(i)') \in Nat
        /\ Cardinality(UnderWay(i)') <= Cardinality(UnderWay(i)) + more
    <3> HIDE DEF mine, more
    <3>1. /\ IsFiniteSet(UnderWay(i)') /\ Cardinality(UnderWay(i)') \in Nat
          /\ Cardinality(UnderWay(i)') <= Cardinality(UnderWay(i) \cup mine)
      BY <2>3, <2>5, FS_Subset, FS_CardinalityType
    <3> QED BY <2>1, <2>4, <2>5, <3>1
  <2>7. /\ received[i] \in Nat /\ moved[i] \in Nat
        /\ \A s \in Req : snap[s][i] \in Nat
    BY DEF TypeOK, StoreTypeOK, CallTypeOK
  <2>8. /\ received[i] + Cardinality(UnderWay(i)) <= moved[i]
        /\ \A s \in Req : snap[s][i] + Cardinality(UnderWay(i)) <= moved[i]
    BY DEF RecordsCovered
  <2> HIDE DEF mine, more
  <2> QED BY <2>1, <2>2, <2>4, <2>6, <2>7, <2>8
<1> QED BY <1>3, <1>4 DEF AdjustStock, Doubt, histVars

(***************************************************************************)
(* A request records its units, which are under way no more: it adds them  *)
(* to the record, or to what it once read, and either is covered together  *)
(* with the units of all others.                                           *)
(***************************************************************************)
LEMMA CoveredByRecording ==
  ASSUME TypeOK, HandlesMissing, RecordsCovered, NEW r \in Req, RecordItem(r)
  PROVE  RecordsCovered'
<1> DEFINE j == item[r]
           n == Missing(r, j)
<1>1. j \in Item /\ n \in Nat /\ n = Ordered[j] - snap[r][j]
  BY HandledItem DEF RecordItem, Missing, Doubt, histVars
<1>2. UNCHANGED <<moved, snap, item>> /\ pc' = [pc EXCEPT ![r] = "loop"] /\ pc[r] = "record"
  BY DEF RecordItem, Goto, Doubt, histVars
<1>3. CASE UNCHANGED received
  <2>1. \A s \in Req : pc'[s] \in {"unlock", "record"} => pc[s] \in {"unlock", "record"}
    BY <1>2 DEF TypeOK, CallTypeOK
  <2> QED BY <1>2, <1>3, <2>1, CoveredWithout
<1>4. CASE received' = [received EXCEPT ![j] = IF entry[r] = "auto" THEN @ + n ELSE Ordered[j]]
  <2> SUFFICES ASSUME NEW i \in Item
               PROVE  /\ IsFiniteSet(UnderWay(i)')
                      /\ received'[i] + Cardinality(UnderWay(i)') <= moved[i]
                      /\ \A s \in Req : snap[s][i] + Cardinality(UnderWay(i)') <= moved[i]
    BY <1>2 DEF RecordsCovered
  <2>1. /\ received[i] \in Nat /\ moved[i] \in Nat /\ Ordered[i] \in Nat
        /\ \A s \in Req : snap[s][i] \in Nat
    BY ReceiptAssumption DEF TypeOK, StoreTypeOK, CallTypeOK
  <2>2. /\ IsFiniteSet(UnderWay(i)) /\ Cardinality(UnderWay(i)) \in Nat
        /\ received[i] + Cardinality(UnderWay(i)) <= moved[i]
        /\ \A s \in Req : snap[s][i] + Cardinality(UnderWay(i)) <= moved[i]
    BY FS_CardinalityType DEF RecordsCovered
  <2> DEFINE mine == {r} \X (1 .. n)
  <2>3. IsFiniteSet(mine) /\ Cardinality(mine) = n
    BY <1>1, UnitsOf
  <2>4. Recording(i)' = Recording(i) \ {r}
    BY <1>2 DEF Recording, TypeOK, CallTypeOK
  <2>5. UnderWay(i)' \in SUBSET UnderWay(i)
    BY <1>2, <2>4 DEF UnderWay, Missing
  <2>6. i = j => mine \subseteq UnderWay(i) /\ UnderWay(i)' \in SUBSET (UnderWay(i) \ mine)
    BY <1>2, <2>4 DEF UnderWay, Missing, Recording
  <2>7. /\ IsFiniteSet(UnderWay(i)') /\ Cardinality(UnderWay(i)') \in Nat
        /\ Cardinality(UnderWay(i)') <= Cardinality(UnderWay(i))
    BY <2>2, <2>5, FS_Subset, FS_CardinalityType
  <2>8. ASSUME i = j
        PROVE  Cardinality(UnderWay(i)') <= Cardinality(UnderWay(i)) - n
    <3> HIDE DEF mine, n
    <3>1. /\ IsFiniteSet(UnderWay(i) \ mine)
          /\ Cardinality(UnderWay(i) \ mine) = Cardinality(UnderWay(i)) - Cardinality(UnderWay(i) \cap mine)
      BY <2>2, FS_Difference
    <3>2. UnderWay(i) \cap mine = mine
      BY <2>6, <2>8
    <3>3. Cardinality(UnderWay(i)') <= Cardinality(UnderWay(i) \ mine)
      BY <2>6, <2>8, <3>1, FS_Subset
    <3> QED BY <2>3, <3>1, <3>2, <3>3
  <2>9. received'[i] + Cardinality(UnderWay(i)') <= moved[i]
    <3>1. CASE i # j
      BY <1>4, <2>1, <2>2, <2>7, <3>1 DEF TypeOK, StoreTypeOK
    <3>2. CASE i = j /\ entry[r] = "auto"
      <4>1. received'[i] = received[i] + n
        BY <1>4, <3>2 DEF TypeOK, StoreTypeOK
      <4> HIDE DEF n
      <4> QED BY <1>1, <2>1, <2>2, <2>7, <2>8, <3>2, <4>1
    <3>3. CASE i = j /\ entry[r] # "auto"
      <4>1. received'[i] = snap[r][i] + n
        BY <1>1, <1>4, <2>1, <3>3 DEF TypeOK, StoreTypeOK
      <4> HIDE DEF n
      <4> QED BY <1>1, <2>1, <2>2, <2>7, <2>8, <3>3, <4>1
    <3> QED BY <3>1, <3>2, <3>3
  <2>10. ASSUME NEW s \in Req
         PROVE  snap[s][i] + Cardinality(UnderWay(i)') <= moved[i]
    BY <2>1, <2>2, <2>7
  <2> QED BY <2>7, <2>9, <2>10
<1> QED BY <1>3, <1>4 DEF RecordItem, Doubt, histVars

(* The other steps of a receipt, and whoever else acts.                     *)
LEMMA RecordsStep ==
  ASSUME TypeOK, HandlesMissing, RecordsCovered, [Next]_vars
  PROVE  RecordsCovered'
<1> USE DEF TypeOK, CallTypeOK
<1>1. CASE \E r \in Req : AdjustStock(r) \/ RecordItem(r)
  BY <1>1, CoveredByAdjusting, CoveredByRecording
<1>2. ASSUME NEW r \in Req, ListItems(r)
      PROVE  RecordsCovered'
  <2>1. UNCHANGED <<received, moved, item>>
    BY <1>2 DEF ListItems, orderVars, histVars
  <2>2. \A s \in Req : /\ snap'[s] = snap[s] \/ snap'[s] = received
                       /\ pc'[s] \in {"unlock", "record"} => pc'[s] = pc[s] /\ snap'[s] = snap[s]
    BY <1>2 DEF ListItems, Goto, histVars
  <2> QED BY <2>1, <2>2, CoveredWithout
<1>3. ASSUME NEW r \in Req, NEW i \in Item, TakeItem(r, i)
      PROVE  RecordsCovered'
  <2>1. UNCHANGED <<received, moved, snap>>
    BY <1>3 DEF TakeItem, orderVars, histVars
  <2>2. \A s \in Req : pc'[s] \in {"unlock", "record"} => pc'[s] = pc[s] /\ item'[s] = item[s]
    BY <1>3 DEF TakeItem, Goto, histVars
  <2> QED BY <2>1, <2>2, CoveredWithout
<1>4. ASSUME NEW r \in Req, LockItem(r) \/ UnlockItem(r)
      PROVE  RecordsCovered'
  <2>1. UNCHANGED <<received, moved, snap, item>>
    BY <1>4 DEF LockItem, UnlockItem, orderVars, loopVars, histVars
  <2>2. \A s \in Req : pc'[s] \in {"unlock", "record"} => pc[s] \in {"unlock", "record"}
    BY <1>4 DEF LockItem, UnlockItem, Goto, histVars
  <2> QED BY <2>1, <2>2, CoveredWithout
<1>5. CASE \/ \E o \in Order : CreatePurchaseOrder(o) \/ CreatePurchaseOrderReturns(o)
           \/ \E i \in Item : CreatePurchaseOrderItem(i)
           \/ \E o \in Order, word \in AnyWord : BatchStatusChange(o, word)
           \/ \E q \in Inspection, o \in Order : CreateInspection(q, o)
           \/ \E q \in Inspection : AddInspectionItem(q)
           \/ \E r \in Req : \/ Start(r) \/ ListInspectionItems(r) \/ SaveVerdict(r)
                             \/ MarkInspecting(r) \/ \E i \in Item : SkipItem(r, i)
                             \/ FinishOrder(r) \/ LockReplyLost(r) \/ Crash(r)
           \/ \E l \in Loc : LockExpires(l)
           \/ UNCHANGED vars
  <2>1. UNCHANGED <<received, moved, snap, item>>
    BY <1>5 DEF CreatePurchaseOrder, CreatePurchaseOrderReturns, CreatePurchaseOrderItem,
           BatchStatusChange, CreateInspection, AddInspectionItem, Start, StartReceive, StartInspectedReceive,
           StartComplete, StartAutoReceive, ListInspectionItems, SaveVerdict,
           MarkInspecting, SkipItem, FinishOrder, LockReplyLost, Crash, LockExpires,
           orderVars, loopVars, vars, SetStatus, histVars
  <2>2. \A s \in Req : pc'[s] \in {"unlock", "record"} => pc'[s] = pc[s]
    <3>1. ASSUME NEW r \in Req, Start(r)
          PROVE  \A s \in Req : pc'[s] \in {"unlock", "record"} => pc'[s] = pc[s]
      BY <3>1 DEF Start, StartReceive, StartInspectedReceive, StartComplete, StartAutoReceive, Goto, histVars
    <3>2. ASSUME NEW r \in Req, ListInspectionItems(r) \/ SaveVerdict(r) \/ MarkInspecting(r)
          PROVE  \A s \in Req : pc'[s] \in {"unlock", "record"} => pc'[s] = pc[s]
      BY <3>2 DEF ListInspectionItems, SaveVerdict, MarkInspecting, Goto, SetStatus, histVars
    <3>3. ASSUME NEW r \in Req,
                 (\E i \in Item : SkipItem(r, i)) \/ FinishOrder(r) \/ LockReplyLost(r) \/ Crash(r)
          PROVE  \A s \in Req : pc'[s] \in {"unlock", "record"} => pc'[s] = pc[s]
      BY <3>3 DEF SkipItem, FinishOrder, LockReplyLost, Crash, Goto, SetStatus, histVars
    <3>4. CASE \/ \E o \in Order : CreatePurchaseOrder(o) \/ CreatePurchaseOrderReturns(o)
               \/ \E i \in Item : CreatePurchaseOrderItem(i)
               \/ \E o \in Order, word \in AnyWord : BatchStatusChange(o, word)
               \/ \E q \in Inspection, o \in Order : CreateInspection(q, o)
               \/ \E q \in Inspection : AddInspectionItem(q)
               \/ \E l \in Loc : LockExpires(l)
               \/ UNCHANGED vars
      BY <3>4 DEF CreatePurchaseOrder, CreatePurchaseOrderReturns, CreatePurchaseOrderItem,
             BatchStatusChange, CreateInspection, AddInspectionItem, LockExpires, vars, histVars
    <3> QED BY <1>5, <3>1, <3>2, <3>3, <3>4
  <2> QED BY <2>1, <2>2, CoveredWithout
<1> QED BY <1>1, <1>2, <1>3, <1>4, <1>5 DEF Next, Step

(***************************************************************************)
(* The record never runs ahead of the stock: an absolute value written     *)
(* from an old snapshot and an increment written meanwhile are both        *)
(* covered, because either was moved before and nobody else records it.    *)
(***************************************************************************)
THEOREM RecordsAreStocked == Spec => []RecordedMeansStocked
<1>1. Init => RecordsCovered
  <2> SUFFICES ASSUME Init, NEW i \in Item
               PROVE  /\ IsFiniteSet(UnderWay(i))
                      /\ received[i] + Cardinality(UnderWay(i)) <= moved[i]
                      /\ \A r \in Req : snap[r][i] + Cardinality(UnderWay(i)) <= moved[i]
    BY DEF RecordsCovered
  <2>1. UnderWay(i) = {}
    BY DEF Init, UnderWay, Recording
  <2>2. received[i] = 0 /\ moved[i] = 0 /\ \A r \in Req : snap[r][i] = 0
    BY DEF Init
  <2> QED BY <2>1, <2>2, FS_EmptySet
<1>2. Init => TypeOK /\ HandlesMissing
  BY InitReceiptInv DEF ReceiptInv
<1>3. TypeOK /\ HandlesMissing /\ RecordsCovered /\ [Next]_vars
        => (TypeOK /\ HandlesMissing /\ RecordsCovered)'
  BY StoreTypeStep, CallTypeStep, HandlesStep, RecordsStep DEF TypeOK
<1>4. TypeOK /\ RecordsCovered => RecordedMeansStocked
  <2> SUFFICES ASSUME TypeOK, RecordsCovered, NEW i \in Item
               PROVE  received[i] <= moved[i]
    BY DEF RecordedMeansStocked
  <2>1. Cardinality(UnderWay(i)) \in Nat /\ received[i] + Cardinality(UnderWay(i)) <= moved[i]
    BY FS_CardinalityType DEF RecordsCovered
  <2>2. received[i] \in Nat /\ moved[i] \in Nat
    BY DEF TypeOK, StoreTypeOK
  <2> QED BY <2>1, <2>2
<1> QED BY <1>1, <1>2, <1>3, <1>4, PTL DEF Spec

-----------------------------------------------------------------------------
(* A step is one of the four that write what RecordIsExact speaks of, or    *)
(* takes no request into its loop and writes nothing of it.                 *)
LEMMA OnlyWriters ==
  ASSUME TypeOK, [Next]_vars
  PROVE  \/ \E r \in Req : \/ ListItems(r) \/ AdjustStock(r) \/ RecordItem(r) \/ Crash(r)
                           \/ \E i \in Item : SkipItem(r, i) \/ TakeItem(r, i)
                           \/ LockItem(r) \/ UnlockItem(r)
         \/ /\ UNCHANGED <<received, moved, snap, todo, item, doubtful>>
            /\ \A s \in Req : pc'[s] # pc[s] => pc'[s] \notin InLoop /\ pc[s] \notin {"unlock", "record"}
<1> USE DEF TypeOK, CallTypeOK
<1>1. ASSUME NEW r \in Req, Start(r)
      PROVE  /\ UNCHANGED <<received, moved, snap, todo, item, doubtful>>
             /\ \A s \in Req : pc'[s] # pc[s] => pc'[s] \notin InLoop /\ pc[s] \notin {"unlock", "record"}
  <2>1. UNCHANGED <<received, moved, snap, todo, item, doubtful>>
    BY <1>1 DEF Start, StartReceive, StartInspectedReceive, StartComplete, StartAutoReceive,
                orderVars, loopVars, histVars
  <2>2. \A s \in Req : pc'[s] # pc[s] => pc'[s] \notin InLoop /\ pc[s] \notin {"unlock", "record"}
    BY <1>1 DEF Start, StartReceive, StartInspectedReceive, StartComplete, StartAutoReceive,
                Goto, InLoop
  <2> QED BY <2>1, <2>2
<1>2. ASSUME NEW r \in Req,
             ListInspectionItems(r) \/ SaveVerdict(r) \/ MarkInspecting(r) \/ FinishOrder(r)
      PROVE  /\ UNCHANGED <<received, moved, snap, todo, item, doubtful>>
             /\ \A s \in Req : pc'[s] # pc[s] => pc'[s] \notin InLoop /\ pc[s] \notin {"unlock", "record"}
  BY <1>2 DEF ListInspectionItems, SaveVerdict, MarkInspecting, FinishOrder, Goto, InLoop,
              orderVars, loopVars, histVars
<1>3. CASE \/ \E o \in Order : CreatePurchaseOrder(o) \/ CreatePurchaseOrderReturns(o)
           \/ \E i \in Item : CreatePurchaseOrderItem(i)
           \/ \E o \in Order, word \in AnyWord : BatchStatusChange(o, word)
           \/ \E q \in Inspection, o \in Order : CreateInspection(q, o)
           \/ \E q \in Inspection : AddInspectionItem(q)
           \/ \E r \in Req : LockReplyLost(r)
           \/ \E l \in Loc : LockExpires(l)
           \/ UNCHANGED vars
  BY <1>3 DEF CreatePurchaseOrder, CreatePurchaseOrderReturns, CreatePurchaseOrderItem,
         BatchStatusChange, CreateInspection, AddInspectionItem, LockReplyLost, LockExpires,
         orderVars, loopVars, histVars, vars
<1> QED BY <1>1, <1>2, <1>3 DEF Next, Step

(* Who handles or records an item after a step did so before, with the same *)
(* snapshot, and the item's books are as they were: the record stays exact. *)
LEMMA ExactWithout ==
  ASSUME NEW i \in Item, RecordIsExact(i),
         received'[i] = received[i], moved'[i] = moved[i],
         \A s \in Req : Handles(s, i)' => Handles(s, i) /\ snap'[s] = snap[s],
         Recording(i)' = Recording(i)
  PROVE  RecordIsExact(i)'
BY DEF RecordIsExact

(* Listing items: who finds one that another request handles casts doubt on *)
(* it, so of the others the lister is the only one, and has read its record.*)
LEMMA ExactListing ==
  ASSUME TypeOK, NEW r \in Req, ListItems(r), NEW i \in Item \ doubtful', RecordIsExact(i)
  PROVE  RecordIsExact(i)'
<1> USE DEF TypeOK, CallTypeOK
<1>1. UNCHANGED <<received, moved, item>> /\ snap'[r] = received
  BY DEF ListItems, orderVars
<1>2. \A s \in Req \ {r} : pc'[s] = pc[s] /\ todo'[s] = todo[s] /\ snap'[s] = snap[s]
  BY DEF ListItems, Goto
<1>3. pc[r] = "list" /\ pc'[r] = "loop"
  BY DEF ListItems, Goto
<1>4. Recording(i)' = Recording(i)
  BY <1>1, <1>2, <1>3 DEF Recording
<1>5. \A s \in Req \ {r} : Handles(s, i)' => Handles(s, i)
  BY <1>2 DEF Handles, Missing
<1>6. CASE i \in todo'[r]
  <2>1. \A s \in Req : ~Handles(s, i)
    BY <1>6 DEF ListItems
  <2>2. \A s \in Req : Handles(s, i)' => s = r
    BY <1>5, <2>1
  <2> QED BY <1>1, <1>4, <2>2 DEF RecordIsExact
<1>7. CASE i \notin todo'[r]
  <2>1. ~Handles(r, i)'
    BY <1>7 DEF Handles
  <2> QED BY <1>1, <1>2, <1>4, <1>5, <2>1, ExactWithout
<1> QED BY <1>6, <1>7

(* Bringing an item in: the one request that handles it read its record,    *)
(* and nobody is recording it, so it is in stock in full now.               *)
LEMMA ExactAdjusting ==
  ASSUME TypeOK, HandlesMissing, NEW r \in Req, AdjustStock(r), NEW i \in Item \ doubtful',
         RecordIsExact(i)
  PROVE  RecordIsExact(i)'
<1> USE DEF TypeOK, StoreTypeOK, CallTypeOK
<1>1. UNCHANGED <<received, snap, item, todo>> /\ pc[r] = "adjust"
  BY DEF AdjustStock, orderVars, loopVars
<1>2. \A s \in Req \ {r} : pc'[s] = pc[s]
  BY DEF AdjustStock, Goto
<1>3. pc'[r] \in {"unlock", "unlockErr"}
  BY DEF AdjustStock, Goto
<1>4. item[r] \in todo[r] /\ Missing(r, item[r]) \in Nat /\ Missing(r, item[r]) > 0
  BY <1>1, HandledItem
<1>5. \A s \in Req : Handles(s, i)' => Handles(s, i)
  BY <1>1, <1>2, <1>3 DEF Handles, Missing, InLoop
<1>6. CASE item[r] # i \/ (UNCHANGED moved /\ pc'[r] = "unlockErr")
  <2>1. Recording(i)' = Recording(i)
    BY <1>1, <1>2, <1>6 DEF Recording
  <2>2. moved'[i] = moved[i]
    BY <1>6 DEF AdjustStock
  <2> QED BY <1>1, <1>5, <2>1, <2>2, ExactWithout
<1>7. CASE item[r] = i /\ pc'[r] = "unlock"
  <2>1. Handles(r, i)
    BY <1>1, <1>4, <1>7 DEF Handles, InLoop
  <2>2. \A s \in Recording(i) : Handles(s, i)
    BY DEF Recording, Handles, HandlesMissing, InLoop
  <2>3. Recording(i) = {}
    BY <1>1, <2>1, <2>2 DEF RecordIsExact, Recording
  <2>4. moved[i] = received[i] /\ snap[r][i] = received[i]
    BY <2>1, <2>3 DEF RecordIsExact
  <2>5. moved'[i] = moved[i] + Missing(r, i)
    BY <1>3, <1>7 DEF AdjustStock, Goto
  <2>6. moved'[i] = Ordered[i]
    BY <2>4, <2>5, ReceiptAssumption DEF Missing
  <2>7. r \in Recording(i)'
    BY <1>1, <1>7 DEF Recording
  <2> QED BY <1>1, <1>5, <2>6, <2>7 DEF RecordIsExact
<1>8. item[r] # i \/ (UNCHANGED moved /\ pc'[r] = "unlockErr") \/ pc'[r] = "unlock"
  BY <1>3 DEF AdjustStock, Doubt, Goto
<1> QED BY <1>6, <1>7, <1>8

(* Recording an item: it is in stock in full, and both ways of writing the  *)
(* record come to that from a snapshot that is still exact.                 *)
LEMMA ExactRecording ==
  ASSUME TypeOK, HandlesMissing, NEW r \in Req, RecordItem(r), NEW i \in Item \ doubtful',
         RecordIsExact(i)
  PROVE  RecordIsExact(i)'
<1> USE DEF TypeOK, StoreTypeOK, CallTypeOK
<1>1. UNCHANGED <<moved, snap, item>> /\ pc[r] = "record" /\ pc'[r] = "loop"
  BY DEF RecordItem, Goto
<1>2. /\ \A s \in Req \ {r} : pc'[s] = pc[s] /\ todo'[s] = todo[s]
      /\ todo'[r] = todo[r] \ {item[r]}
  BY DEF RecordItem, Goto
<1>3. \A s \in Req : Handles(s, i)' => Handles(s, i)
  BY <1>1, <1>2 DEF Handles, Missing, InLoop
<1>4. CASE item[r] # i
  <2>1. Recording(i)' = Recording(i)
    BY <1>1, <1>2, <1>4 DEF Recording
  <2>2. received'[i] = received[i]
    BY <1>4 DEF RecordItem
  <2> QED BY <1>1, <1>3, <2>1, <2>2, ExactWithout
<1>5. CASE item[r] = i
  <2>1. r \in Recording(i) /\ \A s \in Recording(i) : Handles(s, i)
    BY <1>1, <1>5 DEF Recording, Handles, HandlesMissing, InLoop
  <2>2. \A s \in Req : Handles(s, i) => s = r
    BY <2>1 DEF RecordIsExact
  <2>3. snap[r][i] = received[i] /\ moved[i] = Ordered[i] /\ Handles(r, i)
    BY <2>1 DEF RecordIsExact, Recording
  <2>4. received'[i] = Ordered[i]
    BY <1>5, <2>3, ReceiptAssumption DEF RecordItem, Doubt, Missing
  <2>5. \A s \in Req : ~Handles(s, i)'
    BY <1>2, <1>3, <1>5, <2>2 DEF Handles
  <2>6. Recording(i)' = {}
    <3>1. Recording(i)' \subseteq Recording(i) \ {r}
      BY <1>1, <1>2 DEF Recording
    <3> QED BY <2>1, <2>2, <3>1 DEF Recording
  <2> QED BY <1>1, <2>3, <2>4, <2>5, <2>6, ReceiptAssumption DEF RecordIsExact
<1> QED BY <1>4, <1>5

(* Every step keeps the exact records exact.                                *)
LEMMA ExactStep ==
  ASSUME TypeOK, HandlesMissing, RecordsAreExact, [Next]_vars
  PROVE  RecordsAreExact'
<1> SUFFICES ASSUME NEW i \in Item \ doubtful'
             PROVE  RecordIsExact(i)'
  BY DEF RecordsAreExact
<1> USE DEF TypeOK, CallTypeOK
<1>1. i \notin doubtful
  <2>1. doubtful \subseteq doubtful'
    <3>1. CASE UNCHANGED doubtful
      BY <3>1
    <3>2. ASSUME NEW r \in Req, ListItems(r) \/ AdjustStock(r) \/ RecordItem(r) \/ Crash(r)
          PROVE  doubtful \subseteq doubtful'
      BY <3>2 DEF ListItems, AdjustStock, RecordItem, Crash, Doubt
    <3>3. ASSUME NEW r \in Req, \/ \E k \in Item : SkipItem(r, k) \/ TakeItem(r, k)
                                \/ LockItem(r) \/ UnlockItem(r)
          PROVE  UNCHANGED doubtful
      BY <3>3 DEF SkipItem, TakeItem, LockItem, UnlockItem, histVars
    <3> QED BY <3>1, <3>2, <3>3, OnlyWriters
  <2> QED BY <2>1
<1>2. RecordIsExact(i)
  BY <1>1 DEF RecordsAreExact
<1>3. ASSUME NEW r \in Req, ListItems(r) \/ AdjustStock(r) \/ RecordItem(r)
      PROVE  RecordIsExact(i)'
  BY <1>2, <1>3, ExactListing, ExactAdjusting, ExactRecording
<1>4. ASSUME NEW r \in Req, Crash(r)
      PROVE  RecordIsExact(i)'
  <2>1. UNCHANGED <<received, moved, snap, todo, item>>
    BY <1>4 DEF Crash, orderVars, loopVars
  <2>2. pc'[r] = "dead" /\ \A s \in Req \ {r} : pc'[s] = pc[s]
    BY <1>4 DEF Crash, Goto
  <2>3. \A s \in Req : Handles(s, i)' => Handles(s, i)
    BY <2>1, <2>2 DEF Handles, Missing, InLoop
  <2>4. Recording(i)' = Recording(i)
    <3>1. ~(pc[r] \in {"unlock", "record"} /\ item[r] = i)
      BY <1>4 DEF Crash
    <3> QED BY <2>1, <2>2, <3>1 DEF Recording
  <2> QED BY <1>2, <2>1, <2>3, <2>4, ExactWithout
<1>5. ASSUME NEW r \in Req, NEW k \in Item, SkipItem(r, k)
      PROVE  RecordIsExact(i)'
  <2>1. UNCHANGED <<received, moved, snap, item, pc>>
    BY <1>5 DEF SkipItem, orderVars, histVars
  <2>2. \A s \in Req : todo'[s] \subseteq todo[s]
    BY <1>5 DEF SkipItem
  <2>3. \A s \in Req : Handles(s, i)' => Handles(s, i)
    BY <2>1, <2>2 DEF Handles, Missing
  <2>4. Recording(i)' = Recording(i)
    BY <2>1 DEF Recording
  <2> QED BY <1>2, <2>1, <2>3, <2>4, ExactWithout
<1>6. ASSUME NEW r \in Req, NEW k \in Item, TakeItem(r, k)
      PROVE  RecordIsExact(i)'
  <2>1. UNCHANGED <<received, moved, snap, todo>>
    BY <1>6 DEF TakeItem, orderVars, histVars
  <2>2. /\ pc[r] = "loop" /\ pc'[r] = "lock"
        /\ \A s \in Req \ {r} : pc'[s] = pc[s] /\ item'[s] = item[s]
    BY <1>6 DEF TakeItem, Goto
  <2>3. \A s \in Req : Handles(s, i)' => Handles(s, i)
    BY <2>1, <2>2 DEF Handles, Missing, InLoop
  <2>4. Recording(i)' = Recording(i)
    BY <2>2 DEF Recording
  <2> QED BY <1>2, <2>1, <2>3, <2>4, ExactWithout
<1>7. ASSUME NEW r \in Req, LockItem(r) \/ UnlockItem(r)
      PROVE  RecordIsExact(i)'
  <2>1. UNCHANGED <<received, moved, snap, todo, item>>
    BY <1>7 DEF LockItem, UnlockItem, orderVars, loopVars, histVars
  <2>2. /\ \A s \in Req \ {r} : pc'[s] = pc[s]
        /\ pc[r] \in InLoop
        /\ pc'[r] \in {"unlock", "record"} <=> pc[r] \in {"unlock", "record"}
    BY <1>7 DEF LockItem, UnlockItem, Goto, InLoop
  <2>3. \A s \in Req : Handles(s, i)' => Handles(s, i)
    BY <2>1, <2>2 DEF Handles, Missing
  <2>4. Recording(i)' = Recording(i)
    BY <2>1, <2>2 DEF Recording
  <2> QED BY <1>2, <2>1, <2>3, <2>4, ExactWithout
<1>8. CASE /\ UNCHANGED <<received, moved, snap, todo, item, doubtful>>
           /\ \A s \in Req : pc'[s] # pc[s] => pc'[s] \notin InLoop /\ pc[s] \notin {"unlock", "record"}
  <2>1. \A s \in Req : Handles(s, i)' => Handles(s, i)
    BY <1>8 DEF Handles, Missing, InLoop
  <2>2. Recording(i)' = Recording(i)
    BY <1>8 DEF Recording, InLoop
  <2> QED BY <1>2, <1>8, <2>1, <2>2, ExactWithout
<1> QED BY <1>3, <1>4, <1>5, <1>6, <1>7, <1>8, OnlyWriters

(***************************************************************************)
(* Receiving is idempotent: an item is in stock beyond what was ordered    *)
(* only after two receipts overlapped on it or the record of one was lost, *)
(* however often and by whichever entry point the order is received.       *)
(***************************************************************************)
THEOREM OverstockIsExplained == Spec => []OverstockHasCause
<1>1. Init => RecordsAreExact
  BY ReceiptAssumption DEF Init, RecordsAreExact, RecordIsExact, Handles, Recording, InLoop
<1>2. Init => TypeOK /\ HandlesMissing
  BY InitReceiptInv DEF ReceiptInv
<1>3. TypeOK /\ HandlesMissing /\ RecordsAreExact /\ [Next]_vars
        => (TypeOK /\ HandlesMissing /\ RecordsAreExact)'
  BY StoreTypeStep, CallTypeStep, HandlesStep, ExactStep DEF TypeOK
<1>4. TypeOK /\ RecordsAreExact => OverstockHasCause
  <2> SUFFICES ASSUME TypeOK, RecordsAreExact, NEW i \in Item \ doubtful
               PROVE  ~(moved[i] > Ordered[i])
    BY DEF OverstockHasCause
  <2>1. /\ received[i] <= Ordered[i]
        /\ moved[i] = IF Recording(i) # {} THEN Ordered[i] ELSE received[i]
    BY DEF RecordsAreExact, RecordIsExact
  <2>2. received[i] \in Nat /\ Ordered[i] \in Nat
    BY ReceiptAssumption DEF TypeOK, StoreTypeOK
  <2> QED BY <2>1, <2>2
<1> QED BY <1>1, <1>2, <1>3, <1>4, PTL DEF Spec

-----------------------------------------------------------------------------
(***************************************************************************)
(* Only AdjustStock touches the rows, the quantities and the history of    *)
(* what moved, and it adds as much to the row as to moved: what the item   *)
(* at hand lacks.                                                          *)
(***************************************************************************)
LEMMA StockMoves ==
  ASSUME TypeOK, HandlesMissing, [Next]_vars, ~ UNCHANGED <<stock, rows, moved>>
  PROVE  \E r \in Req :
           /\ item[r] \in Item /\ Place(r) \in Loc /\ Missing(r, item[r]) \in 1 .. Ordered[item[r]]
           /\ rows' = rows \cup {Place(r)}
           /\ stock' = [stock EXCEPT ![Place(r)] = @ + Missing(r, item[r])]
           /\ moved' = [moved EXCEPT ![item[r]] = @ + Missing(r, item[r])]
<1>1. PICK r \in Req : AdjustStock(r)
  BY DEF Next, Start, Step, vars, inventoryVars, CreatePurchaseOrder, CreatePurchaseOrderReturns,
         CreatePurchaseOrderItem, BatchStatusChange, CreateInspection, AddInspectionItem,
         StartReceive, StartInspectedReceive, StartComplete, StartAutoReceive,
         ListInspectionItems, SaveVerdict, MarkInspecting, ListItems, SkipItem, TakeItem,
         LockItem, LockReplyLost, UnlockItem, RecordItem, FinishOrder, Crash, LockExpires, SetStatus, Doubt, histVars
<1>2. item[r] \in Item /\ Missing(r, item[r]) \in Nat /\ Missing(r, item[r]) > 0
  BY <1>1, HandledItem DEF AdjustStock, Doubt, histVars
<1>3. wh[r] \in Warehouse /\ snap[r][item[r]] \in Nat /\ Ordered[item[r]] \in Nat
  BY <1>2, ReceiptAssumption DEF TypeOK, CallTypeOK
<1>4. Missing(r, item[r]) \in 1 .. Ordered[item[r]]
  BY <1>2, <1>3 DEF Missing
<1>5. Place(r) \in Loc
  BY <1>2, <1>3, ReceiptAssumption DEF Place, Loc
<1>6. \/ /\ AdjustQuantity(Place(r), Missing(r, item[r]))
         /\ moved' = [moved EXCEPT ![item[r]] = @ + Missing(r, item[r])]
      \/ UNCHANGED <<stock, rows, moved>>
  BY <1>1 DEF AdjustStock, inventoryVars, Doubt, histVars
<1> QED BY <1>2, <1>4, <1>5, <1>6 DEF AdjustQuantity

(***************************************************************************)
(* Goods are conserved: for every material, what the warehouses hold is    *)
(* what receipts moved of its items, whichever of the two entry points     *)
(* they used, whatever races, crashes and lost replies there were.         *)
(***************************************************************************)
Balance(m) == SumOver(stock, PlacesOf(m)) = SumOver(moved, ItemsOfMaterial(m))

(* A step keeps the balance of a material.                                  *)
LEMMA BalanceStep ==
  ASSUME TypeOK, HandlesMissing, [Next]_vars, NEW m \in Material, Balance(m)
  PROVE  Balance(m)'
<1>1. CASE UNCHANGED <<stock, rows, moved>>
  BY <1>1 DEF Balance
<1>2. CASE ~ UNCHANGED <<stock, rows, moved>>
  <2>1. PICK r \in Req :
          /\ item[r] \in Item /\ Place(r) \in Loc /\ Missing(r, item[r]) \in 1 .. Ordered[item[r]]
          /\ stock' = [stock EXCEPT ![Place(r)] = @ + Missing(r, item[r])]
          /\ moved' = [moved EXCEPT ![item[r]] = @ + Missing(r, item[r])]
    BY <1>2, StockMoves
  <2> DEFINE d == Missing(r, item[r])
  <2>2. item[r] \in Item /\ d \in Int /\ Place(r) \in Loc
    <3>1. item[r] \in Item /\ Missing(r, item[r]) \in Int
      BY <2>1, MissingType
    <3> QED BY <2>1, <3>1
  <2>3. (Place(r)[2] = m <=> item[r] \in ItemsOfMaterial(m)) /\ ItemsOfMaterial(m) \in SUBSET Item
    BY <2>2 DEF Place, ItemsOfMaterial
  <2>4. stock \in [Loc -> Int] /\ moved \in [Item -> Int]
    BY DEF TypeOK, StoreTypeOK, InventoryTypeOK
  <2>5. /\ stock' = [stock EXCEPT ![Place(r)] = @ + d]
        /\ moved' = [moved EXCEPT ![item[r]] = @ + d]
    BY <2>1
  <2> HIDE DEF d
  <2>6. /\ SumOver(stock, PlacesOf(m)) \in Int /\ SumOver(stock', PlacesOf(m)) \in Int
        /\ Place(r)[2] = m => SumOver(stock', PlacesOf(m)) = SumOver(stock, PlacesOf(m)) + d
        /\ Place(r)[2] # m => SumOver(stock', PlacesOf(m)) = SumOver(stock, PlacesOf(m))
    BY <2>2, <2>4, <2>5, AdjustingPlaces, ReceiptAssumption
  <2>7. /\ SumOver(moved, ItemsOfMaterial(m)) \in Int /\ SumOver(moved', ItemsOfMaterial(m)) \in Int
        /\ item[r] \in ItemsOfMaterial(m)
             => SumOver(moved', ItemsOfMaterial(m)) = SumOver(moved, ItemsOfMaterial(m)) + d
        /\ item[r] \notin ItemsOfMaterial(m)
             => SumOver(moved', ItemsOfMaterial(m)) = SumOver(moved, ItemsOfMaterial(m))
    <3>1. IsFiniteSet(ItemsOfMaterial(m))
      BY <2>3, FS_Subset, ReceiptAssumption
    <3> DEFINE S == ItemsOfMaterial(m)
               i == item[r]
               g == moved'
    <3>2. /\ \A z \in S : moved[z] \in Int /\ g[z] \in Int
          /\ \A z \in S \ {i} : g[z] = moved[z]
          /\ i \in S => g[i] = moved[i] + d
      BY <2>2, <2>3, <2>4, <2>5
    <3> HIDE DEF S, i, g
    <3>3. IsFiniteSet(S)
      BY <3>1 DEF S
    <3>4. /\ SumOver(moved, S) \in Int /\ SumOver(g, S) \in Int
          /\ i \in S => SumOver(g, S) = SumOver(moved, S) + (g[i] - moved[i])
          /\ i \notin S => SumOver(g, S) = SumOver(moved, S)
      BY <3>2, <3>3, SumOverAdjusted
    <3>5. i \in S => g[i] - moved[i] = d
      BY <2>2, <3>2
    <3> QED BY <3>4, <3>5 DEF S, i, g
  <2> QED BY <2>3, <2>6, <2>7 DEF Balance
<1> QED BY <1>1, <1>2

(* What the warehouses hold of a material is what receipts moved of it.     *)
THEOREM GoodsAreConserved == Spec => []GoodsConserved
<1> DEFINE Inv == \A m \in Material : Balance(m)
<1>1. Init => Inv
  <2> SUFFICES ASSUME Init, NEW m \in Material
               PROVE  Balance(m)
    OBVIOUS
  <2>1. IsFiniteSet(ItemsOfMaterial(m)) /\ IsFiniteSet(PlacesOf(m))
    BY ReceiptAssumption, FS_Subset DEF ItemsOfMaterial, PlacesOf
  <2>2. /\ \A l \in PlacesOf(m) : stock[l] = 0
        /\ \A i \in ItemsOfMaterial(m) : moved[i] = 0
    BY DEF Init, InventoryInit, PlacesOf, ItemsOfMaterial
  <2>3. SumOver(stock, PlacesOf(m)) = 0 /\ SumOver(moved, ItemsOfMaterial(m)) = 0
    BY <2>1, <2>2, SumOverZero
  <2> QED BY <2>3 DEF Balance
<1>2. Init => TypeOK /\ HandlesMissing
  BY InitReceiptInv DEF ReceiptInv
<1>3. TypeOK /\ HandlesMissing /\ [Next]_vars => (TypeOK /\ HandlesMissing)'
  BY StoreTypeStep, CallTypeStep, HandlesStep DEF TypeOK
<1>4. TypeOK /\ HandlesMissing /\ Inv /\ [Next]_vars => Inv'
  BY BalanceStep
<1>5. Inv => GoodsConserved
  BY DEF Balance, GoodsConserved
<1> HIDE DEF Inv
<1> QED BY <1>1, <1>2, <1>3, <1>4, <1>5, PTL DEF Spec

(***************************************************************************)
(* For every material the order books show no more received than receipts  *)
(* put on the shelves: what RecordedMeansStocked says of each item holds   *)
(* of the warehouses as a whole.                                           *)
(***************************************************************************)
BooksBehindShelves ==
  \A m \in Material : SumOver(received, ItemsOfMaterial(m)) <= SumOver(stock, PlacesOf(m))

THEOREM BooksAreCovered == Spec => []BooksBehindShelves
<1>1. TypeOK /\ RecordedMeansStocked /\ GoodsConserved => BooksBehindShelves
  <2> SUFFICES ASSUME TypeOK, RecordedMeansStocked, GoodsConserved, NEW m \in Material
               PROVE  SumOver(received, ItemsOfMaterial(m)) <= SumOver(stock, PlacesOf(m))
    BY DEF BooksBehindShelves
  <2>1. IsFiniteSet(ItemsOfMaterial(m)) /\ ItemsOfMaterial(m) \in SUBSET Item
    BY ReceiptAssumption, FS_Subset DEF ItemsOfMaterial
  <2>2. \A i \in ItemsOfMaterial(m) : received[i] \in Int /\ moved[i] \in Int /\ received[i] <= moved[i]
    BY <2>1 DEF TypeOK, StoreTypeOK, RecordedMeansStocked
  <2>3. SumOver(received, ItemsOfMaterial(m)) <= SumOver(moved, ItemsOfMaterial(m))
    BY <2>1, <2>2, SumOverAtMost
  <2> QED BY <2>3 DEF GoodsConserved
<1> QED BY <1>1, ReceiptTypeOK, RecordsAreStocked, GoodsAreConserved, PTL

(***************************************************************************)
(* Receipts implement the ledger of GoodsLedger: each step delivers what   *)
(* an item lacks onto one shelf, or leaves the shelves as they are.        *)
(***************************************************************************)
THEOREM ReceiptsKeepTheLedger == Spec => LedgerKept
<1>1. Init => Ledger!Init
  <2>1. <<>> = [c \in {} |-> <<>>]
    OBVIOUS
  <2> QED BY <2>1 DEF Init, InventoryInit, Ledger!Init
<1>2. TypeOK /\ HandlesMissing /\ [Next]_vars => [Ledger!Next]_Ledger!ledgerVars
  <2> SUFFICES ASSUME TypeOK, HandlesMissing, [Next]_vars
               PROVE  [Ledger!Next]_Ledger!ledgerVars
    OBVIOUS
  <2>1. CASE UNCHANGED <<stock, rows, moved>>
    BY <2>1 DEF Ledger!ledgerVars
  <2>2. CASE ~ UNCHANGED <<stock, rows, moved>>
    <3>1. PICK r \in Req :
            /\ item[r] \in Item /\ Place(r) \in Loc /\ Missing(r, item[r]) \in 1 .. Ordered[item[r]]
            /\ rows' = rows \cup {Place(r)}
            /\ stock' = [stock EXCEPT ![Place(r)] = @ + Missing(r, item[r])]
      BY <2>2, StockMoves
    <3>2. Ledger!Deliver(Place(r), Missing(r, item[r]))
      BY <3>1 DEF Ledger!Deliver
    <3>3. Missing(r, item[r]) \in UNION {1 .. Ordered[i] : i \in Item}
      BY <3>1
    <3> QED BY <3>1, <3>2, <3>3 DEF Ledger!Next
  <2> QED BY <2>1, <2>2
<1>3. Init => TypeOK /\ HandlesMissing
  BY InitReceiptInv DEF ReceiptInv
<1>4. TypeOK /\ HandlesMissing /\ [Next]_vars => (TypeOK /\ HandlesMissing)'
  BY StoreTypeStep, CallTypeStep, HandlesStep DEF TypeOK
<1> QED BY <1>1, <1>2, <1>3, <1>4, PTL DEF Spec, LedgerKept, Ledger!Spec

=============================================================================
