------------------------ MODULE StockMovement_proofs -------------------------
(***************************************************************************)
(* Proofs about StockMovement for any number of requests, transfers,       *)
(* requisitions, warehouses and materials, any quantities, with and without*)
(* crashes, Redis faults and failing statements.                           *)
(***************************************************************************)

EXTENDS StockMovement, Inventory_proofs

(***************************************************************************)
(* A call executes a document of its own kind, with a quantity a user may  *)
(* enter; what is asked before the document is read does not matter.       *)
(***************************************************************************)
CallsKnowDoc ==
  \A r \in Req :
    /\ pc[r] \in TransferSteps => doc[r] \in Transfer /\ qty[r] \in Quantity
    /\ pc[r] \in IssueSteps => doc[r] \in Requisition /\ qty[r] \in Quantity

(***************************************************************************)
(* Goods are on the road exactly between the two updates of a transfer, or *)
(* for ever after its death; a request loses goods at most once, and never *)
(* has lost and carried goods together.                                    *)
(***************************************************************************)
GoodsFollowCall ==
  /\ carrying \cap lost = {}
  /\ \A r \in Req :
       /\ pc[r] \in {"lockTgt", "putTgt", "putBack"} => r \in carrying
       /\ r \in carrying => pc[r] \in {"lockTgt", "putTgt", "putBack", "dead"}
       /\ r \in lost => pc[r] \in {"freeTgt", "freeSrc", "freeSrcErr", "save"} \cup Ended

(***************************************************************************)
(* A key with the value of a request is the key of a section that request is*)
(* in: of its source from the first lock on, of its target as well while the*)
(* goods are put there, or of any section a dead request was in.           *)
(***************************************************************************)
KeyHasUser ==
  \A r \in Req, l \in Loc : lockKey[l] = r =>
    \/ /\ pc[r] \in {"takeSrc", "lockTgt", "putBack", "freeSrc", "freeSrcErr"}
       /\ l = Src(r)
    \/ pc[r] \in {"putTgt", "freeTgt"} /\ l \in {Src(r), Tgt(r)}
    \/ pc[r] \in {"take", "freePlace", "freePlaceErr"} /\ l = Place(r)
    \/ pc[r] = "dead"

(***************************************************************************)
(* The places of a call's document are locations, those of a transfer of the*)
(* same material.                                                          *)
(***************************************************************************)
LEMMA Places ==
  ASSUME TypeOK, CallsKnowDoc, NEW r \in Req
  PROVE  /\ pc[r] \in TransferSteps =>
              /\ Src(r) \in Loc /\ Tgt(r) \in Loc /\ Src(r)[2] = Tgt(r)[2]
              /\ qty[r] \in Int /\ qty[r] \in Quantity
         /\ pc[r] \in IssueSteps =>
              Place(r) \in Loc /\ qty[r] \in Int /\ qty[r] \in Quantity
BY MovementAssumption DEF CallsKnowDoc, Src, Tgt, Place

(***************************************************************************)
(* Every step keeps the types of the stock, the documents and the calls.   *)
(***************************************************************************)
LEMMA TypeStep ==
  ASSUME TypeOK, CallsKnowDoc, [Next]_vars
  PROVE  TypeOK'
<1> USE MovementAssumption
    DEF TypeOK, InventoryTypeOK, Locks!LockTableTypeOK, Ended, TransferSteps,
        IssueSteps, Doc, inventoryVars
<1>1. ASSUME NEW r \in Req, NEW t \in Transfer, StartTransfer(r, t)
      PROVE  TypeOK'
  BY <1>1 DEF StartTransfer, Goto
<1>2. ASSUME NEW r \in Req, NEW d \in Requisition, NEW q \in Quantity, StartIssue(r, d, q)
      PROVE  TypeOK'
  BY <1>2 DEF StartIssue, Goto
<1>3. ASSUME NEW r \in Req, LockSource(r)
      PROVE  TypeOK'
  BY <1>3 DEF LockSource, Goto, Locks!Granted, Locks!Refused, Locks!SetNX
<1>4. ASSUME NEW r \in Req, TakeSource(r)
      PROVE  TypeOK'
  <2>1. Src(r) \in Loc /\ qty[r] \in Int
    BY <1>4, Places DEF TakeSource, TransferSteps
  <2>2. stock' \in [Loc -> Int] /\ rows' \in SUBSET Loc
    BY <1>4, <2>1 DEF TakeSource, AdjustQuantityWithCheck, AdjustQuantity
  <2> QED BY <1>4, <2>2 DEF TakeSource, Goto
<1>5. ASSUME NEW r \in Req, LockTarget(r)
      PROVE  TypeOK'
  BY <1>5 DEF LockTarget, Goto, Locks!Granted, Locks!Refused, Locks!SetNX
<1>6. ASSUME NEW r \in Req, PutTarget(r)
      PROVE  TypeOK'
  <2>1. Tgt(r) \in Loc /\ qty[r] \in Int
    BY <1>6, Places DEF PutTarget, TransferSteps
  <2>2. stock' \in [Loc -> Int] /\ rows' \in SUBSET Loc
    BY <1>6, <2>1 DEF PutTarget, PutAt, AdjustQuantity
  <2> QED BY <1>6, <2>2 DEF PutTarget, Goto, PutAt
<1>7. ASSUME NEW r \in Req, PutBack(r)
      PROVE  TypeOK'
  <2>1. Src(r) \in Loc /\ qty[r] \in Int
    BY <1>7, Places DEF PutBack, TransferSteps
  <2>2. stock' \in [Loc -> Int] /\ rows' \in SUBSET Loc
    BY <1>7, <2>1 DEF PutBack, PutAt, AdjustQuantity
  <2> QED BY <1>7, <2>2 DEF PutBack, Goto, PutAt
<1>8. ASSUME NEW r \in Req, FreeTarget(r)
      PROVE  TypeOK'
  BY <1>8 DEF FreeTarget, Goto, Locks!Released, Locks!Unlock
<1>9. ASSUME NEW r \in Req, FreeSource(r)
      PROVE  TypeOK'
  BY <1>9 DEF FreeSource, Goto, Locks!Released, Locks!Unlock
<1>10. ASSUME NEW r \in Req, SaveTransfer(r)
      PROVE  TypeOK'
  BY <1>10 DEF SaveTransfer, Goto
<1>11. ASSUME NEW r \in Req, LockPlace(r)
      PROVE  TypeOK'
  BY <1>11 DEF LockPlace, Goto, Locks!Granted, Locks!Refused, Locks!SetNX
<1>12. ASSUME NEW r \in Req, TakeForIssue(r)
      PROVE  TypeOK'
  <2>1. Place(r) \in Loc /\ qty[r] \in Int
    BY <1>12, Places DEF TakeForIssue, IssueSteps
  <2>2. stock' \in [Loc -> Int] /\ rows' \in SUBSET Loc
    BY <1>12, <2>1 DEF TakeForIssue, AdjustQuantityWithCheck, AdjustQuantity
  <2> QED BY <1>12, <2>2 DEF TakeForIssue, Goto
<1>13. ASSUME NEW r \in Req, FreePlace(r)
      PROVE  TypeOK'
  BY <1>13 DEF FreePlace, Goto, Locks!Released, Locks!Unlock
<1>14. ASSUME NEW r \in Req, SaveIssue(r)
      PROVE  TypeOK'
  BY <1>14 DEF SaveIssue, Goto
<1>15. ASSUME NEW r \in Req, LockReplyLost(r)
      PROVE  TypeOK'
  BY <1>15 DEF LockReplyLost, Locks!ReplyLost, Locks!SetNX
<1>16. ASSUME NEW r \in Req, Crash(r)
      PROVE  TypeOK'
  BY <1>16 DEF Crash, Goto, Active
<1>17. ASSUME NEW l \in Loc, NEW q \in Counts, SetInventory(l, q)
      PROVE  TypeOK'
  BY <1>17 DEF SetInventory, Upsert
<1>18. ASSUME NEW l \in Loc, LockExpires(l)
      PROVE  TypeOK'
  BY <1>18 DEF LockExpires, Locks!KeyExpires
<1>19. CASE UNCHANGED vars
  BY <1>19 DEF vars
<1> QED
  BY <1>1, <1>2, <1>3, <1>4, <1>5, <1>6, <1>7, <1>8, <1>9, <1>10, <1>11,
     <1>12, <1>13, <1>14, <1>15, <1>16, <1>17, <1>18, <1>19
  DEF Next, Step

(***************************************************************************)
(* A call keeps its document and quantity until it ends.                   *)
(***************************************************************************)
LEMMA DocStep ==
  ASSUME TypeOK, CallsKnowDoc, [Next]_vars
  PROVE  CallsKnowDoc'
<1> USE MovementAssumption
    DEF TypeOK, CallsKnowDoc, TransferSteps, IssueSteps, Ended
<1>1. ASSUME NEW r \in Req, NEW t \in Transfer, StartTransfer(r, t)
      PROVE  CallsKnowDoc'
  BY <1>1 DEF StartTransfer, Goto
<1>2. ASSUME NEW r \in Req, NEW d \in Requisition, NEW q \in Quantity, StartIssue(r, d, q)
      PROVE  CallsKnowDoc'
  BY <1>2 DEF StartIssue, Goto
<1>3. ASSUME NEW r \in Req, LockSource(r)
      PROVE  CallsKnowDoc'
  BY <1>3 DEF LockSource, Goto, Locks!Granted, Locks!Refused, Locks!SetNX
<1>4. ASSUME NEW r \in Req, TakeSource(r)
      PROVE  CallsKnowDoc'
  BY <1>4 DEF TakeSource, Goto, AdjustQuantityWithCheck, AdjustQuantity
<1>5. ASSUME NEW r \in Req, LockTarget(r)
      PROVE  CallsKnowDoc'
  BY <1>5 DEF LockTarget, Goto, Locks!Granted, Locks!Refused, Locks!SetNX
<1>6. ASSUME NEW r \in Req, PutTarget(r)
      PROVE  CallsKnowDoc'
  BY <1>6 DEF PutTarget, PutAt, AdjustQuantity, Goto
<1>7. ASSUME NEW r \in Req, PutBack(r)
      PROVE  CallsKnowDoc'
  BY <1>7 DEF PutBack, PutAt, AdjustQuantity, Goto
<1>8. ASSUME NEW r \in Req, FreeTarget(r)
      PROVE  CallsKnowDoc'
  BY <1>8 DEF FreeTarget, Goto, Locks!Released, Locks!Unlock
<1>9. ASSUME NEW r \in Req, FreeSource(r)
      PROVE  CallsKnowDoc'
  BY <1>9 DEF FreeSource, Goto, Locks!Released, Locks!Unlock
<1>10. ASSUME NEW r \in Req, SaveTransfer(r)
      PROVE  CallsKnowDoc'
  BY <1>10 DEF SaveTransfer, Goto
<1>11. ASSUME NEW r \in Req, LockPlace(r)
      PROVE  CallsKnowDoc'
  BY <1>11 DEF LockPlace, Goto, Locks!Granted, Locks!Refused, Locks!SetNX
<1>12. ASSUME NEW r \in Req, TakeForIssue(r)
      PROVE  CallsKnowDoc'
  BY <1>12 DEF TakeForIssue, Goto, AdjustQuantityWithCheck, AdjustQuantity
<1>13. ASSUME NEW r \in Req, FreePlace(r)
      PROVE  CallsKnowDoc'
  BY <1>13 DEF FreePlace, Goto, Locks!Released, Locks!Unlock
<1>14. ASSUME NEW r \in Req, SaveIssue(r)
      PROVE  CallsKnowDoc'
  BY <1>14 DEF SaveIssue, Goto
<1>15. ASSUME NEW r \in Req, LockReplyLost(r)
      PROVE  CallsKnowDoc'
  BY <1>15 DEF LockReplyLost, Locks!ReplyLost, Locks!SetNX
<1>16. ASSUME NEW r \in Req, Crash(r)
      PROVE  CallsKnowDoc'
  BY <1>16 DEF Crash, Goto, Active
<1>17. ASSUME NEW l \in Loc, NEW q \in Counts, SetInventory(l, q)
      PROVE  CallsKnowDoc'
  BY <1>17 DEF SetInventory, Upsert
<1>18. ASSUME NEW l \in Loc, LockExpires(l)
      PROVE  CallsKnowDoc'
  BY <1>18 DEF LockExpires, Locks!KeyExpires
<1>19. CASE UNCHANGED vars
  BY <1>19 DEF vars
<1> QED
  BY <1>1, <1>2, <1>3, <1>4, <1>5, <1>6, <1>7, <1>8, <1>9, <1>10, <1>11,
     <1>12, <1>13, <1>14, <1>15, <1>16, <1>17, <1>18, <1>19
  DEF Next, Step

(***************************************************************************)
(* Goods are taken once, and put somewhere or lost before the call goes on.*)
(***************************************************************************)
LEMMA GoodsStep ==
  ASSUME TypeOK, GoodsFollowCall, [Next]_vars
  PROVE  GoodsFollowCall'
<1> USE DEF TypeOK, GoodsFollowCall, TransferSteps, IssueSteps, Ended
<1>1. ASSUME NEW r \in Req, NEW t \in Transfer, StartTransfer(r, t)
      PROVE  GoodsFollowCall'
  BY <1>1 DEF StartTransfer, Goto
<1>2. ASSUME NEW r \in Req, NEW d \in Requisition, NEW q \in Quantity, StartIssue(r, d, q)
      PROVE  GoodsFollowCall'
  BY <1>2 DEF StartIssue, Goto
<1>3. ASSUME NEW r \in Req, LockSource(r)
      PROVE  GoodsFollowCall'
  BY <1>3 DEF LockSource, Goto, Locks!Granted, Locks!Refused, Locks!SetNX
<1>4. ASSUME NEW r \in Req, TakeSource(r)
      PROVE  GoodsFollowCall'
  BY <1>4 DEF TakeSource, Goto, AdjustQuantityWithCheck, AdjustQuantity
<1>5. ASSUME NEW r \in Req, LockTarget(r)
      PROVE  GoodsFollowCall'
  BY <1>5 DEF LockTarget, Goto, Locks!Granted, Locks!Refused, Locks!SetNX
<1>6. ASSUME NEW r \in Req, PutTarget(r)
      PROVE  GoodsFollowCall'
  BY <1>6 DEF PutTarget, PutAt, AdjustQuantity, Goto
<1>7. ASSUME NEW r \in Req, PutBack(r)
      PROVE  GoodsFollowCall'
  BY <1>7 DEF PutBack, PutAt, AdjustQuantity, Goto
<1>8. ASSUME NEW r \in Req, FreeTarget(r)
      PROVE  GoodsFollowCall'
  BY <1>8 DEF FreeTarget, Goto, Locks!Released, Locks!Unlock
<1>9. ASSUME NEW r \in Req, FreeSource(r)
      PROVE  GoodsFollowCall'
  BY <1>9 DEF FreeSource, Goto, Locks!Released, Locks!Unlock
<1>10. ASSUME NEW r \in Req, SaveTransfer(r)
      PROVE  GoodsFollowCall'
  BY <1>10 DEF SaveTransfer, Goto
<1>11. ASSUME NEW r \in Req, LockPlace(r)
      PROVE  GoodsFollowCall'
  BY <1>11 DEF LockPlace, Goto, Locks!Granted, Locks!Refused, Locks!SetNX
<1>12. ASSUME NEW r \in Req, TakeForIssue(r)
      PROVE  GoodsFollowCall'
  BY <1>12 DEF TakeForIssue, Goto, AdjustQuantityWithCheck, AdjustQuantity
<1>13. ASSUME NEW r \in Req, FreePlace(r)
      PROVE  GoodsFollowCall'
  BY <1>13 DEF FreePlace, Goto, Locks!Released, Locks!Unlock
<1>14. ASSUME NEW r \in Req, SaveIssue(r)
      PROVE  GoodsFollowCall'
  BY <1>14 DEF SaveIssue, Goto
<1>15. ASSUME NEW r \in Req, LockReplyLost(r)
      PROVE  GoodsFollowCall'
  BY <1>15 DEF LockReplyLost, Locks!ReplyLost, Locks!SetNX
<1>16. ASSUME NEW r \in Req, Crash(r)
      PROVE  GoodsFollowCall'
  BY <1>16 DEF Crash, Goto, Active
<1>17. ASSUME NEW l \in Loc, NEW q \in Counts, SetInventory(l, q)
      PROVE  GoodsFollowCall'
  BY <1>17 DEF SetInventory, Upsert
<1>18. ASSUME NEW l \in Loc, LockExpires(l)
      PROVE  GoodsFollowCall'
  BY <1>18 DEF LockExpires, Locks!KeyExpires
<1>19. CASE UNCHANGED vars
  BY <1>19 DEF vars
<1> QED
  BY <1>1, <1>2, <1>3, <1>4, <1>5, <1>6, <1>7, <1>8, <1>9, <1>10, <1>11,
     <1>12, <1>13, <1>14, <1>15, <1>16, <1>17, <1>18, <1>19
  DEF Next, Step

(***************************************************************************)
(* A key is taken on entering its section and given back on leaving it.    *)
(***************************************************************************)
LEMMA KeyStep ==
  ASSUME TypeOK, KeyHasUser, [Next]_vars
  PROVE  KeyHasUser'
<1> USE MovementAssumption
    DEF TypeOK, Locks!LockTableTypeOK, KeyHasUser, Src, Tgt, Place, TransferSteps,
        IssueSteps, Ended
<1>1. ASSUME NEW r \in Req, NEW t \in Transfer, StartTransfer(r, t)
      PROVE  KeyHasUser'
  BY <1>1 DEF StartTransfer, Goto
<1>2. ASSUME NEW r \in Req, NEW d \in Requisition, NEW q \in Quantity, StartIssue(r, d, q)
      PROVE  KeyHasUser'
  BY <1>2 DEF StartIssue, Goto
<1>3. ASSUME NEW r \in Req, LockSource(r)
      PROVE  KeyHasUser'
  BY <1>3 DEF LockSource, Goto, Locks!Granted, Locks!Refused, Locks!SetNX
<1>4. ASSUME NEW r \in Req, TakeSource(r)
      PROVE  KeyHasUser'
  BY <1>4 DEF TakeSource, Goto, AdjustQuantityWithCheck, AdjustQuantity
<1>5. ASSUME NEW r \in Req, LockTarget(r)
      PROVE  KeyHasUser'
  BY <1>5 DEF LockTarget, Goto, Locks!Granted, Locks!Refused, Locks!SetNX
<1>6. ASSUME NEW r \in Req, PutTarget(r)
      PROVE  KeyHasUser'
  BY <1>6 DEF PutTarget, PutAt, AdjustQuantity, Goto
<1>7. ASSUME NEW r \in Req, PutBack(r)
      PROVE  KeyHasUser'
  BY <1>7 DEF PutBack, PutAt, AdjustQuantity, Goto
<1>8. ASSUME NEW r \in Req, FreeTarget(r)
      PROVE  KeyHasUser'
  BY <1>8 DEF FreeTarget, Goto, Locks!Released, Locks!Unlock
<1>9. ASSUME NEW r \in Req, FreeSource(r)
      PROVE  KeyHasUser'
  BY <1>9 DEF FreeSource, Goto, Locks!Released, Locks!Unlock
<1>10. ASSUME NEW r \in Req, SaveTransfer(r)
      PROVE  KeyHasUser'
  BY <1>10 DEF SaveTransfer, Goto
<1>11. ASSUME NEW r \in Req, LockPlace(r)
      PROVE  KeyHasUser'
  BY <1>11 DEF LockPlace, Goto, Locks!Granted, Locks!Refused, Locks!SetNX
<1>12. ASSUME NEW r \in Req, TakeForIssue(r)
      PROVE  KeyHasUser'
  BY <1>12 DEF TakeForIssue, Goto, AdjustQuantityWithCheck, AdjustQuantity
<1>13. ASSUME NEW r \in Req, FreePlace(r)
      PROVE  KeyHasUser'
  BY <1>13 DEF FreePlace, Goto, Locks!Released, Locks!Unlock
<1>14. ASSUME NEW r \in Req, SaveIssue(r)
      PROVE  KeyHasUser'
  BY <1>14 DEF SaveIssue, Goto
<1>15. ASSUME NEW r \in Req, LockReplyLost(r)
      PROVE  KeyHasUser'
  BY <1>15 DEF LockReplyLost, Locks!ReplyLost, Locks!SetNX
<1>16. ASSUME NEW r \in Req, Crash(r)
      PROVE  KeyHasUser'
  BY <1>16 DEF Crash, Goto, Active
<1>17. ASSUME NEW l \in Loc, NEW q \in Counts, SetInventory(l, q)
      PROVE  KeyHasUser'
  BY <1>17 DEF SetInventory, Upsert
<1>18. ASSUME NEW l \in Loc, LockExpires(l)
      PROVE  KeyHasUser'
  BY <1>18 DEF LockExpires, Locks!KeyExpires
<1>19. CASE UNCHANGED vars
  BY <1>19 DEF vars
<1> QED
  BY <1>1, <1>2, <1>3, <1>4, <1>5, <1>6, <1>7, <1>8, <1>9, <1>10, <1>11,
     <1>12, <1>13, <1>14, <1>15, <1>16, <1>17, <1>18, <1>19
  DEF Next, Step

-----------------------------------------------------------------------------
(***************************************************************************)
(* The refinement.  The road shows a request that carries or lost goods;   *)
(* what the others are doing does not show.                                *)
(***************************************************************************)
LEMMA SameRoad ==
  ASSUME carrying' \cup lost' = carrying \cup lost,
         \A r \in carrying \cup lost : doc'[r] = doc[r] /\ qty'[r] = qty[r]
  PROVE  UNCHANGED OnTheRoad
<1> SUFFICES ASSUME NEW r \in Req
             PROVE  (IF r \in carrying' \cup lost' THEN <<SrcOf[doc'[r]], qty'[r]>> ELSE <<>>)
                    = (IF r \in carrying \cup lost THEN <<SrcOf[doc[r]], qty[r]>> ELSE <<>>)
  BY DEF OnTheRoad, Src
<1> QED OBVIOUS

(***************************************************************************)
(* What a step is to the ledger: goods that depart or land with a transfer,*)
(* that a requisition issues, or that a stocktaking counts; or nothing.    *)
(***************************************************************************)
LedgerMove ==
  \/ UNCHANGED Ledger!ledgerVars
  \/ \E r \in Req, l \in Loc : Ledger!Land(r, l)
  \/ \E r \in Req : /\ r \notin carrying \cup lost /\ qty[r] \in Quantity /\ Src(r) \in Loc
                     /\ Ledger!Depart(r, Src(r), qty[r])
  \/ \E r \in Req : /\ TakeForIssue(r) /\ Place(r) \in Loc /\ qty[r] \in Quantity
                     /\ Ledger!Issue(Place(r), qty[r])
  \/ \E l \in Loc, q \in Counts : SetInventory(l, q) /\ Ledger!Count(l, q)

(***************************************************************************)
(* A checked withdrawal is what the ledger calls taking from a shelf.      *)
(***************************************************************************)
LEMMA TakenOff ==
  ASSUME TypeOK, NEW l \in Loc, NEW q \in Quantity, AdjustQuantityWithCheck(l, 0 - q)
  PROVE  Ledger!Take(l, q)
<1>1. q \in Int /\ stock[l] \in Int
  BY MovementAssumption DEF TypeOK, InventoryTypeOK
<1>2. stock[l] + (0 - q) = stock[l] - q
  BY <1>1
<1> QED
  BY <1>1, <1>2 DEF AdjustQuantityWithCheck, AdjustQuantity, Accepted, Ledger!Take

(* Goods that are taken out and are then carried, or lost with a call that  *)
(* died, are a departure of the ledger.                                     *)
LEMMA DepartsFrom ==
  ASSUME NEW r \in Req, r \notin carrying \cup lost, Src(r) \in Loc, qty[r] \in Quantity,
         Ledger!Take(Src(r), qty[r]), UNCHANGED <<doc, qty>>,
         carrying' \cup lost' = carrying \cup lost \cup {r}
  PROVE  LedgerMove
<1>1. OnTheRoad[r] = <<>>
  BY DEF OnTheRoad
<1>2. OnTheRoad' = [OnTheRoad EXCEPT ![r] = <<Src(r), qty[r]>>]
  BY DEF OnTheRoad, Src
<1>3. Ledger!Depart(r, Src(r), qty[r])
  BY <1>1, <1>2 DEF Ledger!Depart
<1> QED BY <1>3 DEF LedgerMove

(* Goods that a call carried and puts into a place of the same material are *)
(* an arrival of the ledger.                                                *)
LEMMA LandsThere ==
  ASSUME NEW r \in Req, r \in carrying, r \notin lost, NEW l \in Loc, l[2] = Src(r)[2],
         stock' = [stock EXCEPT ![l] = @ + qty[r]], rows' = rows \cup {l},
         carrying' = carrying \ {r}, UNCHANGED <<lost, doc, qty>>
  PROVE  LedgerMove
<1>1. OnTheRoad[r] = <<Src(r), qty[r]>>
  BY DEF OnTheRoad
<1>2. OnTheRoad' = [OnTheRoad EXCEPT ![r] = <<>>]
  BY DEF OnTheRoad, Src
<1>3. OnTheRoad[r] # <<>> /\ OnTheRoad[r][1] = Src(r) /\ OnTheRoad[r][2] = qty[r]
  BY <1>1
<1>4. Ledger!Land(r, l)
  BY <1>2, <1>3 DEF Ledger!Land
<1> QED BY <1>4 DEF LedgerMove

(***************************************************************************)
(* Every step is a step of the ledger or changes nothing it shows.         *)
(***************************************************************************)
LEMMA LedgerStep ==
  ASSUME TypeOK, CallsKnowDoc, GoodsFollowCall, [Next]_vars
  PROVE  LedgerMove
<1>1. ASSUME NEW r \in Req, NEW t \in Transfer, StartTransfer(r, t)
      PROVE  LedgerMove
  <2>1. r \notin carrying \cup lost /\ carrying \cup lost \subseteq Req
    BY <1>1 DEF StartTransfer, GoodsFollowCall, Ended, TypeOK
  <2>2. /\ UNCHANGED <<stock, rows, carrying, lost>>
        /\ \A s \in Req \ {r} : doc'[s] = doc[s] /\ qty'[s] = qty[s]
    BY <1>1 DEF StartTransfer, inventoryVars, TypeOK
  <2> QED BY <2>1, <2>2, SameRoad DEF LedgerMove, Ledger!ledgerVars
<1>2. ASSUME NEW r \in Req, NEW d \in Requisition, NEW q \in Quantity, StartIssue(r, d, q)
      PROVE  LedgerMove
  <2>1. r \notin carrying \cup lost /\ carrying \cup lost \subseteq Req
    BY <1>2 DEF StartIssue, GoodsFollowCall, Ended, TypeOK
  <2>2. /\ UNCHANGED <<stock, rows, carrying, lost>>
        /\ \A s \in Req \ {r} : doc'[s] = doc[s] /\ qty'[s] = qty[s]
    BY <1>2 DEF StartIssue, inventoryVars, TypeOK
  <2> QED BY <2>1, <2>2, SameRoad DEF LedgerMove, Ledger!ledgerVars
<1>3. ASSUME NEW r \in Req, LockSource(r)
      PROVE  LedgerMove
  <2>1. UNCHANGED <<stock, rows, doc, qty, carrying, lost>>
    BY <1>3 DEF LockSource, inventoryVars
  <2> QED BY <2>1, SameRoad DEF LedgerMove, Ledger!ledgerVars
<1>4. ASSUME NEW r \in Req, TakeSource(r)
      PROVE  LedgerMove
  <2>1. /\ r \notin carrying \cup lost /\ pc[r] \in TransferSteps
        /\ UNCHANGED <<doc, qty>>
    BY <1>4 DEF TakeSource, GoodsFollowCall, TransferSteps, Ended
  <2>2. Src(r) \in Loc /\ qty[r] \in Quantity
    BY <2>1, Places
  <2>3. CASE /\ AdjustQuantityWithCheck(Src(r), 0 - qty[r])
              /\ carrying' \cup lost' = carrying \cup lost \cup {r}
    <3>1. Ledger!Take(Src(r), qty[r])
      BY <2>2, <2>3, TakenOff
    <3> QED BY <2>1, <2>2, <2>3, <3>1, DepartsFrom
  <2>4. CASE UNCHANGED <<inventoryVars, carrying, lost>>
    BY <2>1, <2>4, SameRoad DEF inventoryVars, LedgerMove, Ledger!ledgerVars
  <2>5. \/ /\ AdjustQuantityWithCheck(Src(r), 0 - qty[r])
           /\ \/ carrying' = carrying \cup {r} /\ UNCHANGED lost
              \/ lost' = lost \cup {r} /\ UNCHANGED carrying
        \/ UNCHANGED <<inventoryVars, carrying, lost>>
    BY <1>4 DEF TakeSource
  <2> QED BY <2>3, <2>4, <2>5
<1>5. ASSUME NEW r \in Req, LockTarget(r)
      PROVE  LedgerMove
  <2>1. UNCHANGED <<stock, rows, doc, qty, carrying, lost>>
    BY <1>5 DEF LockTarget, inventoryVars
  <2> QED BY <2>1, SameRoad DEF LedgerMove, Ledger!ledgerVars
<1>6. ASSUME NEW r \in Req, PutTarget(r)
      PROVE  LedgerMove
  <2>1. /\ r \in carrying /\ r \notin lost /\ pc[r] \in TransferSteps
        /\ UNCHANGED <<doc, qty>> /\ carrying' = carrying \ {r}
    BY <1>6 DEF PutTarget, PutAt, GoodsFollowCall, TransferSteps
  <2>2. Tgt(r) \in Loc /\ Src(r) \in Loc /\ Tgt(r)[2] = Src(r)[2]
    BY <2>1, Places
  <2>3. CASE AdjustQuantity(Tgt(r), qty[r]) /\ UNCHANGED lost
    BY <2>1, <2>2, <2>3, LandsThere DEF AdjustQuantity
  <2>4. CASE lost' = lost \cup {r} /\ UNCHANGED inventoryVars
    <3>1. carrying' \cup lost' = carrying \cup lost
      BY <2>1, <2>4
    <3> QED BY <2>1, <2>4, <3>1, SameRoad DEF inventoryVars, LedgerMove, Ledger!ledgerVars
  <2> QED BY <1>6, <2>3, <2>4 DEF PutTarget, PutAt
<1>7. ASSUME NEW r \in Req, PutBack(r)
      PROVE  LedgerMove
  <2>1. /\ r \in carrying /\ r \notin lost /\ pc[r] \in TransferSteps
        /\ UNCHANGED <<doc, qty>> /\ carrying' = carrying \ {r}
    BY <1>7 DEF PutBack, PutAt, GoodsFollowCall, TransferSteps
  <2>2. Src(r) \in Loc /\ Src(r) \in Loc /\ Src(r)[2] = Src(r)[2]
    BY <2>1, Places
  <2>3. CASE AdjustQuantity(Src(r), qty[r]) /\ UNCHANGED lost
    BY <2>1, <2>2, <2>3, LandsThere DEF AdjustQuantity
  <2>4. CASE lost' = lost \cup {r} /\ UNCHANGED inventoryVars
    <3>1. carrying' \cup lost' = carrying \cup lost
      BY <2>1, <2>4
    <3> QED BY <2>1, <2>4, <3>1, SameRoad DEF inventoryVars, LedgerMove, Ledger!ledgerVars
  <2> QED BY <1>7, <2>3, <2>4 DEF PutBack, PutAt
<1>8. ASSUME NEW r \in Req, FreeTarget(r)
      PROVE  LedgerMove
  <2>1. UNCHANGED <<stock, rows, doc, qty, carrying, lost>>
    BY <1>8 DEF FreeTarget, inventoryVars
  <2> QED BY <2>1, SameRoad DEF LedgerMove, Ledger!ledgerVars
<1>9. ASSUME NEW r \in Req, FreeSource(r)
      PROVE  LedgerMove
  <2>1. UNCHANGED <<stock, rows, doc, qty, carrying, lost>>
    BY <1>9 DEF FreeSource, inventoryVars
  <2> QED BY <2>1, SameRoad DEF LedgerMove, Ledger!ledgerVars
<1>10. ASSUME NEW r \in Req, SaveTransfer(r)
      PROVE  LedgerMove
  <2>1. UNCHANGED <<stock, rows, doc, qty, carrying, lost>>
    BY <1>10 DEF SaveTransfer, inventoryVars
  <2> QED BY <2>1, SameRoad DEF LedgerMove, Ledger!ledgerVars
<1>11. ASSUME NEW r \in Req, LockPlace(r)
      PROVE  LedgerMove
  <2>1. UNCHANGED <<stock, rows, doc, qty, carrying, lost>>
    BY <1>11 DEF LockPlace, inventoryVars
  <2> QED BY <2>1, SameRoad DEF LedgerMove, Ledger!ledgerVars
<1>12. ASSUME NEW r \in Req, TakeForIssue(r)
      PROVE  LedgerMove
  <2>1. UNCHANGED <<doc, qty, carrying, lost>> /\ pc[r] \in IssueSteps
    BY <1>12 DEF TakeForIssue, IssueSteps
  <2>2. Place(r) \in Loc /\ qty[r] \in Quantity
    BY <2>1, Places
  <2>3. UNCHANGED OnTheRoad
    BY <2>1, SameRoad
  <2>4. CASE AdjustQuantityWithCheck(Place(r), 0 - qty[r])
    <3>1. Ledger!Take(Place(r), qty[r])
      BY <2>2, <2>4, TakenOff
    <3> QED BY <1>12, <2>2, <2>3, <3>1 DEF LedgerMove, Ledger!Issue
  <2>5. CASE UNCHANGED inventoryVars
    BY <2>3, <2>5 DEF inventoryVars, LedgerMove, Ledger!ledgerVars
  <2> QED BY <1>12, <2>4, <2>5 DEF TakeForIssue
<1>13. ASSUME NEW r \in Req, FreePlace(r)
      PROVE  LedgerMove
  <2>1. UNCHANGED <<stock, rows, doc, qty, carrying, lost>>
    BY <1>13 DEF FreePlace, inventoryVars
  <2> QED BY <2>1, SameRoad DEF LedgerMove, Ledger!ledgerVars
<1>14. ASSUME NEW r \in Req, SaveIssue(r)
      PROVE  LedgerMove
  <2>1. UNCHANGED <<stock, rows, doc, qty, carrying, lost>>
    BY <1>14 DEF SaveIssue, inventoryVars
  <2> QED BY <2>1, SameRoad DEF LedgerMove, Ledger!ledgerVars
<1>15. ASSUME NEW r \in Req, LockReplyLost(r)
      PROVE  LedgerMove
  <2>1. UNCHANGED <<stock, rows, doc, qty, carrying, lost>>
    BY <1>15 DEF LockReplyLost, inventoryVars
  <2> QED BY <2>1, SameRoad DEF LedgerMove, Ledger!ledgerVars
<1>16. ASSUME NEW r \in Req, Crash(r)
      PROVE  LedgerMove
  <2>1. UNCHANGED <<stock, rows, doc, qty, carrying, lost>>
    BY <1>16 DEF Crash, inventoryVars
  <2> QED BY <2>1, SameRoad DEF LedgerMove, Ledger!ledgerVars
<1>17. ASSUME NEW l \in Loc, NEW q \in Counts, SetInventory(l, q)
      PROVE  LedgerMove
  <2>1. UNCHANGED OnTheRoad
    <3>1. UNCHANGED <<doc, qty, carrying, lost>>
      BY <1>17 DEF SetInventory
    <3> QED BY <3>1, SameRoad
  <2>2. Ledger!Count(l, q)
    BY <1>17, <2>1 DEF SetInventory, Upsert, Ledger!Count
  <2> QED BY <1>17, <2>2 DEF LedgerMove
<1>18. ASSUME NEW l \in Loc, LockExpires(l)
      PROVE  LedgerMove
  <2>1. UNCHANGED <<stock, rows, doc, qty, carrying, lost>>
    BY <1>18 DEF LockExpires, inventoryVars
  <2> QED BY <2>1, SameRoad DEF LedgerMove, Ledger!ledgerVars
<1>19. CASE UNCHANGED vars
  <2>1. UNCHANGED <<stock, rows, doc, qty, carrying, lost>>
    BY <1>19 DEF vars, inventoryVars
  <2> QED BY <2>1, SameRoad DEF LedgerMove, Ledger!ledgerVars
<1> QED
  BY <1>1, <1>2, <1>3, <1>4, <1>5, <1>6, <1>7, <1>8, <1>9, <1>10, <1>11,
     <1>12, <1>13, <1>14, <1>15, <1>16, <1>17, <1>18, <1>19
  DEF Next, Step

(* The invariants hold before the first call.                               *)
LEMMA InitMovement == Init => TypeOK /\ CallsKnowDoc /\ GoodsFollowCall /\ KeyHasUser
<1> SUFFICES ASSUME Init
             PROVE  TypeOK /\ CallsKnowDoc /\ GoodsFollowCall /\ KeyHasUser
  OBVIOUS
<1> USE MovementAssumption DEF Init
<1>1. (CHOOSE d \in Doc : TRUE) \in Doc
  BY DEF Doc
<1>2. TypeOK
  BY <1>1 DEF TypeOK, InventoryTypeOK, Locks!LockTableTypeOK, Locks!LockTableInit
<1>3. CallsKnowDoc /\ GoodsFollowCall
  BY DEF CallsKnowDoc, GoodsFollowCall, TransferSteps, IssueSteps
<1>4. KeyHasUser
  BY DEF KeyHasUser, Locks!LockTableInit
<1> QED BY <1>2, <1>3, <1>4

-----------------------------------------------------------------------------
(***************************************************************************)
(* Every variable keeps its type, and every call the document and quantity *)
(* it was made for.                                                        *)
(***************************************************************************)
THEOREM MovementTypeOK == Spec => [](TypeOK /\ CallsKnowDoc)
<1>1. Init => TypeOK /\ CallsKnowDoc
  BY InitMovement
<1>2. TypeOK /\ CallsKnowDoc /\ [Next]_vars => (TypeOK /\ CallsKnowDoc)'
  BY TypeStep, DocStep
<1> QED BY <1>1, <1>2, PTL DEF Spec

(***************************************************************************)
(* A transfer that returned left nothing on the road, whatever was refused *)
(* or failed: only a request that died may keep goods.                     *)
(***************************************************************************)
THEOREM RoadIsCleared == Spec => []NothingLeftOnTheRoad
<1>1. Init => GoodsFollowCall
  BY InitMovement
<1>2. TypeOK /\ GoodsFollowCall /\ [Next]_vars => GoodsFollowCall'
  BY GoodsStep
<1>3. TypeOK /\ GoodsFollowCall => NothingLeftOnTheRoad
  BY DEF GoodsFollowCall, NothingLeftOnTheRoad, Ended, TypeOK
<1> QED BY <1>1, <1>2, <1>3, MovementTypeOK, PTL DEF Spec

(***************************************************************************)
(* No path out of a transfer or an issue leaves an inventory lock behind,  *)
(* not even a transfer onto its own warehouse.                             *)
(***************************************************************************)
THEOREM MovementsGiveLocksBack == Spec => []NoKeyLeftBehind
<1>1. Init => KeyHasUser
  BY InitMovement
<1>2. TypeOK /\ KeyHasUser /\ [Next]_vars => KeyHasUser'
  BY KeyStep
<1>3. KeyHasUser => NoKeyLeftBehind
  BY DEF KeyHasUser, NoKeyLeftBehind, Ended
<1> QED BY <1>1, <1>2, <1>3, MovementTypeOK, PTL DEF Spec

(***************************************************************************)
(* The movements implement the ledger: whatever fails, is refused, races   *)
(* or dies, goods that left a shelf land once and in full on one shelf of  *)
(* their material or stay on the road, and a shelf that ever had an entry  *)
(* gives no more than it has.                                              *)
(***************************************************************************)
THEOREM MovementsKeepTheLedger == Spec => LedgerKept
<1>1. Init => Ledger!Init
  BY MovementAssumption DEF Init, Ledger!Init, OnTheRoad
<1>2. TypeOK /\ CallsKnowDoc /\ GoodsFollowCall /\ [Next]_vars
        => [Ledger!Next]_Ledger!ledgerVars
  <2>1. LedgerMove => [Ledger!Next]_Ledger!ledgerVars
    BY DEF LedgerMove, Ledger!Next
  <2> QED BY <2>1, LedgerStep
<1>3. Init => GoodsFollowCall
  BY InitMovement
<1>4. TypeOK /\ GoodsFollowCall /\ [Next]_vars => GoodsFollowCall'
  BY GoodsStep
<1> QED
  BY <1>1, <1>2, <1>3, <1>4, MovementTypeOK, PTL DEF Spec, LedgerKept, Ledger!Spec

-----------------------------------------------------------------------------
(***************************************************************************)
(* What the ledger shows of a request on the road is whether it carries or *)
(* lost goods, and of these the place and the quantity.                    *)
(***************************************************************************)
LEMMA RoadShows ==
  ASSUME NEW r \in Req
  PROVE  /\ r \in carrying \cup lost <=> OnTheRoad[r] # <<>>
         /\ r \in carrying \cup lost => OnTheRoad[r][1] = Src(r) /\ OnTheRoad[r][2] = qty[r]
BY DEF OnTheRoad

(* The requests on the road with goods of a material, and their quantities. *)
LEMMA Travelling ==
  ASSUME TypeOK, NEW m
  PROVE  /\ TravellingOf(m) \in SUBSET Req /\ IsFiniteSet(TravellingOf(m))
         /\ \A r \in Req : qty[r] \in Int
         /\ SumOver(qty, TravellingOf(m)) \in Int
<1>1. TravellingOf(m) \in SUBSET Req /\ IsFiniteSet(TravellingOf(m))
  BY MovementAssumption, FS_Subset DEF TravellingOf, TypeOK
<1>2. \A r \in Req : qty[r] \in Int
  <2>1. qty \in [Req -> Quantity \cup {0}]
    BY DEF TypeOK
  <2>2. Quantity \cup {0} \subseteq Int
    BY MovementAssumption
  <2> QED BY <2>1, <2>2
<1>3. SumOver(qty, TravellingOf(m)) \in Int
  BY <1>1, <1>2, SumOverTaken
<1> QED BY <1>1, <1>2, <1>3

(* Whoever is on the road before and after a step travels with the same     *)
(* goods, if the ledger sees the same of it.                                *)
LEMMA TravelOn ==
  ASSUME TypeOK, TypeOK', NEW r \in Req, OnTheRoad'[r] = OnTheRoad[r], NEW m
  PROVE  /\ r \in TravellingOf(m)' <=> r \in TravellingOf(m)
         /\ r \in TravellingOf(m) => qty'[r] = qty[r]
<1>1. /\ r \in carrying \cup lost <=> OnTheRoad[r] # <<>>
      /\ r \in carrying \cup lost => OnTheRoad[r][1] = Src(r) /\ OnTheRoad[r][2] = qty[r]
  BY RoadShows
<1>2. /\ r \in carrying' \cup lost' <=> OnTheRoad'[r] # <<>>
      /\ r \in carrying' \cup lost' => OnTheRoad'[r][1] = Src(r)' /\ OnTheRoad'[r][2] = qty'[r]
  BY DEF OnTheRoad, Src
<1>3. /\ r \in TravellingOf(m) <=> r \in carrying \cup lost /\ Src(r)[2] = m
      /\ r \in TravellingOf(m)' <=> r \in carrying' \cup lost' /\ Src(r)'[2] = m
  BY DEF TravellingOf
<1> QED BY <1>1, <1>2, <1>3

(* Nobody sets out and nobody arrives: the goods on the road stay.          *)
LEMMA RoadStays ==
  ASSUME TypeOK, TypeOK', UNCHANGED OnTheRoad, NEW m
  PROVE  SumOver(qty', TravellingOf(m)') = SumOver(qty, TravellingOf(m))
<1>1. \A r \in Req : /\ r \in TravellingOf(m)' <=> r \in TravellingOf(m)
                     /\ r \in TravellingOf(m) => qty'[r] = qty[r]
  BY TravelOn
<1>2. TravellingOf(m) \in SUBSET Req /\ TravellingOf(m)' \in SUBSET Req /\ IsFiniteSet(TravellingOf(m))
  BY Travelling DEF TravellingOf, TypeOK
<1>3. TravellingOf(m)' = TravellingOf(m)
  BY <1>1, <1>2
<1> DEFINE S == TravellingOf(m)
<1>4. \A r \in S : qty[r] = qty'[r]
  BY <1>1, <1>2
<1>5. IsFiniteSet(S)
  BY <1>2
<1> HIDE DEF S
<1>6. SumOver(qty, S) = SumOver(qty', S)
  BY <1>4, <1>5, SumOverSame
<1> QED BY <1>3, <1>6 DEF S

(* One request sets out: its goods join those on the road.                  *)
LEMMA RoadGains ==
  ASSUME TypeOK, TypeOK', NEW r \in Req, r \notin carrying \cup lost,
         OnTheRoad' = [OnTheRoad EXCEPT ![r] = <<Src(r), qty[r]>>], NEW m
  PROVE  /\ Src(r)[2] = m
              => SumOver(qty', TravellingOf(m)') = SumOver(qty, TravellingOf(m)) + qty[r]
         /\ Src(r)[2] # m
              => SumOver(qty', TravellingOf(m)') = SumOver(qty, TravellingOf(m))
<1> DEFINE S == TravellingOf(m)
<1>1. OnTheRoad'[r] = <<Src(r), qty[r]>> /\ \A s \in Req \ {r} : OnTheRoad'[s] = OnTheRoad[s]
  BY DEF OnTheRoad
<1>2. \A s \in Req \ {r} : (s \in TravellingOf(m)' <=> s \in S) /\ (s \in S => qty'[s] = qty[s])
  BY <1>1, TravelOn
<1>3. r \notin S /\ S \in SUBSET Req /\ TravellingOf(m)' \in SUBSET Req
      /\ IsFiniteSet(S) /\ \A s \in Req : qty[s] \in Int /\ qty'[s] \in Int
  <2>1. \A s \in Req : qty'[s] \in Int
    <3>1. qty' \in [Req -> Quantity \cup {0}]
      BY DEF TypeOK
    <3>2. Quantity \cup {0} \subseteq Int
      BY MovementAssumption
    <3> QED BY <3>1, <3>2
  <2> QED BY <2>1, Travelling DEF TravellingOf, TypeOK
<1>4. /\ r \in carrying' \cup lost' /\ Src(r)' = Src(r) /\ qty'[r] = qty[r]
  <2>1. OnTheRoad'[r] = IF r \in carrying' \cup lost' THEN <<Src(r)', qty'[r]>> ELSE <<>>
    BY DEF OnTheRoad
  <2> QED BY <1>1, <2>1
<1>5. r \in TravellingOf(m)' <=> Src(r)[2] = m
  BY <1>4 DEF TravellingOf
<1>6. CASE Src(r)[2] = m
  <2>1. TravellingOf(m)' = S \cup {r}
    BY <1>2, <1>3, <1>5, <1>6
  <2>2. SumOver(qty', S \cup {r}) = SumOver(qty', S) + qty'[r]
    <3>1. \A s \in S \cup {r} : qty'[s] \in Int
      BY <1>3
    <3> HIDE DEF S
    <3> QED BY <1>3, <3>1, SumOverJoined
  <2>3. SumOver(qty, S) = SumOver(qty', S)
    <3>1. \A s \in S : qty[s] = qty'[s]
      BY <1>2, <1>3
    <3> HIDE DEF S
    <3> QED BY <1>3, <3>1, SumOverSame
  <2> QED BY <1>4, <1>6, <2>1, <2>2, <2>3
<1>7. CASE Src(r)[2] # m
  <2>1. TravellingOf(m)' = S
    BY <1>2, <1>3, <1>5, <1>7
  <2>2. SumOver(qty, S) = SumOver(qty', S)
    <3>1. \A s \in S : qty[s] = qty'[s]
      BY <1>2, <1>3
    <3> HIDE DEF S
    <3> QED BY <1>3, <3>1, SumOverSame
  <2> QED BY <1>7, <2>1, <2>2
<1> QED BY <1>6, <1>7

(* One request arrives: its goods leave the road.                           *)
LEMMA RoadLoses ==
  ASSUME TypeOK, TypeOK', NEW r \in Req, r \in carrying \cup lost,
         OnTheRoad' = [OnTheRoad EXCEPT ![r] = <<>>], NEW m
  PROVE  /\ Src(r)[2] = m
              => SumOver(qty', TravellingOf(m)') = SumOver(qty, TravellingOf(m)) - qty[r]
         /\ Src(r)[2] # m
              => SumOver(qty', TravellingOf(m)') = SumOver(qty, TravellingOf(m))
<1> DEFINE S == TravellingOf(m)
           U == TravellingOf(m)'
<1>1. OnTheRoad'[r] = <<>> /\ \A s \in Req \ {r} : OnTheRoad'[s] = OnTheRoad[s]
  BY DEF OnTheRoad
<1>2. \A s \in Req \ {r} : (s \in U <=> s \in S) /\ (s \in S => qty'[s] = qty[s])
  BY <1>1, TravelOn
<1>3. S \in SUBSET Req /\ U \in SUBSET Req /\ \A s \in Req : qty[s] \in Int
  BY Travelling DEF TravellingOf, TypeOK
<1>4. r \notin carrying' \cup lost'
  <2>1. OnTheRoad'[r] = IF r \in carrying' \cup lost' THEN <<Src(r)', qty'[r]>> ELSE <<>>
    BY DEF OnTheRoad
  <2>2. <<Src(r)', qty'[r]>> # <<>>
    OBVIOUS
  <2> QED BY <1>1, <2>1, <2>2
<1>5. r \notin U /\ (r \in S <=> Src(r)[2] = m)
  BY <1>4 DEF TravellingOf
<1>6. IsFiniteSet(U)
  BY <1>3, MovementAssumption, FS_Subset
<1>7. SumOver(qty, U) = SumOver(qty', U)
  <2>1. \A s \in U : qty[s] = qty'[s]
    BY <1>2, <1>3, <1>5
  <2> HIDE DEF U
  <2> QED BY <1>6, <2>1, SumOverSame
<1>8. CASE Src(r)[2] = m
  <2>1. S = U \cup {r}
    BY <1>2, <1>3, <1>5, <1>8
  <2>2. SumOver(qty, U) \in Int /\ SumOver(qty, U \cup {r}) = SumOver(qty, U) + qty[r]
    <3>1. \A s \in U \cup {r} : qty[s] \in Int
      BY <1>3
    <3> HIDE DEF U
    <3> QED BY <1>5, <1>6, <3>1, SumOverJoined
  <2>3. qty[r] \in Int
    BY <1>3
  <2> HIDE DEF U
  <2>4. SumOver(qty, S) = SumOver(qty, U) + qty[r]
    BY <2>1, <2>2
  <2>5. SumOver(qty', U) = SumOver(qty, S) - qty[r]
    BY <1>7, <2>2, <2>3, <2>4
  <2> QED BY <1>8, <2>5 DEF U
<1>9. CASE Src(r)[2] # m
  <2>1. SumOver(qty', U) = SumOver(qty, S)
    <3> HIDE DEF S, U
    <3>1. \A s \in Req : s \in S <=> s \in U
      BY <1>2, <1>5, <1>9
    <3>2. S = U
      BY <1>3, <3>1
    <3> QED BY <1>7, <3>2
  <2> QED BY <1>9, <2>1
<1> QED BY <1>8, <1>9

(* What a quantity added to a place adds to the goods of a material.        *)
LEMMA GoodsPut ==
  ASSUME TypeOK, NEW l \in Loc, NEW d \in Int, stock' = [stock EXCEPT ![l] = @ + d], NEW m
  PROVE  /\ SumOver(stock, PlacesOf(m)) \in Int /\ SumOver(stock', PlacesOf(m)) \in Int
         /\ l[2] = m => SumOver(stock', PlacesOf(m)) = SumOver(stock, PlacesOf(m)) + d
         /\ l[2] # m => SumOver(stock', PlacesOf(m)) = SumOver(stock, PlacesOf(m))
<1>1. stock \in [Loc -> Int]
  BY DEF TypeOK, InventoryTypeOK
<1> QED BY <1>1, AdjustingPlaces, MovementAssumption

(* What a quantity taken from a place takes from the goods of a material.   *)
LEMMA GoodsTaken ==
  ASSUME TypeOK, NEW l \in Loc, NEW q \in Int, stock' = [stock EXCEPT ![l] = @ - q], NEW m
  PROVE  /\ l[2] = m => SumOver(stock', PlacesOf(m)) = SumOver(stock, PlacesOf(m)) - q
         /\ l[2] # m => SumOver(stock', PlacesOf(m)) = SumOver(stock, PlacesOf(m))
<1> DEFINE d == 0 - q
<1>1. stock \in [Loc -> Int]
  BY DEF TypeOK, InventoryTypeOK
<1>2. d \in Int /\ stock[l] \in Int
  BY <1>1
<1>3. stock[l] - q = stock[l] + d
  BY <1>2
<1> HIDE DEF d
<1>4. stock' = [stock EXCEPT ![l] = @ + d]
  BY <1>3
<1>5. /\ SumOver(stock, PlacesOf(m)) \in Int
      /\ l[2] = m => SumOver(stock', PlacesOf(m)) = SumOver(stock, PlacesOf(m)) + d
      /\ l[2] # m => SumOver(stock', PlacesOf(m)) = SumOver(stock, PlacesOf(m))
  BY <1>2, <1>4, GoodsPut
<1> QED BY <1>5 DEF d

(***************************************************************************)
(* A step keeps the goods of a material, but for what a requisition takes  *)
(* and what a stocktaking finds: what a departure takes off the shelves is *)
(* on the road, what a landing takes off the road is on a shelf.           *)
(***************************************************************************)
LEMMA GoodsConservedStep ==
  ASSUME TypeOK, TypeOK', LedgerMove, NEW m \in Material
  PROVE  KeepsGoods(m)
<1> DEFINE shelves == SumOver(stock, PlacesOf(m))
           way == SumOver(qty, TravellingOf(m))
<1>1. \A r \in Req : qty[r] \in Int
  BY Travelling
<1>2. shelves \in Int /\ way \in Int
  <2>1. IsFiniteSet(PlacesOf(m)) /\ \A l \in PlacesOf(m) : stock[l] \in Int
    BY MovementAssumption, FS_Subset DEF PlacesOf, TypeOK, InventoryTypeOK
  <2> QED BY <2>1, Travelling, SumOverTaken
<1>3. GoodsOf(m) = shelves + way /\ GoodsOf(m)' = SumOver(stock', PlacesOf(m)) + SumOver(qty', TravellingOf(m)')
  BY DEF GoodsOf, PlacesOf, Loc
<1> HIDE DEF shelves, way
<1>4. CASE UNCHANGED Ledger!ledgerVars
  <2>1. SumOver(qty', TravellingOf(m)') = way
    BY <1>4, RoadStays DEF Ledger!ledgerVars, way
  <2>2. SumOver(stock', PlacesOf(m)) = shelves
    BY <1>4 DEF Ledger!ledgerVars, shelves
  <2> QED BY <1>3, <2>1, <2>2 DEF KeepsGoods
<1>5. ASSUME NEW r \in Req, NEW l \in Loc, Ledger!Land(r, l)
      PROVE  GoodsOf(m)' = GoodsOf(m)
  <2>1. /\ r \in carrying \cup lost /\ l[2] = Src(r)[2]
        /\ stock' = [stock EXCEPT ![l] = @ + qty[r]]
        /\ OnTheRoad' = [OnTheRoad EXCEPT ![r] = <<>>]
    BY <1>5, RoadShows DEF Ledger!Land
  <2>2. /\ Src(r)[2] = m => SumOver(qty', TravellingOf(m)') = way - qty[r]
        /\ Src(r)[2] # m => SumOver(qty', TravellingOf(m)') = way
    BY <2>1, RoadLoses DEF way
  <2>3. /\ l[2] = m => SumOver(stock', PlacesOf(m)) = shelves + qty[r]
        /\ l[2] # m => SumOver(stock', PlacesOf(m)) = shelves
    <3> DEFINE d == qty[r]
    <3>1. stock' = [stock EXCEPT ![l] = @ + d] /\ d \in Int
      BY <1>1, <2>1
    <3> HIDE DEF d
    <3>2. /\ l[2] = m => SumOver(stock', PlacesOf(m)) = shelves + d
          /\ l[2] # m => SumOver(stock', PlacesOf(m)) = shelves
      BY <3>1, GoodsPut DEF shelves
    <3> QED BY <3>2 DEF d
  <2> QED BY <1>1, <1>2, <1>3, <2>1, <2>2, <2>3
<1>6. ASSUME NEW r \in Req, Src(r) \in Loc, r \notin carrying \cup lost, Ledger!Depart(r, Src(r), qty[r])
      PROVE  GoodsOf(m)' = GoodsOf(m)
  <2>1. /\ stock' = [stock EXCEPT ![Src(r)] = @ - qty[r]]
        /\ OnTheRoad' = [OnTheRoad EXCEPT ![r] = <<Src(r), qty[r]>>]
    BY <1>6 DEF Ledger!Depart, Ledger!Take
  <2>2. /\ Src(r)[2] = m => SumOver(qty', TravellingOf(m)') = way + qty[r]
        /\ Src(r)[2] # m => SumOver(qty', TravellingOf(m)') = way
    BY <1>6, <2>1, RoadGains DEF way
  <2>3. /\ Src(r)[2] = m => SumOver(stock', PlacesOf(m)) = shelves - qty[r]
        /\ Src(r)[2] # m => SumOver(stock', PlacesOf(m)) = shelves
    <3> DEFINE d == qty[r]
               l == Src(r)
    <3>1. stock' = [stock EXCEPT ![l] = @ - d] /\ d \in Int /\ l \in Loc
      BY <1>1, <1>6, <2>1
    <3> HIDE DEF d, l
    <3>2. /\ l[2] = m => SumOver(stock', PlacesOf(m)) = shelves - d
          /\ l[2] # m => SumOver(stock', PlacesOf(m)) = shelves
      BY <3>1, GoodsTaken DEF shelves
    <3> QED BY <3>2 DEF d, l
  <2> QED BY <1>1, <1>2, <1>3, <2>2, <2>3
<1>7. ASSUME NEW r \in Req, Place(r) \in Loc, Ledger!Issue(Place(r), qty[r])
      PROVE  GoodsOf(m)' = IF Place(r)[2] = m THEN GoodsOf(m) - qty[r] ELSE GoodsOf(m)
  <2>1. stock' = [stock EXCEPT ![Place(r)] = @ - qty[r]] /\ UNCHANGED OnTheRoad
    BY <1>7 DEF Ledger!Issue, Ledger!Take
  <2>2. SumOver(qty', TravellingOf(m)') = way
    BY <2>1, RoadStays DEF way
  <2>3. /\ Place(r)[2] = m => SumOver(stock', PlacesOf(m)) = shelves - qty[r]
        /\ Place(r)[2] # m => SumOver(stock', PlacesOf(m)) = shelves
    <3> DEFINE d == qty[r]
               l == Place(r)
    <3>1. stock' = [stock EXCEPT ![l] = @ - d] /\ d \in Int /\ l \in Loc
      BY <1>1, <1>7, <2>1
    <3> HIDE DEF d, l
    <3>2. /\ l[2] = m => SumOver(stock', PlacesOf(m)) = shelves - d
          /\ l[2] # m => SumOver(stock', PlacesOf(m)) = shelves
      BY <3>1, GoodsTaken DEF shelves
    <3> QED BY <3>2 DEF d, l
  <2> QED BY <1>1, <1>2, <1>3, <2>2, <2>3
<1>8. ASSUME NEW l \in Loc, NEW q \in Counts, SetInventory(l, q), Ledger!Count(l, q)
      PROVE  KeepsGoods(m)
  <2>1. CASE l[2] = m
    BY <1>8, <2>1 DEF KeepsGoods, PlacesOf
  <2>2. CASE l[2] # m
    <3>1. SumOver(qty', TravellingOf(m)') = way
      BY <1>8, RoadStays DEF Ledger!Count, way
    <3>2. IsFiniteSet(PlacesOf(m))
      BY MovementAssumption, FS_Subset DEF PlacesOf
    <3>3. \A p \in PlacesOf(m) : stock[p] = stock'[p]
      BY <1>8, <2>2 DEF PlacesOf, Ledger!Count, TypeOK, InventoryTypeOK
    <3>4. shelves = SumOver(stock', PlacesOf(m))
      BY <3>2, <3>3, SumOverSame DEF shelves
    <3> QED BY <1>3, <3>1, <3>4 DEF KeepsGoods
  <2> QED BY <2>1, <2>2
<1> QED BY <1>4, <1>5, <1>6, <1>7, <1>8 DEF LedgerMove, KeepsGoods

(***************************************************************************)
(* Goods are conserved by every movement: transfers, their compensations,  *)
(* failed statements and deaths neither make nor lose goods of a material. *)
(***************************************************************************)
THEOREM MovementsConserveGoods == Spec => GoodsConserved
<1>1. TypeOK /\ CallsKnowDoc /\ GoodsFollowCall /\ [Next]_vars /\ TypeOK'
        => [\A m \in Material : KeepsGoods(m)]_vars
  BY LedgerStep, GoodsConservedStep
<1>2. Init => GoodsFollowCall
  BY InitMovement
<1>3. TypeOK /\ GoodsFollowCall /\ [Next]_vars => GoodsFollowCall'
  BY GoodsStep
<1> QED BY <1>1, <1>2, <1>3, MovementTypeOK, PTL DEF Spec, GoodsConserved

=============================================================================
