---------------------------- MODULE StockMovement ----------------------------
(***************************************************************************)
(* ExecuteTransfer and IssueRequisition of order_service.go and Set of     *)
(* inventory_service.go.  A transfer holds the lock of its source while it *)
(* asks for the lock of its target, and puts the goods back when it is     *)
(* refused; there is no transaction around its two stock updates.          *)
(*                                                                         *)
(* Documents exist from the start (CreateTransfer and CreateRequisition    *)
(* insert one row each); a request executes one of them and ends.          *)
(***************************************************************************)
EXTENDS Inventory

CONSTANTS
  Req, NoReq, Orphan,
  Transfer,             \* transfer orders
  SrcOf, TgtOf,         \* their source and target, places of one material
  Requisition,          \* requisitions
  PlaceOf,              \* the place they take goods from
  QtyOf,                \* quantity of a transfer or of a requisition
  Quantity,             \* quantities a user may enter
  Counts,               \* among them, what a stocktaking may enter
  InitRows, InitStock,
  LockMode, RedisFaults,
  Faults,               \* "adjust", "status": such statements may fail;
                        \* "reply": one may be applied and report an error
  Crashes

ASSUME MovementAssumption ==
  /\ SrcOf \in [Transfer -> Loc] /\ TgtOf \in [Transfer -> Loc]
  /\ \A t \in Transfer : SrcOf[t][2] = TgtOf[t][2]
  /\ PlaceOf \in [Requisition -> Loc]
  /\ QtyOf \in [Transfer \cup Requisition -> Quantity]
  /\ Quantity \subseteq Int /\ Counts \subseteq Quantity
  /\ InitRows \subseteq Loc /\ InitStock \in [Loc -> Int]
  /\ Transfer \cap Requisition = {}
  /\ Transfer \cup Requisition # {}
  /\ NoReq \notin Req /\ Orphan \notin Req \cup {NoReq}
  /\ IsFiniteSet(Req) /\ IsFiniteSet(Loc)

Doc == Transfer \cup Requisition

VARIABLES
  lockKey,
  status,      \* of each document: draft, completed, issued
  issuedQty,   \* issued_qty of each requisition
  pc,
  doc,         \* the document a request executes
  qty,         \* the quantity it moves
  carrying,    \* requests that took goods and did not put them anywhere yet
  lost         \* requests whose goods a failed statement left nowhere

vars == <<lockKey, inventoryVars, status, issuedQty, pc, doc, qty, carrying, lost>>

Locks == INSTANCE LockTable WITH Key <- Loc, Holder <- Req, NoHolder <- NoReq

Ended == {"ok", "failed", "conflict", "panic", "dead"}
TransferSteps == {"lockSrc", "takeSrc", "lockTgt", "putTgt", "putBack",
                  "freeTgt", "freeSrc", "freeSrcErr", "save"}
IssueSteps == {"lockPlace", "take", "freePlace", "freePlaceErr", "saveIssue"}
Active(r) == pc[r] \in TransferSteps \cup IssueSteps

Src(r) == SrcOf[doc[r]]
Tgt(r) == TgtOf[doc[r]]
Place(r) == PlaceOf[doc[r]]

Goto(r, label) == pc' = [pc EXCEPT ![r] = label]

Init ==
  /\ stock = InitStock /\ rows = InitRows
  /\ Locks!LockTableInit
  /\ status = [d \in Doc |-> "draft"]
  /\ issuedQty = [d \in Requisition |-> 0]
  /\ pc = [r \in Req |-> "idle"]
  /\ doc = [r \in Req |-> CHOOSE d \in Doc : TRUE]
  /\ qty = [r \in Req |-> 0]
  /\ carrying = {} /\ lost = {}

-----------------------------------------------------------------------------
(***************************************************************************)
(* ExecuteTransfer, from any status of the order.                          *)
(***************************************************************************)
StartTransfer(r, t) ==
  /\ pc[r] = "idle"
  /\ doc' = [doc EXCEPT ![r] = t]
  /\ qty' = [qty EXCEPT ![r] = QtyOf[t]]
  /\ Goto(r, "lockSrc")
  /\ UNCHANGED <<lockKey, inventoryVars, status, issuedQty, carrying, lost>>

LockSource(r) ==
  /\ pc[r] = "lockSrc"
  /\ \/ Locks!Granted(r, Src(r)) /\ Goto(r, "takeSrc")
     \/ Locks!Refused(Src(r)) /\ Goto(r, "conflict")
     \/ LockMode = "nilprovider" /\ UNCHANGED lockKey /\ Goto(r, "panic")
  /\ UNCHANGED <<inventoryVars, status, issuedQty, doc, qty, carrying, lost>>

\* Too little stock and a failed statement are one error; the failed
\* statement may have been applied before its reply was lost.
TakeSource(r) ==
  /\ pc[r] = "takeSrc"
  /\ \/ /\ AdjustQuantityWithCheck(Src(r), 0 - qty[r])
        /\ \/ /\ carrying' = carrying \cup {r} /\ UNCHANGED lost
              /\ Goto(r, "lockTgt")
           \/ /\ "reply" \in Faults
              /\ lost' = lost \cup {r} /\ UNCHANGED carrying
              /\ Goto(r, "freeSrcErr")
     \/ /\ ~ Accepted(Src(r), 0 - qty[r]) \/ "adjust" \in Faults
        /\ UNCHANGED <<inventoryVars, carrying, lost>>
        /\ Goto(r, "freeSrcErr")
  /\ UNCHANGED <<lockKey, status, issuedQty, doc, qty>>

\* Defect: wait for the target with the source held.
LockTargetBlocking(r) ==
  /\ pc[r] = "lockTgt"
  /\ Locks!Granted(r, Tgt(r)) /\ Goto(r, "putTgt")
  /\ UNCHANGED <<inventoryVars, status, issuedQty, doc, qty, carrying, lost>>

\* Defect: a refused target returns without putting the goods back.
LockTargetNoCompensation(r) ==
  /\ pc[r] = "lockTgt"
  /\ \/ Locks!Granted(r, Tgt(r)) /\ Goto(r, "putTgt")
     \/ Locks!Refused(Tgt(r)) /\ Goto(r, "freeSrcErr")
  /\ UNCHANGED <<inventoryVars, status, issuedQty, doc, qty, carrying, lost>>

LockTarget(r) ==
  /\ pc[r] = "lockTgt"
  /\ \/ Locks!Granted(r, Tgt(r)) /\ Goto(r, "putTgt")
     \/ Locks!Refused(Tgt(r)) /\ Goto(r, "putBack")
  /\ UNCHANGED <<inventoryVars, status, issuedQty, doc, qty, carrying, lost>>

\* An unchecked AdjustQuantity whose error is ignored.
PutAt(r, l) ==
  /\ carrying' = carrying \ {r}
  /\ \/ AdjustQuantity(l, qty[r]) /\ UNCHANGED lost
     \/ "adjust" \in Faults /\ lost' = lost \cup {r} /\ UNCHANGED inventoryVars

PutTarget(r) ==
  /\ pc[r] = "putTgt"
  /\ PutAt(r, Tgt(r))
  /\ Goto(r, "freeTgt")
  /\ UNCHANGED <<lockKey, status, issuedQty, doc, qty>>

\* Defect: the compensation keeps the sign of the withdrawal.
PutBackNegative(r) ==
  /\ pc[r] = "putBack"
  /\ AdjustQuantity(Src(r), 0 - qty[r]) /\ carrying' = carrying \ {r}
  /\ UNCHANGED lost
  /\ Goto(r, "freeSrcErr")
  /\ UNCHANGED <<lockKey, status, issuedQty, doc, qty>>

PutBack(r) ==
  /\ pc[r] = "putBack"
  /\ PutAt(r, Src(r))
  /\ Goto(r, "freeSrcErr")
  /\ UNCHANGED <<lockKey, status, issuedQty, doc, qty>>

FreeTarget(r) ==
  /\ pc[r] = "freeTgt"
  /\ Locks!Released(r, Tgt(r))
  /\ Goto(r, "freeSrc")
  /\ UNCHANGED <<inventoryVars, status, issuedQty, doc, qty, carrying, lost>>

\* Defect: only the success path releases the source.
FreeSourceOnSuccess(r) ==
  /\ pc[r] \in {"freeSrc", "freeSrcErr"}
  /\ IF pc[r] = "freeSrc"
     THEN Locks!Released(r, Src(r)) /\ Goto(r, "save")
     ELSE UNCHANGED lockKey /\ Goto(r, "failed")
  /\ UNCHANGED <<inventoryVars, status, issuedQty, doc, qty, carrying, lost>>

FreeSource(r) ==
  /\ pc[r] \in {"freeSrc", "freeSrcErr"}
  /\ Locks!Released(r, Src(r))
  /\ Goto(r, IF pc[r] = "freeSrc" THEN "save" ELSE "failed")
  /\ UNCHANGED <<inventoryVars, status, issuedQty, doc, qty, carrying, lost>>

\* The error of UpdateTransferOrder is ignored.
SaveTransfer(r) ==
  /\ pc[r] = "save"
  /\ \/ status' = [status EXCEPT ![doc[r]] = "completed"]
     \/ "status" \in Faults /\ UNCHANGED status
  /\ Goto(r, "ok")
  /\ UNCHANGED <<lockKey, inventoryVars, issuedQty, doc, qty, carrying, lost>>

-----------------------------------------------------------------------------
(***************************************************************************)
(* IssueRequisition: any quantity, from any status.                        *)
(***************************************************************************)
StartIssue(r, d, q) ==
  /\ pc[r] = "idle"
  /\ doc' = [doc EXCEPT ![r] = d]
  /\ qty' = [qty EXCEPT ![r] = q]
  /\ Goto(r, "lockPlace")
  /\ UNCHANGED <<lockKey, inventoryVars, status, issuedQty, carrying, lost>>

LockPlace(r) ==
  /\ pc[r] = "lockPlace"
  /\ \/ Locks!Granted(r, Place(r)) /\ Goto(r, "take")
     \/ Locks!Refused(Place(r)) /\ Goto(r, "conflict")
     \/ LockMode = "nilprovider" /\ UNCHANGED lockKey /\ Goto(r, "panic")
  /\ UNCHANGED <<inventoryVars, status, issuedQty, doc, qty, carrying, lost>>

TakeForIssue(r) ==
  /\ pc[r] = "take"
  /\ \/ /\ AdjustQuantityWithCheck(Place(r), 0 - qty[r])
        /\ \/ Goto(r, "freePlace")
           \/ "reply" \in Faults /\ Goto(r, "freePlaceErr")
     \/ /\ ~ Accepted(Place(r), 0 - qty[r]) \/ "adjust" \in Faults
        /\ UNCHANGED inventoryVars
        /\ Goto(r, "freePlaceErr")
  /\ UNCHANGED <<lockKey, status, issuedQty, doc, qty, carrying, lost>>

FreePlace(r) ==
  /\ pc[r] \in {"freePlace", "freePlaceErr"}
  /\ Locks!Released(r, Place(r))
  /\ Goto(r, IF pc[r] = "freePlace" THEN "saveIssue" ELSE "failed")
  /\ UNCHANGED <<inventoryVars, status, issuedQty, doc, qty, carrying, lost>>

\* A failing UPDATE is reported, with the goods already gone.
SaveIssue(r) ==
  /\ pc[r] = "saveIssue"
  /\ \/ /\ status' = [status EXCEPT ![doc[r]] = "issued"]
        /\ issuedQty' = [issuedQty EXCEPT ![doc[r]] = qty[r]]
        /\ Goto(r, "ok")
     \/ "status" \in Faults /\ UNCHANGED <<status, issuedQty>> /\ Goto(r, "failed")
  /\ UNCHANGED <<lockKey, inventoryVars, doc, qty, carrying, lost>>

-----------------------------------------------------------------------------
\* InventoryService.Set takes no lock.
SetInventory(l, q) ==
  /\ Upsert(l, q)
  /\ UNCHANGED <<lockKey, status, issuedQty, pc, doc, qty, carrying, lost>>

\* An attempt at a lock sets the key but its reply is lost: still trying.
LockReplyLost(r) ==
  /\ \/ pc[r] = "lockSrc" /\ Locks!ReplyLost(Src(r))
     \/ pc[r] = "lockTgt" /\ Locks!ReplyLost(Tgt(r))
     \/ pc[r] = "lockPlace" /\ Locks!ReplyLost(Place(r))
  /\ UNCHANGED <<inventoryVars, status, issuedQty, pc, doc, qty, carrying, lost>>

Crash(r) ==
  /\ Crashes /\ Active(r)
  /\ Goto(r, "dead")
  /\ UNCHANGED <<lockKey, inventoryVars, status, issuedQty, doc, qty, carrying, lost>>

LockExpires(l) ==
  /\ Locks!KeyExpires(l)
  /\ UNCHANGED <<inventoryVars, status, issuedQty, pc, doc, qty, carrying, lost>>

Step(r) ==
  \/ LockSource(r) \/ TakeSource(r) \/ LockTarget(r) \/ PutTarget(r) \/ PutBack(r)
  \/ FreeTarget(r) \/ FreeSource(r) \/ SaveTransfer(r)
  \/ LockPlace(r) \/ TakeForIssue(r) \/ FreePlace(r) \/ SaveIssue(r)

Next ==
  \/ \E r \in Req :
       \/ \E t \in Transfer : StartTransfer(r, t)
       \/ \E d \in Requisition, q \in Quantity : StartIssue(r, d, q)
       \/ Step(r) \/ LockReplyLost(r) \/ Crash(r)
  \/ \E l \in Loc, q \in Counts : SetInventory(l, q)
  \/ \E l \in Loc : LockExpires(l)

Fairness == \A r \in Req : WF_vars(Step(r))

Spec == Init /\ [][Next]_vars /\ Fairness

-----------------------------------------------------------------------------
\* Stock, documents and calls keep their types.
TypeOK ==
  /\ InventoryTypeOK
  /\ Locks!LockTableTypeOK
  /\ status \in [Doc -> {"draft", "completed", "issued"}]
  /\ issuedQty \in [Requisition -> Quantity \cup {0}]
  /\ pc \in [Req -> {"idle"} \cup TransferSteps \cup IssueSteps \cup Ended]
  /\ doc \in [Req -> Doc]
  /\ qty \in [Req -> Quantity \cup {0}]
  /\ carrying \in SUBSET Req /\ lost \in SUBSET Req

(***************************************************************************)
(* A transfer that returned, completed or not, left nothing on the road:   *)
(* its goods are at the target or, when the target was refused, back at    *)
(* the source.  Only a request that died may keep goods, and only a failed *)
(* statement loses any.                                                    *)
(***************************************************************************)
NothingLeftOnTheRoad == \A r \in carrying : pc[r] \notin Ended \ {"dead"}

(***************************************************************************)
(* No path out of a transfer or an issue, with two locks or one, leaves a  *)
(* key behind.                                                             *)
(***************************************************************************)
NoKeyLeftBehind ==
  \A r \in Req, l \in Loc : pc[r] \in Ended \ {"dead"} => lockKey[l] # r

(***************************************************************************)
(* Opposite transfers, a transfer onto its own warehouse, and transfers    *)
(* racing issues all return: holding the source while asking for the       *)
(* target never blocks for ever, because asking is bounded.                *)
(***************************************************************************)
MovementsReturn == \A r \in Req : Active(r) ~> pc[r] \in Ended

(***************************************************************************)
(* The movements keep the promise of GoodsLedger, also when statements     *)
(* fail, replies are lost and requests die.                                *)
(***************************************************************************)
OnTheRoad == [r \in Req |-> IF r \in carrying \cup lost THEN <<Src(r), qty[r]>> ELSE <<>>]

Ledger == INSTANCE GoodsLedger
            WITH Shelf <- Loc, Carrier <- Req, Incoming <- {},
                 onShelf <- stock, known <- rows, road <- OnTheRoad

LedgerKept == Ledger!Spec

(***************************************************************************)
(* Whatever fails, the goods of a material, on its shelves and on the      *)
(* road, become fewer only by what a requisition takes, and otherwise only *)
(* a stocktaking makes them more or fewer: no step of a transfer, and no   *)
(* compensation, makes or loses any.                                       *)
(***************************************************************************)
TravellingOf(m) == {r \in carrying \cup lost : Src(r)[2] = m}
GoodsOf(m) == SumOver(stock, PlacesOf(m)) + SumOver(qty, TravellingOf(m))

KeepsGoods(m) ==
  \/ GoodsOf(m)' = GoodsOf(m)
  \/ \E r \in Req : /\ TakeForIssue(r) /\ Place(r)[2] = m
                    /\ GoodsOf(m)' = GoodsOf(m) - qty[r]
  \/ \E l \in PlacesOf(m), q \in Counts : SetInventory(l, q)

GoodsConserved == [][\A m \in Material : KeepsGoods(m)]_vars

=============================================================================
