--------------------------- MODULE PurchaseReceipt ---------------------------
(***************************************************************************)
(* Purchase orders from creation to goods received: CreatePurchaseOrder    *)
(* and ReceivePurchase of order_service.go, the quality inspections of     *)
(* quality_inspection_service.go and its QualifiedAutoReceive, and the     *)
(* batch desk, which writes the status of an order past all of them.       *)
(*                                                                         *)
(* Each HTTP request is a member of Req that makes one call and ends; a    *)
(* retry is another member.  Every database or Redis command is a step of  *)
(* its own, so calls interleave between any two commands.                  *)
(***************************************************************************)
EXTENDS Inventory

CONSTANTS
  Req, NoReq, Orphan,
  Order, Item, Inspection,
  OrderOf,            \* [Item -> Order]
  MatOf,              \* [Item -> Material]
  Ordered,            \* [Item -> quantity ordered]
  LockMode, RedisFaults,
  ItemTenantColumn,   \* TRUE if purchase_order_items has the enterprise_id
                      \* column that the item updates filter on; the
                      \* migrations create it without
  Faults,             \* statements that may fail: see FaultKinds
  Crashes             \* TRUE if a request may die between two steps

FaultKinds == {"create", "list", "adjust", "record", "status"}

ASSUME ReceiptAssumption ==
  /\ OrderOf \in [Item -> Order]
  /\ MatOf \in [Item -> Material]
  /\ Ordered \in [Item -> Nat]
  /\ ItemTenantColumn \in BOOLEAN
  /\ Crashes \in BOOLEAN
  /\ Faults \subseteq FaultKinds
  /\ NoReq \notin Req /\ Orphan \notin Req \cup {NoReq}
  /\ Order # {} /\ Item # {} /\ Inspection # {} /\ Warehouse # {}
  /\ IsFiniteSet(Item) /\ IsFiniteSet(Loc)

VARIABLES
  lockKey,
  status,       \* of each order; "none": not created
  creating,     \* orders whose CreatePurchaseOrder is still inserting items
  placed,       \* item rows that exist
  received,     \* received_qty of each item
  qi,           \* status of each inspection; "none": not created
  qiOrder,      \* the order an inspection is for
  checks,       \* results of the inspection's items
  pc,           \* what each request does next, or how it ended
  entry,        \* the service method a request runs
  ord, wh, insp, \* its arguments
  todo,         \* items its loop has not finished
  snap,         \* received_qty as the request read it
  item,         \* the loop variable
  moved,        \* history: quantity each item ever brought into stock
  late,         \* history: items inserted after a receipt had listed its order
  byHand,       \* history: orders whose status the batch desk wrote last
  doubtful      \* history: items that may be in stock beyond their record:
                \* two receipts overlapped on them, or a record was lost

orderVars == <<status, creating, placed, received>>
qiVars == <<qi, qiOrder, checks>>
argVars == <<entry, ord, wh, insp>>
loopVars == <<todo, snap, item>>
histVars == <<moved, late, byHand, doubtful>>
vars == <<lockKey, inventoryVars, orderVars, qiVars, pc, argVars, loopVars,
          histVars>>

Locks == INSTANCE LockTable WITH Key <- Loc, Holder <- Req, NoHolder <- NoReq

Ended == {"ok", "failed", "conflict", "panic", "dead"}
InLoop == {"loop", "lock", "adjust", "unlock", "unlockErr", "record"}
Active(r) == pc[r] # "idle" /\ pc[r] \notin Ended

ItemsOf(o) == {i \in Item : OrderOf[i] = o}
Place(r) == <<wh[r], MatOf[item[r]]>>
Missing(r, i) == Ordered[i] - snap[r][i]

Goto(r, label) == pc' = [pc EXCEPT ![r] = label]

AnyOf(S) == CHOOSE x \in S : TRUE

Init ==
  /\ InventoryInit
  /\ Locks!LockTableInit
  /\ status = [o \in Order |-> "none"]
  /\ creating = {} /\ placed = {}
  /\ late = {} /\ byHand = {} /\ doubtful = {}
  /\ received = [i \in Item |-> 0]
  /\ moved = [i \in Item |-> 0]
  /\ qi = [q \in Inspection |-> "none"]
  /\ qiOrder = [q \in Inspection |-> AnyOf(Order)]
  /\ checks = [q \in Inspection |-> {}]
  /\ pc = [r \in Req |-> "idle"]
  /\ entry = [r \in Req |-> "receive"]
  /\ ord = [r \in Req |-> AnyOf(Order)]
  /\ wh = [r \in Req |-> AnyOf(Warehouse)]
  /\ insp = [r \in Req |-> AnyOf(Inspection)]
  /\ todo = [r \in Req |-> {}]
  /\ snap = [r \in Req |-> [i \in Item |-> 0]]
  /\ item = [r \in Req |-> AnyOf(Item)]

-----------------------------------------------------------------------------
(***************************************************************************)
(* CreatePurchaseOrder: the order row, then one row per item, no           *)
(* transaction around them.  The order can be received at once.            *)
(***************************************************************************)
CreatePurchaseOrder(o) ==
  /\ status[o] = "none"
  /\ status' = [status EXCEPT ![o] = "draft"]
  /\ creating' = creating \cup {o}
  /\ UNCHANGED <<lockKey, inventoryVars, placed, received, qiVars, pc, argVars,
                 loopVars, histVars>>

\* Receipts of o that will not read its items again.
HasListed(r, o) == ord[r] = o /\ pc[r] \in InLoop

CreatePurchaseOrderItem(i) ==
  LET o == OrderOf[i] IN
  /\ o \in creating /\ i \notin placed
  /\ placed' = placed \cup {i}
  /\ late' = IF \/ status[o] = "received" /\ o \notin byHand
                \/ \E r \in Req : HasListed(r, o)
             THEN late \cup {i} ELSE late
  /\ UNCHANGED <<lockKey, inventoryVars, status, creating, received, qiVars,
                 pc, argVars, loopVars, moved, byHand, doubtful>>

\* The call ends: every item is there, or an INSERT failed, or it died.
CreatePurchaseOrderReturns(o) ==
  /\ o \in creating
  /\ ItemsOf(o) \subseteq placed \/ "create" \in Faults \/ Crashes
  /\ creating' = creating \ {o}
  /\ UNCHANGED <<lockKey, inventoryVars, status, placed, received, qiVars, pc,
                 argVars, loopVars, histVars>>

(***************************************************************************)
(* BatchStatusChange of the batch desk: one update by id, of an order in   *)
(* any status and to any word; all that matters of a word is whether it    *)
(* reads received.                                                         *)
(***************************************************************************)
AnyWord == {"draft", "received"}

BatchStatusChange(o, word) ==
  /\ status[o] # "none"
  /\ status' = [status EXCEPT ![o] = word]
  /\ byHand' = byHand \cup {o}
  /\ UNCHANGED <<lockKey, inventoryVars, creating, placed, received, qiVars, pc,
                 argVars, loopVars, moved, late, doubtful>>

-----------------------------------------------------------------------------
(***************************************************************************)
(* Quality inspections.                                                    *)
(***************************************************************************)
InsertInspection(q, o) ==
  /\ qi[q] = "none"
  /\ qi' = [qi EXCEPT ![q] = "pending"]
  /\ qiOrder' = [qiOrder EXCEPT ![q] = o]

\* POST /quality-inspections.
CreateInspection(q, o) ==
  /\ InsertInspection(q, o)
  /\ UNCHANGED <<lockKey, inventoryVars, orderVars, checks, pc, argVars,
                 loopVars, histVars>>

\* Allowed whatever the status of the inspection.  The handler stores every
\* item as pending, and nothing changes an item afterwards.
AddInspectionItem(q) ==
  /\ qi[q] # "none"
  /\ checks' = [checks EXCEPT ![q] = @ \cup {"pending"}]
  /\ UNCHANGED <<lockKey, inventoryVars, orderVars, qi, qiOrder, pc, argVars,
                 loopVars, histVars>>

\* CompleteInspection finds the inspection; only a pending one goes on.
StartComplete(r, q) ==
  /\ pc[r] = "idle"
  /\ qi[q] = "pending"
  /\ entry' = [entry EXCEPT ![r] = "complete"]
  /\ insp' = [insp EXCEPT ![r] = q]
  /\ Goto(r, "listChecks")
  /\ UNCHANGED <<lockKey, inventoryVars, orderVars, qiVars, ord, wh, loopVars,
                 histVars>>

\* A failed item decides; the verdict is kept in pc.
ListInspectionItems(r) ==
  /\ pc[r] = "listChecks"
  /\ \/ /\ checks[insp[r]] = {} \/ "list" \in Faults
        /\ Goto(r, "failed")
     \/ /\ checks[insp[r]] # {}
        /\ Goto(r, IF "fail" \in checks[insp[r]] THEN "unqualified" ELSE "qualified")
  /\ UNCHANGED <<lockKey, inventoryVars, orderVars, qiVars, argVars, loopVars,
                 histVars>>

\* Save writes the row read by StartComplete, whatever it holds by now.
SaveVerdict(r) ==
  /\ pc[r] \in {"qualified", "unqualified"}
  /\ \/ qi' = [qi EXCEPT ![insp[r]] = pc[r]] /\ Goto(r, "ok")
     \/ "status" \in Faults /\ UNCHANGED qi /\ Goto(r, "failed")
  /\ UNCHANGED <<lockKey, inventoryVars, orderVars, qiOrder, checks, argVars,
                 loopVars, histVars>>

-----------------------------------------------------------------------------
(***************************************************************************)
(* ReceivePurchase with require_inspection: an inspection is created and   *)
(* the order is marked, nothing moves.                                     *)
(***************************************************************************)
StartInspectedReceive(r, o, q) ==
  /\ pc[r] = "idle"
  /\ status[o] # "none"
  /\ \/ InsertInspection(q, o) /\ Goto(r, "mark")
     \/ "create" \in Faults /\ UNCHANGED <<qi, qiOrder>> /\ Goto(r, "failed")
  /\ entry' = [entry EXCEPT ![r] = "inspect"]
  /\ ord' = [ord EXCEPT ![r] = o]
  /\ insp' = [insp EXCEPT ![r] = q]
  /\ UNCHANGED <<lockKey, inventoryVars, orderVars, checks, wh, loopVars, histVars>>

SetStatus(o, s) ==
  /\ status' = [status EXCEPT ![o] = s]
  /\ byHand' = byHand \ {o}

\* The error of UpdatePurchaseOrder is ignored.
MarkInspecting(r) ==
  /\ pc[r] = "mark"
  /\ \/ SetStatus(ord[r], "inspecting")
     \/ "status" \in Faults /\ UNCHANGED <<status, byHand>>
  /\ Goto(r, "ok")
  /\ UNCHANGED <<lockKey, inventoryVars, creating, placed, received, qiVars,
                 argVars, loopVars, moved, late, doubtful>>

-----------------------------------------------------------------------------
(***************************************************************************)
(* The receipt loop, shared by ReceivePurchase and QualifiedAutoReceive.   *)
(***************************************************************************)
StartReceive(r, o, w) ==
  /\ pc[r] = "idle"
  /\ status[o] # "none"
  /\ entry' = [entry EXCEPT ![r] = "receive"]
  /\ ord' = [ord EXCEPT ![r] = o]
  /\ wh' = [wh EXCEPT ![r] = w]
  /\ Goto(r, "list")
  /\ UNCHANGED <<lockKey, inventoryVars, orderVars, qiVars, insp, loopVars,
                 histVars>>

StartAutoReceive(r, q, w) ==
  /\ pc[r] = "idle"
  /\ qi[q] = "qualified"
  /\ entry' = [entry EXCEPT ![r] = "auto"]
  /\ ord' = [ord EXCEPT ![r] = qiOrder[q]]
  /\ wh' = [wh EXCEPT ![r] = w]
  /\ insp' = [insp EXCEPT ![r] = q]
  /\ Goto(r, "list")
  /\ UNCHANGED <<lockKey, inventoryVars, orderVars, qiVars, loopVars, histVars>>

\* A request that will still bring i into stock, or has and not recorded it.
Handles(r, i) == pc[r] \in InLoop /\ i \in todo[r] /\ Missing(r, i) > 0

\* ListPurchaseOrderItems; its error is ignored and leaves no items.
ListItems(r) ==
  /\ pc[r] = "list"
  /\ \/ todo' = [todo EXCEPT ![r] = ItemsOf(ord[r]) \cap placed]
     \/ "list" \in Faults /\ todo' = [todo EXCEPT ![r] = {}]
  /\ snap' = [snap EXCEPT ![r] = received]
  /\ Goto(r, "loop")
  /\ doubtful' = doubtful \cup {i \in todo'[r] : \E s \in Req : Handles(s, i)}
  /\ UNCHANGED <<lockKey, inventoryVars, orderVars, qiVars, argVars, item, moved,
                 late, byHand>>

\* The next item, in the order the database returned them: any.  Nothing is
\* missing, or its lock is taken next.
SkipItem(r, i) ==
  /\ pc[r] = "loop" /\ i \in todo[r]
  /\ Missing(r, i) <= 0
  /\ todo' = [todo EXCEPT ![r] = @ \ {i}]
  /\ UNCHANGED <<lockKey, inventoryVars, orderVars, qiVars, pc, argVars, snap,
                 item, histVars>>

TakeItem(r, i) ==
  /\ pc[r] = "loop" /\ i \in todo[r]
  /\ Missing(r, i) > 0
  /\ item' = [item EXCEPT ![r] = i]
  /\ Goto(r, "lock")
  /\ UNCHANGED <<lockKey, inventoryVars, orderVars, qiVars, argVars, todo, snap,
                 histVars>>

\* AcquireInventoryLock: granted, refused after its retries, or the panic of
\* a nil provider.
LockItem(r) ==
  /\ pc[r] = "lock"
  /\ \/ Locks!Granted(r, Place(r)) /\ Goto(r, "adjust")
     \/ Locks!Refused(Place(r)) /\ Goto(r, "conflict")
     \/ LockMode = "nilprovider" /\ UNCHANGED lockKey /\ Goto(r, "panic")
  /\ UNCHANGED <<inventoryVars, orderVars, qiVars, argVars, loopVars, histVars>>

\* An attempt that sets the key but loses its reply leaves the caller trying.
LockReplyLost(r) ==
  /\ pc[r] = "lock"
  /\ Locks!ReplyLost(Place(r))
  /\ UNCHANGED <<inventoryVars, orderVars, qiVars, pc, argVars, loopVars, histVars>>

\* Defect: the error of the adjustment is ignored, as in ExecuteTransfer.
AdjustStockUnchecked(r) ==
  LET i == item[r] IN
  /\ pc[r] = "adjust"
  /\ \/ /\ AdjustQuantity(Place(r), Missing(r, i))
        /\ moved' = [moved EXCEPT ![i] = @ + Missing(r, i)]
     \/ "adjust" \in Faults /\ UNCHANGED <<inventoryVars, moved>>
  /\ Goto(r, "unlock")
  /\ UNCHANGED <<lockKey, orderVars, qiVars, argVars, loopVars, late, byHand, doubtful>>

Doubt(i) == doubtful' = doubtful \cup {i}

\* A failed statement may have been applied before its reply was lost.
AdjustStock(r) ==
  LET i == item[r] IN
  /\ pc[r] = "adjust"
  /\ \/ /\ AdjustQuantity(Place(r), Missing(r, i))
        /\ moved' = [moved EXCEPT ![i] = @ + Missing(r, i)]
        /\ \/ Goto(r, "unlock") /\ UNCHANGED doubtful
           \/ "adjust" \in Faults /\ Goto(r, "unlockErr") /\ Doubt(i)
     \/ /\ "adjust" \in Faults
        /\ UNCHANGED <<inventoryVars, moved, doubtful>>
        /\ Goto(r, "unlockErr")
  /\ UNCHANGED <<lockKey, orderVars, qiVars, argVars, loopVars, late, byHand>>

\* Defect: the error is returned before the lock is released.
UnlockItemOnSuccess(r) ==
  /\ pc[r] \in {"unlock", "unlockErr"}
  /\ IF pc[r] = "unlock"
     THEN Locks!Released(r, Place(r)) /\ Goto(r, "record")
     ELSE UNCHANGED lockKey /\ Goto(r, "failed")
  /\ UNCHANGED <<inventoryVars, orderVars, qiVars, argVars, loopVars, histVars>>

\* The lock is released before the error of the adjustment is looked at.
UnlockItem(r) ==
  /\ pc[r] \in {"unlock", "unlockErr"}
  /\ Locks!Released(r, Place(r))
  /\ Goto(r, IF pc[r] = "unlock" THEN "record" ELSE "failed")
  /\ UNCHANGED <<inventoryVars, orderVars, qiVars, argVars, loopVars, histVars>>

\* Defect: the total is written as it was read, without what was received.
RecordItemAsRead(r) ==
  /\ pc[r] = "record"
  /\ received' = [received EXCEPT ![item[r]] = snap[r][item[r]]]
  /\ todo' = [todo EXCEPT ![r] = @ \ {item[r]}]
  /\ Goto(r, "loop")
  /\ UNCHANGED <<lockKey, inventoryVars, status, creating, placed, qiVars,
                 argVars, snap, item, histVars>>

\* ReceivePurchase writes the total it computed from its snapshot,
\* QualifiedAutoReceive increments; both ignore the error.
RecordItem(r) ==
  LET i == item[r] IN
  /\ pc[r] = "record"
  /\ \/ /\ ItemTenantColumn
        /\ received' = [received EXCEPT ![i] =
             IF entry[r] = "auto" THEN @ + Missing(r, i) ELSE Ordered[i]]
        /\ UNCHANGED doubtful
     \/ /\ ~ ItemTenantColumn \/ "record" \in Faults
        /\ Doubt(i)
        /\ UNCHANGED received
  /\ todo' = [todo EXCEPT ![r] = @ \ {i}]
  /\ Goto(r, "loop")
  /\ UNCHANGED <<lockKey, inventoryVars, status, creating, placed, qiVars,
                 argVars, snap, item, moved, late, byHand>>

\* After the last item the order is received; the error is ignored, and an
\* inspection may name an order that does not exist.
FinishOrder(r) ==
  /\ pc[r] = "loop" /\ todo[r] = {}
  /\ \/ status[ord[r]] # "none" /\ SetStatus(ord[r], "received")
     \/ /\ status[ord[r]] = "none" \/ "status" \in Faults
        /\ UNCHANGED <<status, byHand>>
  /\ Goto(r, "ok")
  /\ UNCHANGED <<lockKey, inventoryVars, creating, placed, received, qiVars,
                 argVars, loopVars, moved, late, doubtful>>

-----------------------------------------------------------------------------
Crash(r) ==
  /\ Crashes /\ Active(r)
  /\ Goto(r, "dead")
  /\ doubtful' = IF pc[r] \in {"unlock", "record"}
                 THEN doubtful \cup {item[r]} ELSE doubtful
  /\ UNCHANGED <<lockKey, inventoryVars, orderVars, qiVars, argVars, loopVars,
                 moved, late, byHand>>

LockExpires(l) ==
  /\ Locks!KeyExpires(l)
  /\ UNCHANGED <<inventoryVars, orderVars, qiVars, pc, argVars, loopVars, histVars>>

Step(r) ==
  \/ ListInspectionItems(r) \/ SaveVerdict(r) \/ MarkInspecting(r)
  \/ ListItems(r) \/ \E i \in Item : SkipItem(r, i) \/ TakeItem(r, i)
  \/ LockItem(r) \/ AdjustStock(r) \/ UnlockItem(r) \/ RecordItem(r)
  \/ FinishOrder(r)

Start(r) ==
  \/ \E o \in Order, w \in Warehouse : StartReceive(r, o, w)
  \/ \E o \in Order, q \in Inspection : StartInspectedReceive(r, o, q)
  \/ \E q \in Inspection : StartComplete(r, q)
  \/ \E q \in Inspection, w \in Warehouse : StartAutoReceive(r, q, w)

Next ==
  \/ \E o \in Order : CreatePurchaseOrder(o) \/ CreatePurchaseOrderReturns(o)
  \/ \E i \in Item : CreatePurchaseOrderItem(i)
  \/ \E o \in Order, word \in AnyWord : BatchStatusChange(o, word)
  \/ \E q \in Inspection, o \in Order : CreateInspection(q, o)
  \/ \E q \in Inspection : AddInspectionItem(q)
  \/ \E r \in Req : Start(r) \/ Step(r) \/ LockReplyLost(r) \/ Crash(r)
  \/ \E l \in Loc : LockExpires(l)

Spec == Init /\ [][Next]_vars

-----------------------------------------------------------------------------
StoreTypeOK ==
  /\ InventoryTypeOK
  /\ Locks!LockTableTypeOK
  /\ status \in [Order -> {"none", "draft", "inspecting", "received"}]
  /\ creating \in SUBSET Order
  /\ placed \in SUBSET Item /\ late \in SUBSET placed
  /\ byHand \in SUBSET Order /\ doubtful \in SUBSET Item
  /\ received \in [Item -> Nat] /\ moved \in [Item -> Nat]
  /\ qi \in [Inspection -> {"none", "pending", "qualified", "unqualified"}]
  /\ qiOrder \in [Inspection -> Order]
  /\ checks \in [Inspection -> SUBSET {"pending"}]

CallTypeOK ==
  /\ pc \in [Req -> {"idle", "listChecks", "qualified", "unqualified", "mark",
                     "list"} \cup InLoop \cup Ended]
  /\ entry \in [Req -> {"receive", "inspect", "auto", "complete"}]
  /\ ord \in [Req -> Order] /\ wh \in [Req -> Warehouse]
  /\ insp \in [Req -> Inspection] /\ item \in [Req -> Item]
  /\ todo \in [Req -> SUBSET Item]
  /\ snap \in [Req -> [Item -> Nat]]

\* The tables and the variables of every call keep their types.
TypeOK == StoreTypeOK /\ CallTypeOK

(***************************************************************************)
(* An order that a receipt marked received has brought every item it had   *)
(* when the receipt listed it into stock, at least once in full:           *)
(* concurrent receipts, refused locks, failed and half-applied statements, *)
(* crashes and retries never let FinishOrder run over an item that never   *)
(* moved.  Of an order that the batch desk marked nothing is known.        *)
(***************************************************************************)
ReceivedMeansStocked ==
  \A i \in placed \ late :
    status[OrderOf[i]] = "received" /\ OrderOf[i] \notin byHand
      => moved[i] >= Ordered[i]

(***************************************************************************)
(* The books never run ahead of the shelves: received_qty, written as an   *)
(* absolute value by one entry point and as an increment by the other, is  *)
(* covered by goods that went into stock.                                  *)
(***************************************************************************)
RecordedMeansStocked == \A i \in Item : received[i] <= moved[i]

(***************************************************************************)
(* Goods are conserved: what the warehouses hold of a material is what     *)
(* receipts moved of its items, no update of a row is lost or applied      *)
(* twice.                                                                  *)
(***************************************************************************)
ItemsOfMaterial(m) == {i \in Item : MatOf[i] = m}

GoodsConserved ==
  \A m \in Material : SumOver(stock, PlacesOf(m)) = SumOver(moved, ItemsOfMaterial(m))

(***************************************************************************)
(* Receipts keep the promise of GoodsLedger: what an item lacks, and no    *)
(* more, is put onto one shelf at a time, and nothing is taken.            *)
(***************************************************************************)
Ledger == INSTANCE GoodsLedger
            WITH Shelf <- Loc, Carrier <- {}, onShelf <- stock, known <- rows, road <- <<>>,
                 Quantity <- {}, Incoming <- UNION {1 .. Ordered[i] : i \in Item}, Counts <- {}

LedgerKept == Ledger!Spec

(***************************************************************************)
(* A call that returned, with success or with any error, left no inventory *)
(* lock behind; only a call that died, or a Redis command that was lost    *)
(* (the key is then an orphan), may.                                       *)
(***************************************************************************)
NoKeyLeftBehind ==
  \A r \in Req, l \in Loc : pc[r] \in Ended \ {"dead"} => lockKey[l] # r

(***************************************************************************)
(* Receiving is idempotent: whichever of the two entry points is called    *)
(* how often, also after calls that failed or stopped half-way, more than  *)
(* was ordered comes into stock only of an item on which two receipts      *)
(* overlapped or the record of one was lost.                               *)
(***************************************************************************)
OverstockHasCause == \A i \in Item : moved[i] > Ordered[i] => i \in doubtful

(***************************************************************************)
(* What every step preserves and ReceivedMeansStocked follows from.        *)
(*   HandlesMissing: the loop variable is an unfinished item with a        *)
(*     positive quantity, so moved only grows;                             *)
(*   CreditMeansStocked: whoever writes or has read a positive             *)
(*     received_qty knows the item went into stock in full once;           *)
(*   LoopCovers: an item a receipt listed is still to do or in stock.      *)
(***************************************************************************)
Stocked(i) == moved[i] >= Ordered[i]

HandlesMissing ==
  \A r \in Req : pc[r] \in InLoop \ {"loop"} =>
    item[r] \in todo[r] /\ Missing(r, item[r]) > 0

CreditMeansStocked ==
  /\ \A i \in Item : received[i] > 0 => Stocked(i)
  /\ \A r \in Req, i \in Item : snap[r][i] > 0 => Stocked(i)
  /\ \A r \in Req : pc[r] \in {"unlock", "record"} => Stocked(item[r])

LoopCovers ==
  \A r \in Req : pc[r] \in InLoop =>
    \A i \in (ItemsOf(ord[r]) \cap placed) \ late : i \in todo[r] \/ Stocked(i)

ReceiptInv ==
  TypeOK /\ HandlesMissing /\ CreditMeansStocked /\ LoopCovers
  /\ ReceivedMeansStocked

\* A key belongs to a call inside its critical section, or to a dead one.
KeyHasUser ==
  \A r \in Req, l \in Loc : lockKey[l] = r =>
    \/ pc[r] \in {"adjust", "unlock", "unlockErr"} /\ l = Place(r)
    \/ pc[r] = "dead"

(***************************************************************************)
(* What every step preserves and RecordedMeansStocked follows from.  Units *)
(* of an item that are in stock but not yet in its record are under way,   *)
(* each with the request that will record it.                              *)
(*   RecordsCovered: what an item moved covers its record, and also what   *)
(*     any request has read of it, together with all units under way: a    *)
(*     request may yet write what it read plus what it moved.              *)
(***************************************************************************)
Recording(i) == {r \in Req : pc[r] \in {"unlock", "record"} /\ item[r] = i}
UnderWay(i) == UNION {{r} \X (1 .. Missing(r, i)) : r \in Recording(i)}

RecordsCovered ==
  \A i \in Item :
    /\ IsFiniteSet(UnderWay(i))
    /\ received[i] + Cardinality(UnderWay(i)) <= moved[i]
    /\ \A r \in Req : snap[r][i] + Cardinality(UnderWay(i)) <= moved[i]

(***************************************************************************)
(* What every step preserves and OverstockHasCause follows from.  An item  *)
(* nothing was lost of is handled by one request at a time, which knows    *)
(* its record, and is in stock as far as the record says, or in full while *)
(* the record is being written.                                            *)
(***************************************************************************)
RecordIsExact(i) ==
  /\ received[i] <= Ordered[i]
  /\ \A r \in Req : Handles(r, i) =>
       snap[r][i] = received[i] /\ \A s \in Req : Handles(s, i) => s = r
  /\ moved[i] = IF Recording(i) # {} THEN Ordered[i] ELSE received[i]

RecordsAreExact == \A i \in Item \ doubtful : RecordIsExact(i)

=============================================================================
