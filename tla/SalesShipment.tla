---------------------------- MODULE SalesShipment ----------------------------
(***************************************************************************)
(* Sales orders of order_service.go: CreateSalesOrder in any status the    *)
(* caller names, ChangeSalesOrderStatus with its transition table, and     *)
(* ShipSalesOrder, which takes the goods of an order out of a warehouse;   *)
(* and the batch desk, which writes the status of an order past all three. *)
(*                                                                         *)
(* A request makes one call and ends.  Every database or Redis command is  *)
(* a step of its own; the order row is saved whole by both handlers.       *)
(***************************************************************************)
EXTENDS Inventory

CONSTANTS
  Req, NoReq, Orphan,
  Order, Item,
  OrderOf, MatOf, Ordered,     \* of each item
  InitRows,                    \* locations that have a row at the start
  InitStock,                   \* and their quantities
  LockMode, RedisFaults,
  ItemTenantColumn,   \* TRUE if sales_order_items had the enterprise_id
                      \* column its update filters on; the migrations do not
  Faults,             \* statements that may fail
  Crashes,
  Operations          \* calls the run explores: "ship", "change", "batch"

FaultKinds == {"create", "list", "adjust", "record", "status"}

ASSUME ShipmentAssumption ==
  /\ OrderOf \in [Item -> Order]
  /\ MatOf \in [Item -> Material]
  /\ Ordered \in [Item -> Nat]
  /\ InitRows \subseteq Loc
  /\ InitStock \in [Loc -> Nat]
  /\ \A l \in Loc \ InitRows : InitStock[l] = 0
  /\ ItemTenantColumn \in BOOLEAN
  /\ Faults \subseteq FaultKinds
  /\ NoReq \notin Req /\ Orphan \notin Req \cup {NoReq}
  /\ Order # {} /\ Item # {} /\ Warehouse # {}
  /\ IsFiniteSet(Item) /\ IsFiniteSet(Loc)

VARIABLES
  lockKey,
  status,       \* of each order; "none": not created
  creating, placed, shipped,
  pc, entry, ord, wh,
  newStatus,    \* the status a ChangeSalesOrderStatus call will save
  todo, snap, item,
  moved,        \* history: quantity each item ever took out of stock
  late          \* history: items inserted after a shipment had listed its order

orderVars == <<status, creating, placed, shipped>>
argVars == <<entry, ord, wh, newStatus>>
loopVars == <<todo, snap, item>>
vars == <<lockKey, inventoryVars, orderVars, pc, argVars, loopVars, moved, late>>

Locks == INSTANCE LockTable WITH Key <- Loc, Holder <- Req, NoHolder <- NoReq

SalesStatus == {"draft", "confirmed", "shipped", "completed", "cancelled"}

salesOrderTransitions ==
  [draft     |-> {"confirmed", "cancelled"},
   confirmed |-> {"shipped", "cancelled"},
   shipped   |-> {"completed"},
   completed |-> {},
   cancelled |-> {}]

\* The batch desk may leave a status that is no status of the table.
AnyWord == SalesStatus \cup {"other"}

validSalesTransition(from, to) ==
  from \in SalesStatus /\ to \in salesOrderTransitions[from]

Ended == {"ok", "failed", "conflict", "panic", "dead"}
InLoop == {"loop", "lock", "adjust", "unlock", "unlockErr", "record"}
Active(r) == pc[r] # "idle" /\ pc[r] \notin Ended

ItemsOf(o) == {i \in Item : OrderOf[i] = o}
Place(r) == <<wh[r], MatOf[item[r]]>>
Missing(r, i) == Ordered[i] - snap[r][i]

Goto(r, label) == pc' = [pc EXCEPT ![r] = label]
AnyOf(S) == CHOOSE x \in S : TRUE

Init ==
  /\ stock = InitStock /\ rows = InitRows
  /\ Locks!LockTableInit
  /\ status = [o \in Order |-> "none"]
  /\ creating = {} /\ placed = {} /\ late = {}
  /\ shipped = [i \in Item |-> 0]
  /\ moved = [i \in Item |-> 0]
  /\ pc = [r \in Req |-> "idle"]
  /\ entry = [r \in Req |-> "ship"]
  /\ ord = [r \in Req |-> AnyOf(Order)]
  /\ wh = [r \in Req |-> AnyOf(Warehouse)]
  /\ newStatus = [r \in Req |-> "draft"]
  /\ todo = [r \in Req |-> {}]
  /\ snap = [r \in Req |-> [i \in Item |-> 0]]
  /\ item = [r \in Req |-> AnyOf(Item)]

-----------------------------------------------------------------------------
\* The caller may name any status of the table, "draft" by default.
CreateSalesOrder(o, s) ==
  /\ status[o] = "none" /\ s \in SalesStatus
  /\ status' = [status EXCEPT ![o] = s]
  /\ creating' = creating \cup {o}
  /\ UNCHANGED <<lockKey, inventoryVars, placed, shipped, pc, argVars, loopVars,
                 moved, late>>

\* Shipments of o that will not read its items again.
HasListed(r, o) ==
  ord[r] = o /\ entry[r] = "ship" /\ pc[r] \in InLoop \cup Ended

CreateSalesOrderItem(i) ==
  LET o == OrderOf[i] IN
  /\ o \in creating /\ i \notin placed
  /\ placed' = placed \cup {i}
  /\ late' = IF \E r \in Req : HasListed(r, o)
             THEN late \cup {i} ELSE late
  /\ UNCHANGED <<lockKey, inventoryVars, status, creating, shipped, pc, argVars,
                 loopVars, moved>>

CreateSalesOrderReturns(o) ==
  /\ o \in creating
  /\ ItemsOf(o) \subseteq placed \/ "create" \in Faults \/ Crashes
  /\ creating' = creating \ {o}
  /\ UNCHANGED <<lockKey, inventoryVars, status, placed, shipped, pc, argVars,
                 loopVars, moved, late>>

-----------------------------------------------------------------------------
\* ChangeSalesOrderStatus reads the order and checks the table.
StartChange(r, o, s) ==
  /\ "change" \in Operations
  /\ pc[r] = "idle"
  /\ status[o] # "none"
  /\ validSalesTransition(status[o], s)
  /\ entry' = [entry EXCEPT ![r] = "change"]
  /\ ord' = [ord EXCEPT ![r] = o]
  /\ newStatus' = [newStatus EXCEPT ![r] = s]
  /\ Goto(r, "save")
  /\ UNCHANGED <<lockKey, inventoryVars, orderVars, wh, loopVars, moved, late>>

\* Save writes the whole row whatever status it has by now; the error of
\* UpdateSalesOrder is ignored.
SaveStatus(r) ==
  /\ pc[r] = "save"
  /\ \/ status' = [status EXCEPT ![ord[r]] = newStatus[r]]
     \/ "status" \in Faults /\ UNCHANGED status
  /\ Goto(r, "ok")
  /\ UNCHANGED <<lockKey, inventoryVars, creating, placed, shipped, argVars,
                 loopVars, moved, late>>

\* BatchStatusChange of the batch desk: one update by id, with no look at the
\* table, of an order in any status and to any word.
BatchStatusChange(o, word) ==
  /\ "batch" \in Operations
  /\ status[o] # "none"
  /\ status' = [status EXCEPT ![o] = word]
  /\ UNCHANGED <<lockKey, inventoryVars, creating, placed, shipped, pc, argVars,
                 loopVars, moved, late>>

-----------------------------------------------------------------------------
\* ShipSalesOrder, from any status, by /ship, /delivery or a retry of either.
StartShip(r, o, w) ==
  /\ "ship" \in Operations
  /\ pc[r] = "idle"
  /\ status[o] # "none"
  /\ entry' = [entry EXCEPT ![r] = "ship"]
  /\ ord' = [ord EXCEPT ![r] = o]
  /\ wh' = [wh EXCEPT ![r] = w]
  /\ Goto(r, "list")
  /\ UNCHANGED <<lockKey, inventoryVars, orderVars, newStatus, loopVars, moved,
                 late>>

\* ListSalesOrderItems; its error is ignored and leaves no items.
ListItems(r) ==
  /\ pc[r] = "list"
  /\ \/ todo' = [todo EXCEPT ![r] = ItemsOf(ord[r]) \cap placed]
     \/ "list" \in Faults /\ todo' = [todo EXCEPT ![r] = {}]
  /\ snap' = [snap EXCEPT ![r] = shipped]
  /\ Goto(r, "loop")
  /\ UNCHANGED <<lockKey, inventoryVars, orderVars, argVars, item, moved, late>>

SkipItem(r, i) ==
  /\ pc[r] = "loop" /\ i \in todo[r]
  /\ Missing(r, i) <= 0
  /\ todo' = [todo EXCEPT ![r] = @ \ {i}]
  /\ UNCHANGED <<lockKey, inventoryVars, orderVars, pc, argVars, snap, item,
                 moved, late>>

TakeItem(r, i) ==
  /\ pc[r] = "loop" /\ i \in todo[r]
  /\ Missing(r, i) > 0
  /\ item' = [item EXCEPT ![r] = i]
  /\ Goto(r, "lock")
  /\ UNCHANGED <<lockKey, inventoryVars, orderVars, argVars, todo, snap, moved,
                 late>>

LockItem(r) ==
  /\ pc[r] = "lock"
  /\ \/ Locks!Granted(r, Place(r)) /\ Goto(r, "adjust")
     \/ Locks!Refused(Place(r)) /\ Goto(r, "conflict")
     \/ LockMode = "nilprovider" /\ UNCHANGED lockKey /\ Goto(r, "panic")
  /\ UNCHANGED <<inventoryVars, orderVars, argVars, loopVars, moved, late>>

LockReplyLost(r) ==
  /\ pc[r] = "lock"
  /\ Locks!ReplyLost(Place(r))
  /\ UNCHANGED <<inventoryVars, orderVars, pc, argVars, loopVars, moved, late>>

\* Defect: insufficient stock is taken for success.
AdjustStockUnchecked(r) ==
  LET i == item[r]
      qty == Missing(r, i)
  IN
  /\ pc[r] = "adjust"
  /\ \/ /\ AdjustQuantityWithCheck(Place(r), 0 - qty)
        /\ moved' = [moved EXCEPT ![i] = @ + qty]
     \/ UNCHANGED <<inventoryVars, moved>>
  /\ Goto(r, "unlock")
  /\ UNCHANGED <<lockKey, orderVars, argVars, loopVars, late>>

\* Insufficient stock and a failed statement are one error to the caller; the
\* latter may have been applied before its reply was lost.
AdjustStock(r) ==
  LET i == item[r]
      qty == Missing(r, i)
  IN
  /\ pc[r] = "adjust"
  /\ \/ /\ AdjustQuantityWithCheck(Place(r), 0 - qty)
        /\ moved' = [moved EXCEPT ![i] = @ + qty]
        /\ \/ Goto(r, "unlock")
           \/ "adjust" \in Faults /\ Goto(r, "unlockErr")
     \/ /\ ~ Accepted(Place(r), 0 - qty) \/ "adjust" \in Faults
        /\ UNCHANGED <<inventoryVars, moved>>
        /\ Goto(r, "unlockErr")
  /\ UNCHANGED <<lockKey, orderVars, argVars, loopVars, late>>

UnlockItem(r) ==
  /\ pc[r] \in {"unlock", "unlockErr"}
  /\ Locks!Released(r, Place(r))
  /\ Goto(r, IF pc[r] = "unlock" THEN "record" ELSE "failed")
  /\ UNCHANGED <<inventoryVars, orderVars, argVars, loopVars, moved, late>>

\* item.ShippedQty + qty is the ordered quantity; the error is ignored.
RecordItem(r) ==
  LET i == item[r] IN
  /\ pc[r] = "record"
  /\ \/ ItemTenantColumn /\ shipped' = [shipped EXCEPT ![i] = Ordered[i]]
     \/ /\ ~ ItemTenantColumn \/ "record" \in Faults
        /\ UNCHANGED shipped
  /\ todo' = [todo EXCEPT ![r] = @ \ {i}]
  /\ Goto(r, "loop")
  /\ UNCHANGED <<lockKey, inventoryVars, status, creating, placed, argVars,
                 snap, item, moved, late>>

FinishOrder(r) ==
  /\ pc[r] = "loop" /\ todo[r] = {}
  /\ \/ status' = [status EXCEPT ![ord[r]] = "shipped"]
     \/ "status" \in Faults /\ UNCHANGED status
  /\ Goto(r, "ok")
  /\ UNCHANGED <<lockKey, inventoryVars, creating, placed, shipped, argVars,
                 loopVars, moved, late>>

-----------------------------------------------------------------------------
Crash(r) ==
  /\ Crashes /\ Active(r)
  /\ Goto(r, "dead")
  /\ UNCHANGED <<lockKey, inventoryVars, orderVars, argVars, loopVars, moved, late>>

LockExpires(l) ==
  /\ Locks!KeyExpires(l)
  /\ UNCHANGED <<inventoryVars, orderVars, pc, argVars, loopVars, moved, late>>

Start(r) ==
  \/ \E o \in Order, w \in Warehouse : StartShip(r, o, w)
  \/ \E o \in Order, s \in SalesStatus : StartChange(r, o, s)

Step(r) ==
  \/ SaveStatus(r) \/ ListItems(r)
  \/ \E i \in Item : SkipItem(r, i) \/ TakeItem(r, i)
  \/ LockItem(r) \/ AdjustStock(r) \/ UnlockItem(r) \/ RecordItem(r)
  \/ FinishOrder(r)

Next ==
  \/ \E o \in Order, s \in SalesStatus : CreateSalesOrder(o, s)
  \/ \E i \in Item : CreateSalesOrderItem(i)
  \/ \E o \in Order : CreateSalesOrderReturns(o)
  \/ \E o \in Order, word \in AnyWord : BatchStatusChange(o, word)
  \/ \E r \in Req : Start(r) \/ Step(r) \/ LockReplyLost(r) \/ Crash(r)
  \/ \E l \in Loc : LockExpires(l)

Spec == Init /\ [][Next]_vars

-----------------------------------------------------------------------------
StoreTypeOK ==
  /\ InventoryTypeOK
  /\ Locks!LockTableTypeOK
  /\ status \in [Order -> AnyWord \cup {"none"}]
  /\ creating \in SUBSET Order
  /\ placed \in SUBSET Item /\ late \in SUBSET placed
  /\ shipped \in [Item -> Nat] /\ moved \in [Item -> Nat]

CallTypeOK ==
  /\ pc \in [Req -> {"idle", "save", "list"} \cup InLoop \cup Ended]
  /\ entry \in [Req -> {"ship", "change"}]
  /\ newStatus \in [Req -> SalesStatus]
  /\ ord \in [Req -> Order] /\ wh \in [Req -> Warehouse]
  /\ item \in [Req -> Item]
  /\ todo \in [Req -> SUBSET Item]
  /\ snap \in [Req -> [Item -> Nat]]

\* The tables and the variables of every call keep their types.
TypeOK == StoreTypeOK /\ CallTypeOK

(***************************************************************************)
(* A shipment that answers success took every item its order had when it   *)
(* was listed out of stock, at least once in full, whatever other calls,   *)
(* shortages, refused locks and failing statements did meanwhile.          *)
(***************************************************************************)
ShipOkMeansMoved ==
  \A r \in Req, i \in placed \ late :
    entry[r] = "ship" /\ pc[r] = "ok" /\ OrderOf[i] = ord[r]
      => moved[i] >= Ordered[i]

(***************************************************************************)
(* Concurrent shipments never oversell a row that exists: only a location  *)
(* that never had stock can be driven below zero, by the INSERT half of    *)
(* AdjustQuantityWithCheck.                                                *)
(***************************************************************************)
NoOversellOfRows == \A l \in InitRows : stock[l] >= 0

(***************************************************************************)
(* Goods are conserved: what left the warehouses of a material is what     *)
(* shipments moved, no update of a row is lost or applied twice.           *)
(***************************************************************************)
ItemsOfMaterial(m) == {i \in Item : MatOf[i] = m}

GoodsConserved ==
  \A m \in Material :
    SumOver(InitStock, PlacesOf(m)) - SumOver(stock, PlacesOf(m)) = SumOver(moved, ItemsOfMaterial(m))

(***************************************************************************)
(* Shipments keep the promise of GoodsLedger: what an item lacks, and no   *)
(* more, leaves one shelf at a time, and nothing is put anywhere.          *)
(***************************************************************************)
Ledger == INSTANCE GoodsLedger
            WITH Shelf <- Loc, Carrier <- {}, onShelf <- stock, known <- rows, road <- <<>>,
                 Quantity <- UNION {1 .. Ordered[i] : i \in Item}, Incoming <- {}, Counts <- {}

LedgerKept == Ledger!Spec

(***************************************************************************)
(* TestAcceptance_ConcurrentInventory_NoOversell,                          *)
(* phase1_inventory_test.go:235: of concurrent shipments of one order      *)
(* exactly one succeeds, its goods leave the warehouse once.               *)
(***************************************************************************)
ShippedOnce == \A i \in Item : moved[i] <= Ordered[i]

(***************************************************************************)
(* What every step preserves and ShipOkMeansMoved follows from.            *)
(***************************************************************************)
LeftStock(i) == moved[i] >= Ordered[i]

HandlesMissing ==
  \A r \in Req : pc[r] \in InLoop \ {"loop"} =>
    item[r] \in todo[r] /\ Missing(r, item[r]) > 0

CreditMeansMoved ==
  /\ \A i \in Item : shipped[i] > 0 => LeftStock(i)
  /\ \A r \in Req, i \in Item : snap[r][i] > 0 => LeftStock(i)
  /\ \A r \in Req : pc[r] \in {"unlock", "record"} => LeftStock(item[r])

LoopCovers ==
  \A r \in Req : pc[r] \in InLoop =>
    \A i \in (ItemsOf(ord[r]) \cap placed) \ late : i \in todo[r] \/ LeftStock(i)

CallsKnowEntry ==
  \A r \in Req :
    /\ pc[r] \in {"list"} \cup InLoop => entry[r] = "ship"
    /\ pc[r] = "save" => entry[r] = "change"

ShipmentInv ==
  TypeOK /\ HandlesMissing /\ CreditMeansMoved /\ LoopCovers /\ CallsKnowEntry
  /\ ShipOkMeansMoved

=============================================================================
