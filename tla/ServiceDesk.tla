---------------------------- MODULE ServiceDesk ----------------------------
(***************************************************************************)
(* Contracts, service orders and repair orders: their repositories, their  *)
(* services and their handlers, as operations.                             *)
(***************************************************************************)
EXTENDS Operations

-----------------------------------------------------------------------------
(* Contracts.                                                              *)

ContractRepo ==
    [kind |-> "contract", FindByID |-> "own", Create |-> "insert", Update |-> "save",
     Delete |-> "remove", DeleteByID |-> "remove", PatchFields |-> "columns",
     UpdateStatus |-> "columns", List |-> PagedList(20, 100)]
AttachmentRepo == [kind |-> "attachment", FindByID |-> "own", Create |-> "insert"]

ContractTransitions ==
    [draft |-> {"pending_approval"}, pending_approval |-> {"active", "draft"},
     active |-> {"fulfilled", "terminated"}, fulfilled |-> {}, terminated |-> {}]

ContractEdits ==
    [Create      |-> Insert(ContractRepo, "draft"),
     PatchFields |-> Edit(ContractRepo, "PatchFields", {"draft", "pending_approval"}),
     Update      |-> Edit(ContractRepo, "Update", {"draft"}),
     Delete      |-> Remove(ContractRepo, "Delete", {"draft"})]
    @@ Reads(ContractRepo, {"Get"}) @@ Lists(ContractRepo, {"List"})

ChangeContractStatus(targets) ==
    {o \in MovesOf(ContractRepo, "Update", ContractTransitions) : o.to \in targets}

ContractMoves ==
    [ChangeStatus     |-> ChangeContractStatus(DOMAIN ContractTransitions),
     SubmitApproval   |-> ChangeContractStatus({"pending_approval"}),
     Approve          |-> ChangeContractStatus({"active"}),
     UploadAttachment |-> InsertUnder(AttachmentRepo, "stored", "contract"),
     LinkDocument     |-> InsertUnder(AttachmentRepo, "linked", "contract")]
    @@ Reads(AttachmentRepo, {"ListDocuments"})

ContractEditHandler == Guarded(ContractEdits)
(* UploadAttachment takes the enterprise of the token without refusing an  *)
(* absent one: the service then fails to find the contract.                *)
ContractMoveHandler ==
    Guarded([m \in DOMAIN ContractMoves \ {"UploadAttachment"} |-> ContractMoves[m]])
    @@ [UploadAttachment |-> ContractMoves.UploadAttachment]

-----------------------------------------------------------------------------
(* Service orders, and the repair orders under them.                       *)

ServiceOrderRepo ==
    [kind |-> "service", FindByID |-> "own", Create |-> "insert", Save |-> "save",
     Delete |-> "remove", UpdateStatus |-> "columns", List |-> PagedList(20, 100)]

ServiceStatusTransitions ==
    [pending |-> {"in_progress", "cancelled"},
     in_progress |-> {"waiting_approval", "completed"},
     waiting_approval |-> {"in_progress", "approved"},
     approved |-> {"in_progress", "completed"},
     completed |-> {"signed"}, signed |-> {}, cancelled |-> {}]

ServiceOrderService ==
    [Create       |-> Insert(ServiceOrderRepo, "pending"),
     ChangeStatus |-> MovesOf(ServiceOrderRepo, "Save", ServiceStatusTransitions),
     Delete       |-> Remove(ServiceOrderRepo, "Delete", {"pending"}),
     Quote        |-> Edit(ServiceOrderRepo, "Save", AnyStatus)]
    @@ Reads(ServiceOrderRepo, {"Get"}) @@ Lists(ServiceOrderRepo, {"List"})
ServiceOrderSigning ==
    [Sign         |-> Move(ServiceOrderRepo, "Save", {"completed"}, "signed")]

ServiceOrderHandler == Guarded(ServiceOrderService @@ ServiceOrderSigning)

RepairOrderRepo ==
    [kind |-> "repair", FindByID |-> "own", Create |-> "insert", Update |-> "columns"]

(* The repair order and the new status of its service order are written in *)
(* one transaction; the service order is not looked up first, so the id    *)
(* may name none.                                                          *)
CreateRepairOrder ==
    {[o EXCEPT !.above = "repairing"] : o \in Insert(RepairOrderRepo, "pending")}
RepairOrderService ==
    [CreateRepair |-> CreateRepairOrder,
     UpdateRepair |-> Rewrite(RepairOrderRepo, "Update", {"pending", "done"})]
    @@ Reads(RepairOrderRepo, {"GetRepair"})
RepairOrderHandler == Guarded(RepairOrderService)

-----------------------------------------------------------------------------
ContractDesk ==
    Reached(ContractEditHandler @@ ContractMoveHandler, ContractRoutes)
ServiceOrderDesk ==
    Reached(ServiceOrderHandler @@ RepairOrderHandler, ServiceRoutes)
=============================================================================
