------------------------------ MODULE BulkDesk ------------------------------
(***************************************************************************)
(* The operations that pass by the services of a table: deleting and        *)
(* changing the status of many rows at once, restoring a deleted row, and   *)
(* setting custom fields.  Each row is one statement with the id and the    *)
(* enterprise in its condition; nothing is read first, no route of these    *)
(* asks for a permission, and one failing does not stop the rest.           *)
(***************************************************************************)
EXTENDS ServiceDesk, RegisterDesk, OrganisationDesk, FinanceDesk

(* Purchase and sales orders, of which this module has only the creation:   *)
(* their other changes are modules PurchaseReceipt and SalesShipment.  Two  *)
(* of the statuses a new sales order may be given stand for all.            *)
OrderTable(kind) ==
    [kind |-> kind, FindByID |-> "own", Create |-> "insert", UpdateStatus |-> "columns"]
PurchaseOrderRepo == OrderTable("purchase order")
SalesOrderRepo    == OrderTable("sales order")
OrderCreation ==
    [CreatePurchaseOrder |-> InsertUnder(PurchaseOrderRepo, "draft", "supplier"),
     CreateSalesOrder    |-> UNION {Insert(SalesOrderRepo, s) : s \in {"draft", "confirmed"}}]
OrderHandler == Guarded(OrderCreation)

(* The tables that may be named.                                           *)
DeleteRepos  == {CustomerRepo, SupplierRepo, ContactRepo, ContractRepo, MaterialRepo}
StatusRepos  == {CustomerRepo, ContractRepo, ServiceOrderRepo, PurchaseOrderRepo, SalesOrderRepo}
RestoreRepos == {CustomerRepo, ContractRepo, EmployeeRepo, MaterialRepo, SupplierRepo,
                 ServiceOrderRepo}
EntityRepos  == {CustomerRepo, ContactRepo, OpportunityRepo, ContractRepo, SupplierRepo,
                 MaterialRepo, EmployeeRepo, DepartmentRepo, WarehouseRepo, PurchaseOrderRepo,
                 SalesOrderRepo, ServiceOrderRepo, FinanceRepo("invoice")}

(* The new status is any word the request holds.                           *)
AnyWord == {"active", "received"}

BatchService ==
    [BatchDelete       |-> UNION {Unread(Remove(r, "DeleteByID", AnyStatus)) : r \in DeleteRepos},
     BatchStatusChange |->
        UNION {UNION {Unread(Move(r, "UpdateStatus", AnyStatus, s)) : s \in AnyWord} :
                   r \in StatusRepos}]
RestoreService ==
    [Restore |-> UNION {Unread({[o EXCEPT !.via = "restore"] :
                                   o \in {Act(r, "Create", AnyStatus, Same, {})}}) :
                            r \in RestoreRepos}]

(* The fields that are defined for the table are merged into the row's      *)
(* custom_fields by a statement per field that does not look at the         *)
(* deletion mark.  No migration of the repository adds that column, and     *)
(* without it the statement fails.                                          *)
CustomFieldValues ==
    [SetCustomFields |->
        UNION {Unread({[o EXCEPT !.via = "raw"] :
                          o \in {Act(r, "Create", AnyStatus, Same, {"text"})}}) :
                   r \in EntityRepos}]
BatchHandler   == Guarded(BatchService)
RestoreHandler == Guarded(RestoreService)
CustomFieldValuesHandler == Guarded(CustomFieldValues)

BulkOperations ==
    Reached(BatchHandler, SecurityRoutes) \cup Reached(RestoreHandler, OperatorRoutes)
    \cup Reached(CustomFieldValuesHandler, InfraRoutes)

(* The operations of services that make the rows of those tables, and a few *)
(* that meet the ones above on a row.                                       *)
ServedOperations ==
    Reached(Restrict(ContractEditHandler @@ ContractMoveHandler,
                     {"Create", "Update", "ChangeStatus"}), ContractRoutes)
    \cup Reached(Restrict(ServiceOrderHandler, {"Create", "ChangeStatus"}), ServiceRoutes)
    \cup Reached(Restrict(CustomerHandler @@ ContactHandler @@ OpportunityHandler,
                          {"Create", "CreateContact", "CreateOpportunity"}), CRMRoutes)
    \cup UNION {Reached(Restrict(h, {"Create", "Update"}), IMSRoutes) :
                    h \in {MaterialHandler, SupplierHandler, WarehouseHandler}}
    \cup Reached(OrderHandler, IMSRoutes)
    \cup Reached(Restrict(DepartmentHandler @@ EmployeeHandler,
                          {"CreateDepartment", "UpdateDepartment", "CreateEmployee"}),
                 OrganisationRoutes)
    \cup Reached(Restrict(InvoiceHandler, {"CreateInvoice"}), FinanceRoutes)

(* One desk for each of the tables.                                        *)
BulkTables == {r.kind : r \in DeleteRepos \cup StatusRepos \cup RestoreRepos \cup EntityRepos}
BulkDesk(kind) ==
    LET ops == {o \in BulkOperations \cup ServedOperations : o.kind = kind}
    IN  ops \cup {o \in ServedOperations :
                     o.via = "insert" /\ o.kind \in {p.needs : p \in ops}}
=============================================================================
