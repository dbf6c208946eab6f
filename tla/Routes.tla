------------------------------- MODULE Routes -------------------------------
(***************************************************************************)
(* The route tables of the API under /api/v1: the operation a route runs,   *)
(* its verb, its path and the gate it stands behind.  "*" is a parameter of *)
(* the path.  Every route but those of AuthRoutes and DebugRoutes is also   *)
(* behind the authenticated chain of middleware (module RequestChain).      *)
(***************************************************************************)
EXTENDS Permissions, Sequences

GET == "GET"
POST == "POST"
PUT == "PUT"
PATCH == "PATCH"
DELETE == "DELETE"

(* The group of routes under /enterprises/:enterprise_id.  It is guarded by *)
(* EnterpriseOwnership; the routes on the enterprises themselves, whose     *)
(* paths begin alike, are not of the group.                                 *)
In == <<"enterprises", "*">>
Owned(route) ==
    /\ Len(route.path) > 2 /\ SubSeq(route.path, 1, 2) = In
    /\ route.path[3] \notin {"status", "status-log"}

RoutesBehind(gate, table) ==
    {[op |-> t[1], verb |-> t[2], path |-> t[3], gate |-> gate] : t \in table}
Open(table)             == RoutesBehind(NoGate, table)
Behind(perm, table)     == RoutesBehind(Gate({perm}), table)
BehindAny(perms, table) == RoutesBehind(Gate(perms), table)
BehindExactly(perm, table) == RoutesBehind(ExactGate(perm), table)

OrganisationRoutes ==
    Open({
         <<"SwitchEnterprise", POST, <<"auth", "switch-enterprise">>>>,
         <<"Logout", POST, <<"auth", "logout">>>>, <<"Me", GET, <<"me">>>>,
         <<"MeProfile", GET, <<"me", "profile">>>>, <<"ListAuditLogs", GET, <<"audit-logs">>>>,
         <<"GetQuota", GET, <<"quota">>>>, <<"UpdateQuota", PUT, <<"quota">>>>,
         <<"ListFeatures", GET, <<"features">>>>, <<"UpdateFeature", PUT, <<"features", "*">>>>,
         <<"GetTree", GET, In \o <<"departments", "tree">>>>,
         <<"SalesPerformance", GET, In \o <<"employees", "sales-performance">>>>,
         <<"ListPermissions", GET, <<"permissions">>>>,
         <<"CheckPermission", POST, <<"permissions", "check">>>>, <<"ListRoles", GET, <<"roles">>>>,
         <<"GetRolePermissions", GET, <<"roles", "*", "permissions">>>>,
         <<"ConfigureSkill", POST, In \o <<"skill-matrix">>>>,
         <<"ListSkillMatrix", GET, In \o <<"skill-matrix">>>>,
         <<"ConfigureSkill", PUT, In \o <<"skill-matrix", "*">>>>})
    \cup Behind(<<"role", "assign">>, {
         <<"Grant", POST, <<"cross-enterprise", "permissions">>>>,
         <<"Revoke", DELETE, <<"cross-enterprise", "permissions", "*">>>>,
         <<"SetPermission", POST, <<"employees", "*", "permissions">>>>,
         <<"RevokePermission", DELETE, <<"employees", "*", "permissions">>>>,
         <<"SetRolePermissions", PUT, <<"roles", "*", "permissions">>>>})
    \cup Behind(<<"role", "read">>, {
         <<"ListByUser", GET, <<"cross-enterprise", "permissions">>>>,
         <<"ListEmployeePermissions", GET, <<"employees", "*", "permissions">>>>})
    \cup Behind(<<"system", "config">>, {
         <<"GroupSummary", GET, <<"groups", "summary", "*">>>>, <<"CreateGroup", POST, <<"groups">>>>,
         <<"UpdateGroup", PUT, <<"groups", "*">>>>, <<"DeleteGroup", DELETE, <<"groups", "*">>>>,
         <<"ListGroups", GET, <<"groups">>>>, <<"GetGroup", GET, <<"groups", "*">>>>,
         <<"CreateEnterprise", POST, <<"enterprises">>>>,
         <<"UpdateEnterprise", PUT, <<"enterprises", "*">>>>,
         <<"ListEnterprises", GET, <<"enterprises">>>>,
         <<"GetEnterprise", GET, <<"enterprises", "*">>>>,
         <<"ChangeEnterpriseStatus", POST, <<"enterprises", "*", "status">>>>,
         <<"GetStatusLog", GET, <<"enterprises", "*", "status-log">>>>})
    \cup Behind(<<"department", "create">>, {
         <<"CreateDepartment", POST, In \o <<"departments">>>>,
         <<"CreatePosition", POST, In \o <<"positions">>>>})
    \cup Behind(<<"employee", "create">>, {
         <<"CreateEmployee", POST, In \o <<"employees">>>>,
         <<"BatchImport", POST, In \o <<"employees", "batch-import">>>>})
    \cup Behind(<<"employee", "list">>, {
         <<"ListEmployees", GET, In \o <<"employees">>>>})
    \cup Behind(<<"department", "list">>, {
         <<"ListPositions", GET, In \o <<"positions">>>>})
    \cup Behind(<<"department", "update">>, {
         <<"UpdatePosition", PUT, <<"positions", "*">>>>,
         <<"UpdateDepartment", PUT, <<"departments", "*">>>>,
         <<"SetManager", PUT, <<"departments", "*", "manager">>>>})
    \cup Behind(<<"employee", "update">>, {
         <<"UpdateEmployee", PUT, <<"employees", "*">>>>,
         <<"Transfer", PUT, <<"employees", "*", "transfer">>>>})
    \cup Behind(<<"employee", "delete">>, {
         <<"DeleteEmployee", DELETE, <<"employees", "*">>>>})
    \cup Behind(<<"employee", "read">>, {
         <<"GetEmployee", GET, <<"employees", "*">>>>})
    \cup Behind(<<"role", "create">>, {
         <<"CreateRole", POST, <<"roles">>>>})
    \cup Behind(<<"department", "read">>, {
         <<"GetDepartment", GET, <<"departments", "*">>>>})
    \cup Behind(<<"department", "delete">>, {
         <<"DeleteDepartment", DELETE, <<"departments", "*">>>>})

CRMRoutes ==
    Behind(<<"customer", "create">>, {
         <<"Create", POST, In \o <<"customers">>>>,
         <<"CreateLevel", POST, In \o <<"customer-levels">>>>,
         <<"AddTag", POST, In \o <<"customers", "*", "tags">>>>,
         <<"CreateContact", POST, In \o <<"customers", "*", "contacts">>>>,
         <<"CreateOpportunity", POST, In \o <<"opportunities">>>>})
    \cup Behind(<<"customer", "list">>, {
         <<"List", GET, In \o <<"customers">>>>})
    \cup Behind(<<"customer", "read">>, {
         <<"Panorama", GET, In \o <<"customers", "*", "panorama">>>>,
         <<"ListContacts", GET, In \o <<"customers", "*", "contacts">>>>,
         <<"ListOpportunities", GET, In \o <<"customers", "*", "opportunities">>>>,
         <<"ListTags", GET, In \o <<"customers", "*", "tags">>>>, <<"Get", GET, <<"customers", "*">>>>,
         <<"GetContact", GET, <<"contacts", "*">>>>,
         <<"GetOpportunity", GET, <<"opportunities", "*">>>>})
    \cup Open({
         <<"ListLevels", GET, In \o <<"customer-levels">>>>,
         <<"ListAllTags", GET, In \o <<"customer-tags">>>>})
    \cup Behind(<<"customer", "update">>, {
         <<"Update", PUT, <<"customers", "*">>>>, <<"RemoveTag", DELETE, <<"customers", "*", "tags">>>>,
         <<"UpdateContact", PUT, <<"contacts", "*">>>>,
         <<"UpdateOpportunity", PUT, <<"opportunities", "*">>>>,
         <<"UpdateLevel", PUT, <<"customer-levels", "*">>>>})
    \cup Behind(<<"customer", "delete">>, {
         <<"Delete", DELETE, <<"customers", "*">>>>, <<"DeleteContact", DELETE, <<"contacts", "*">>>>,
         <<"DeleteOpportunity", DELETE, <<"opportunities", "*">>>>,
         <<"DeleteLevel", DELETE, <<"customer-levels", "*">>>>})

IMSRoutes ==
    Behind(<<"product", "create">>, {
         <<"Create", POST, In \o <<"materials">>>>, <<"Create", POST, In \o <<"suppliers">>>>,
         <<"Create", POST, In \o <<"warehouses">>>>})
    \cup Behind(<<"product", "list">>, {
         <<"List", GET, In \o <<"materials">>>>, <<"List", GET, In \o <<"suppliers">>>>,
         <<"List", GET, In \o <<"warehouses">>>>,
         <<"LowStock", GET, In \o <<"inventory", "low-stock">>>>})
    \cup Behind(<<"product", "update">>, {
         <<"Set", POST, In \o <<"inventory">>>>, <<"Update", PUT, <<"materials", "*">>>>,
         <<"Update", PUT, <<"suppliers", "*">>>>, <<"Update", PUT, <<"warehouses", "*">>>>})
    \cup Behind(<<"product", "read">>, {
         <<"ByWarehouse", GET, In \o <<"inventory", "warehouses", "*">>>>,
         <<"ByMaterial", GET, In \o <<"inventory", "materials", "*">>>>,
         <<"Get", GET, <<"materials", "*">>>>, <<"Get", GET, <<"suppliers", "*">>>>,
         <<"Get", GET, <<"warehouses", "*">>>>})
    \cup Behind(<<"order", "create">>, {
         <<"CreatePurchaseOrder", POST, In \o <<"purchase-orders">>>>,
         <<"CreateSalesOrder", POST, In \o <<"sales-orders">>>>,
         <<"CreateTransfer", POST, In \o <<"transfers">>>>,
         <<"CreateRequisition", POST, In \o <<"requisitions">>>>,
         <<"CreateInspection", POST, In \o <<"purchase-orders", "*", "inspections">>>>})
    \cup Behind(<<"order", "list">>, {
         <<"ListOrders", GET, In \o <<"orders">>>>, <<"ListStockFlows", GET, In \o <<"stock-flows">>>>})
    \cup Behind(<<"product", "delete">>, {
         <<"Delete", DELETE, <<"materials", "*">>>>, <<"Delete", DELETE, <<"suppliers", "*">>>>,
         <<"Delete", DELETE, <<"warehouses", "*">>>>})
    \cup Behind(<<"order", "update">>, {
         <<"ReceivePurchase", POST, <<"purchase-orders", "*", "receive">>>>,
         <<"ShipSalesOrder", POST, <<"sales-orders", "*", "ship">>>>,
         <<"BindContract", POST, <<"sales-orders", "*", "contract">>>>,
         <<"Delivery", POST, <<"sales-orders", "*", "delivery">>>>,
         <<"ChangeSalesOrderStatus", PATCH, <<"sales-orders", "*", "status">>>>,
         <<"ExecuteTransfer", POST, <<"transfers", "*", "execute">>>>,
         <<"IssueRequisition", POST, <<"requisitions", "*", "issue">>>>,
         <<"AddInspectionItem", POST, <<"inspections", "*", "items">>>>,
         <<"CompleteInspection", POST, <<"inspections", "*", "complete">>>>})
    \cup Behind(<<"order", "read">>, {
         <<"ListInspections", GET, In \o <<"purchase-orders", "*", "inspections">>>>,
         <<"GetInspection", GET, <<"inspections", "*">>>>})

ContractRoutes ==
    Behind(<<"contract", "read">>, {
         <<"List", GET, In \o <<"contracts">>>>, <<"Get", GET, <<"contracts", "*">>>>,
         <<"ListDocuments", GET, <<"contracts", "*", "documents">>>>})
    \cup Behind(<<"contract", "create">>, {
         <<"Create", POST, In \o <<"contracts">>>>})
    \cup Behind(<<"contract", "update">>, {
         <<"Update", PUT, <<"contracts", "*">>>>, <<"PatchFields", PATCH, <<"contracts", "*">>>>,
         <<"ChangeStatus", PATCH, <<"contracts", "*", "status">>>>,
         <<"SubmitApproval", POST, <<"contracts", "*", "submit-approval">>>>,
         <<"Approve", POST, <<"contracts", "*", "approve">>>>,
         <<"UploadAttachment", POST, <<"contracts", "*", "attachments">>>>,
         <<"LinkDocument", POST, <<"contracts", "*", "documents">>>>})
    \cup Behind(<<"contract", "delete">>, {
         <<"Delete", DELETE, <<"contracts", "*">>>>})

FinanceRoutes ==
    Behind(<<"finance", "read">>, {
         <<"CreatePayment", POST, In \o <<"payments">>>>, <<"ListPayments", GET, In \o <<"payments">>>>,
         <<"CreateExpense", POST, In \o <<"expenses">>>>, <<"ListExpenses", GET, In \o <<"expenses">>>>,
         <<"CreateInvoice", POST, In \o <<"invoices">>>>, <<"ListInvoices", GET, In \o <<"invoices">>>>,
         <<"Create", POST, In \o <<"payment-requests">>>>,
         <<"List", GET, In \o <<"payment-requests">>>>,
         <<"SubmitForApproval", POST, In \o <<"payment-requests", "*", "submit">>>>,
         <<"Approve", POST, In \o <<"payment-requests", "*", "approve">>>>,
         <<"Reject", POST, In \o <<"payment-requests", "*", "reject">>>>,
         <<"CreateCollection", POST, In \o <<"collections">>>>,
         <<"ListCollections", GET, In \o <<"collections">>>>,
         <<"CreateReceivable", POST, In \o <<"receivables">>>>,
         <<"ListReceivables", GET, In \o <<"receivables">>>>,
         <<"CreatePayable", POST, In \o <<"payables">>>>, <<"ListPayables", GET, In \o <<"payables">>>>,
         <<"CreatePlans", POST, In \o <<"contracts", "*", "payment-plans">>>>,
         <<"ListPlans", GET, In \o <<"contracts", "*", "payment-plans">>>>,
         <<"ListOverdue", GET, In \o <<"payment-plans", "overdue">>>>,
         <<"Forecast", GET, In \o <<"cash-flow-forecast">>>>,
         <<"GetReconciliation", GET, In \o <<"reconciliation">>>>,
         <<"Signals", GET, In \o <<"owner", "signals">>>>, <<"KPI", GET, In \o <<"owner", "kpi">>>>,
         <<"CreateAlertRule", POST, In \o <<"owner", "alert-rules">>>>,
         <<"ListAlertRules", GET, In \o <<"owner", "alert-rules">>>>})
    \cup Open({
         <<"ApproveExpense", POST, <<"expenses", "*", "approve">>>>,
         <<"Get", GET, <<"payment-requests", "*">>>>, <<"Update", PUT, <<"payment-requests", "*">>>>,
         <<"Delete", DELETE, <<"payment-requests", "*">>>>,
         <<"GetCollection", GET, <<"collections", "*">>>>,
         <<"UpdatePlan", PUT, <<"payment-plans", "*">>>>,
         <<"DeletePlan", DELETE, <<"payment-plans", "*">>>>,
         <<"UpdateAlertRule", PUT, <<"alert-rules", "*">>>>})

ServiceRoutes ==
    Behind(<<"order", "read">>, {
         <<"List", GET, In \o <<"service-orders">>>>, <<"Get", GET, <<"service-orders", "*">>>>,
         <<"GetRepair", GET, <<"service-orders", "*", "repair-order">>>>,
         <<"ListAttachments", GET, <<"service-orders", "*", "attachments">>>>})
    \cup Behind(<<"order", "create">>, {
         <<"Create", POST, In \o <<"service-orders">>>>,
         <<"CreateRepair", POST, In \o <<"service-orders", "*", "repair-order">>>>,
         <<"UploadAttachment", POST, In \o <<"service-orders", "*", "attachments">>>>})
    \cup Behind(<<"order", "update">>, {
         <<"Quote", PUT, <<"service-orders", "*">>>>,
         <<"ChangeStatus", PATCH, <<"service-orders", "*", "status">>>>,
         <<"Sign", POST, <<"service-orders", "*", "sign">>>>,
         <<"UpdateRepair", PUT, <<"repair-orders", "*">>>>})
    \cup Behind(<<"order", "delete">>, {
         <<"Delete", DELETE, <<"service-orders", "*">>>>})

InfraRoutes ==
    Open({
         <<"UploadFile", POST, In \o <<"files">>>>, <<"ListFiles", GET, In \o <<"files">>>>,
         <<"Upload", POST, In \o <<"files", "upload">>>>,
         <<"Preview", GET, <<"files", "*", "preview">>>>, <<"View", GET, <<"files", "*", "view">>>>,
         <<"Download", GET, <<"files", "*", "download">>>>, <<"Get", GET, In \o <<"messages", "*">>>>,
         <<"Send", POST, In \o <<"messages">>>>, <<"List", GET, In \o <<"messages">>>>,
         <<"Unread", GET, In \o <<"messages", "unread">>>>,
         <<"Poll", GET, In \o <<"messages", "poll">>>>,
         <<"MarkRead", POST, In \o <<"messages", "*", "read">>>>,
         <<"BatchMarkRead", POST, In \o <<"messages", "read">>>>,
         <<"CreateAnnouncement", POST, In \o <<"announcements">>>>,
         <<"ListAnnouncements", GET, In \o <<"announcements">>>>,
         <<"CreateDoc", POST, In \o <<"kb", "docs">>>>, <<"ListDocs", GET, In \o <<"kb", "docs">>>>,
         <<"CreateCategory", POST, In \o <<"kb", "categories">>>>,
         <<"ListCategories", GET, In \o <<"kb", "categories">>>>,
         <<"SemanticSearch", GET, In \o <<"kb", "semantic-search">>>>,
         <<"ChunkDocument", POST, In \o <<"kb", "docs", "*", "chunk">>>>,
         <<"GetChunks", GET, In \o <<"kb", "docs", "*", "chunks">>>>,
         <<"ListVersions", GET, In \o <<"kb", "docs", "*", "versions">>>>,
         <<"GetVersion", GET, In \o <<"kb", "docs", "*", "versions", "*">>>>,
         <<"CompareVersions", GET, In \o <<"kb", "docs", "*", "compare">>>>,
         <<"ListSkills", GET, <<"skills">>>>, <<"CreateSkill", POST, <<"skills">>>>,
         <<"GetSkill", GET, <<"skills", "*">>>>,
         <<"TodoAggregation", GET, <<"assist", "todo-aggregation">>>>,
         <<"ProcessGuide", GET, <<"assist", "process-guide">>>>,
         <<"WorkReport", GET, <<"assist", "work-report">>>>,
         <<"ListFields", GET, <<"meta", "entities", "*", "fields">>>>,
         <<"CreateField", POST, <<"meta", "fields">>>>,
         <<"SetCustomFields", PATCH, <<"*", "*", "custom-fields">>>>,
         <<"GetRelations", GET, <<"*", "*", "relations", "*">>>>,
         <<"SendSMS", POST, <<"notifications", "sms", "send">>>>,
         <<"SendEmail", POST, <<"notifications", "email", "send">>>>,
         <<"CreateConfig", POST, <<"backup", "configs">>>>,
         <<"UpdateConfig", PUT, <<"backup", "configs", "*">>>>,
         <<"DeleteConfig", DELETE, <<"backup", "configs", "*">>>>,
         <<"ListConfigs", GET, <<"backup", "configs">>>>,
         <<"GetConfig", GET, <<"backup", "configs", "*">>>>,
         <<"ListRecords", GET, <<"backup", "records">>>>,
         <<"TriggerBackup", POST, <<"backup", "trigger">>>>,
         <<"Restore", POST, <<"backup", "restore", "*">>>>,
         <<"CreateSession", POST, <<"ai", "sessions">>>>, <<"ListSessions", GET, <<"ai", "sessions">>>>,
         <<"SendMessage", POST, <<"ai", "sessions", "*", "messages">>>>,
         <<"GetMessages", GET, <<"ai", "sessions", "*", "messages">>>>,
         <<"UpdatePreference", PUT, <<"ai", "preferences">>>>})
    \cup Behind(<<"workflow", "read">>, {
         <<"CreateDefinition", POST, <<"workflow-definitions">>>>,
         <<"ListDefinitions", GET, <<"workflow-definitions">>>>,
         <<"GetDefinition", GET, <<"workflow-definitions", "*">>>>,
         <<"GetInstance", GET, <<"workflows", "*">>>>, <<"SubmitWorkflow", POST, <<"workflows">>>>,
         <<"ListPending", GET, <<"workflows", "pending">>>>,
         <<"Approve", POST, <<"workflows", "*", "approve">>>>,
         <<"Reject", POST, <<"workflows", "*", "reject">>>>,
         <<"History", GET, <<"workflows", "*", "history">>>>,
         <<"Transfer", POST, <<"workflows", "*", "transfer">>>>,
         <<"Return", POST, <<"workflows", "*", "return">>>>,
         <<"Resubmit", POST, <<"workflows", "*", "resubmit">>>>,
         <<"GetParallelStatus", GET, <<"workflows", "*", "parallel-status">>>>})

OperatorRoutes ==
    BehindExactly(<<"system", "config">>, {
         <<"Dashboard", GET, <<"dashboard">>>>,
         <<"ListSubscriptions", GET, <<"enterprise-subscriptions">>>>,
         <<"CreateSubscription", POST, <<"enterprise-subscriptions">>>>,
         <<"ListAuditLogs", GET, <<"audit-log-entries">>>>,
         <<"CreateServiceTicket", POST, <<"service-tickets">>>>,
         <<"ListServiceTickets", GET, <<"service-tickets">>>>,
         <<"GetSLAMetrics", GET, <<"sla-metrics">>>>,
         <<"CreateServiceConfig", POST, <<"service-config">>>>,
         <<"GetServiceConfig", GET, <<"service-config", "*">>>>,
         <<"GetEnterpriseHealth", GET, <<"operator", "enterprises", "*", "health">>>>,
         <<"GetDashboard", GET, <<"operator", "health-dashboard">>>>,
         <<"ListOperatorActions", GET, <<"operator", "audit-logs">>>>})
    \cup Open({
         <<"ListWebhooks", GET, <<"webhooks">>>>, <<"CreateWebhook", POST, <<"webhooks">>>>,
         <<"GetReport", GET, <<"reports", "*">>>>, <<"Restore", POST, <<"*", "*", "restore">>>>})
    \cup BehindExactly(<<"system", "debug">>, {
         <<"QueryLogs", GET, <<"operator", "logs">>>>})

BillingRoutes ==
    BehindExactly(<<"system", "config">>, {
         <<"CreatePlan", POST, <<"billing", "plans">>>>,
         <<"Subscribe", POST, <<"billing", "subscriptions">>>>,
         <<"UpgradePlan", PUT, <<"billing", "subscriptions", "*", "upgrade">>>>,
         <<"DowngradePlan", PUT, <<"billing", "subscriptions", "*", "downgrade">>>>,
         <<"RenewSubscription", POST, <<"billing", "subscriptions", "*", "renew">>>>,
         <<"ListBills", GET, <<"billing", "bills">>>>, <<"GetBill", GET, <<"billing", "bills", "*">>>>,
         <<"Refund", POST, <<"billing", "bills", "*", "refund">>>>,
         <<"GetRevenueSummary", GET, <<"billing", "revenue-summary">>>>})
    \cup Open({
         <<"ListPlans", GET, <<"billing", "plans">>>>})

ExportRoutes ==
    BehindAny({"employee", "customer", "contract", "finance", "order", "product"} \X {"read"}, {
         <<"ListTasks", GET, <<"data-export">>>>, <<"CreateTask", POST, <<"data-export">>>>,
         <<"GetTask", GET, <<"data-export", "*">>>>,
         <<"DownloadTask", GET, <<"data-export", "*", "download">>>>})
    \cup Open({
         <<"ImportData", POST, <<"data-import">>>>})

SecurityRoutes ==
    Open({
         <<"Enable", POST, <<"mfa", "enable">>>>, <<"Verify", POST, <<"mfa", "verify">>>>,
         <<"Disable", POST, <<"mfa", "disable">>>>, <<"Status", GET, <<"mfa", "status">>>>,
         <<"GetRules", GET, <<"masking", "rules">>>>, <<"SetRules", POST, <<"masking", "rules">>>>,
         <<"Undo", POST, <<"undo", "*">>>>, <<"BatchApprove", POST, <<"batch", "approve">>>>,
         <<"BatchDelete", POST, <<"batch", "delete">>>>,
         <<"BatchStatusChange", POST, <<"batch", "status-change">>>>})

TemplateRoutes ==
    BehindExactly(<<"system", "config">>, {
         <<"CreateTemplate", POST, <<"templates">>>>, <<"ListTemplates", GET, <<"templates">>>>,
         <<"GetTemplate", GET, <<"templates", "*">>>>,
         <<"ApplyTemplate", POST, <<"templates", "*", "apply">>>>,
         <<"CreateFromEnterprise", POST, <<"templates", "from-enterprise">>>>,
         <<"CreateRenderTemplate", POST, <<"templates", "claude-md">>>>,
         <<"ListRenderTemplates", GET, <<"templates", "claude-md">>>>})

AuthRoutes ==
    Open({
         <<"Login", POST, <<"auth", "login">>>>, <<"Refresh", POST, <<"auth", "refresh">>>>,
         <<"GenerateDeviceCode", POST, <<"auth", "device", "code">>>>,
         <<"ExchangeToken", POST, <<"auth", "device", "token">>>>})

DebugRoutes ==
    Open({
         <<"QueryLogs", GET, <<"debug", "logs">>>>, <<"SeedLogs", POST, <<"debug", "logs", "seed">>>>,
         <<"ListStubs", GET, <<"debug", "stubs">>>>, <<"AddStub", POST, <<"debug", "stubs">>>>,
         <<"RemoveStub", DELETE, <<"debug", "stubs", "*">>>>,
         <<"ClearStubs", DELETE, <<"debug", "stubs">>>>})

-----------------------------------------------------------------------------
ApiRoutes ==
    OrganisationRoutes \cup CRMRoutes \cup IMSRoutes \cup ContractRoutes \cup FinanceRoutes
    \cup ServiceRoutes \cup InfraRoutes \cup OperatorRoutes \cup BillingRoutes
    \cup ExportRoutes \cup SecurityRoutes \cup TemplateRoutes \cup AuthRoutes \cup DebugRoutes

(* A route serves a path of its length that agrees with it outside its      *)
(* parameters.                                                              *)
Serves(route, verb, path) ==
    /\ route.verb = verb /\ Len(route.path) = Len(path)
    /\ \A i \in 1..Len(path) : route.path[i] \in {"*", path[i]}
=============================================================================
