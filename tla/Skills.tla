------------------------------- MODULE Skills -------------------------------
(***************************************************************************)
(* The skills of the command line client: each turns the parameters of a   *)
(* call into one request to the API.  A table gives, for each skill, the    *)
(* verb and the path it sends; segments in braces are filled from the       *)
(* parameters, and those the skill declares as required are named in front. *)
(* Texts, roles' openings and parameters that only go into the body are     *)
(* left out.  data_export_create sends all of its actions to one path.      *)
(***************************************************************************)
EXTENDS Routes

Here == <<"enterprises", "{enterprise_id}">>

Sends(verb, requires, table) ==
    {[skill |-> t[1], verb |-> verb, path |-> t[2], requires |-> requires] : t \in table}

AISkills ==
    Sends(POST, {}, {
         <<"ai_session_create", <<"ai", "sessions">>>>})
    \cup Sends(GET, {}, {
         <<"ai_session_list", <<"ai", "sessions">>>>})
    \cup Sends(POST, {"session_id"}, {
         <<"ai_session_send_message", <<"ai", "sessions", "{session_id}", "messages">>>>})
    \cup Sends(GET, {"session_id"}, {
         <<"ai_session_messages", <<"ai", "sessions", "{session_id}", "messages">>>>})
    \cup Sends(PUT, {}, {
         <<"ai_preference_update", <<"ai", "preferences">>>>})

AuthSkills ==
    Sends(POST, {}, {
         <<"auth_switch_enterprise", <<"auth", "switch-enterprise">>>>})

ContractSkills1 ==
    Sends(POST, {}, {
         <<"contract_create", Here \o <<"contracts">>>>})
    \cup Sends(PUT, {"id"}, {
         <<"contract_update", <<"contracts", "{id}">>>>})
    \cup Sends(DELETE, {"id"}, {
         <<"contract_delete", <<"contracts", "{id}">>>>})
    \cup Sends(GET, {"id"}, {
         <<"contract_get", <<"contracts", "{id}">>>>,
         <<"contract_list_documents", <<"contracts", "{id}", "documents">>>>})
    \cup Sends(GET, {}, {
         <<"contract_list", Here \o <<"contracts">>>>})
    \cup Sends(POST, {"id"}, {
         <<"contract_submit_approval", <<"contracts", "{id}", "submit-approval">>>>,
         <<"contract_approve", <<"contracts", "{id}", "approve">>>>,
         <<"contract_upload_attachment", <<"contracts", "{id}", "attachments">>>>,
         <<"contract_link_document", <<"contracts", "{id}", "documents">>>>})
    \cup Sends(PATCH, {"id"}, {
         <<"contract_change_status", <<"contracts", "{id}", "status">>>>})

ContractSkills2 ==
    Sends(PATCH, {"id"}, {
         <<"contract_patch_fields", <<"contracts", "{id}">>>>})

CRMSkills1 ==
    Sends(POST, {}, {
         <<"crm_customer_create", Here \o <<"customers">>>>,
         <<"crm_customer_level_create", Here \o <<"customer-levels">>>>})
    \cup Sends(PUT, {"id"}, {
         <<"crm_customer_update", <<"customers", "{id}">>>>,
         <<"crm_customer_level_update", <<"customer-levels", "{id}">>>>})
    \cup Sends(DELETE, {"id"}, {
         <<"crm_customer_delete", <<"customers", "{id}">>>>,
         <<"crm_customer_level_delete", <<"customer-levels", "{id}">>>>})
    \cup Sends(GET, {"id"}, {
         <<"crm_customer_get", <<"customers", "{id}">>>>})
    \cup Sends(GET, {}, {
         <<"crm_customer_list", Here \o <<"customers">>>>,
         <<"crm_customer_level_list", Here \o <<"customer-levels">>>>})
    \cup Sends(POST, {"customer_id"}, {
         <<"crm_customer_tag_add", Here \o <<"customers", "{customer_id}", "tags">>>>})
    \cup Sends(GET, {"customer_id"}, {
         <<"crm_customer_tag_list", Here \o <<"customers", "{customer_id}", "tags">>>>})

CRMSkills2 ==
    Sends(DELETE, {"id", "tag"}, {
         <<"crm_customer_tag_remove", <<"customers", "{id}", "tags">>>>})
    \cup Sends(POST, {"customer_id"}, {
         <<"crm_contact_create", Here \o <<"customers", "{customer_id}", "contacts">>>>})
    \cup Sends(PUT, {"id"}, {
         <<"crm_contact_update", <<"contacts", "{id}">>>>,
         <<"crm_opportunity_update", <<"opportunities", "{id}">>>>})
    \cup Sends(DELETE, {"id"}, {
         <<"crm_contact_delete", <<"contacts", "{id}">>>>,
         <<"crm_opportunity_delete", <<"opportunities", "{id}">>>>})
    \cup Sends(GET, {"customer_id"}, {
         <<"crm_contact_list", Here \o <<"customers", "{customer_id}", "contacts">>>>,
         <<"crm_opportunity_list", Here \o <<"customers", "{customer_id}", "opportunities">>>>})
    \cup Sends(POST, {}, {
         <<"crm_opportunity_create", Here \o <<"opportunities">>>>})

CrossEnterpriseSkills ==
    Sends(POST, {}, {
         <<"org_cross_enterprise_grant", <<"cross-enterprise", "permissions">>>>})
    \cup Sends(DELETE, {"id"}, {
         <<"org_cross_enterprise_revoke", <<"cross-enterprise", "permissions", "{id}">>>>})
    \cup Sends(GET, {}, {
         <<"org_cross_enterprise_list", <<"cross-enterprise", "permissions">>>>})

DataExportSkills ==
    Sends(POST, {}, {
         <<"data_export_create", <<"data-export">>>>})
    \cup Sends(GET, {}, {
         <<"data_export_list", <<"data-export">>>>})
    \cup Sends(GET, {"id"}, {
         <<"data_export_get", <<"data-export", "{id}">>>>,
         <<"data_export_download", <<"data-export", "{id}", "download">>>>})

FinanceSkills1 ==
    Sends(POST, {}, {
         <<"finance_payment_create", Here \o <<"payments">>>>,
         <<"finance_expense_create", Here \o <<"expenses">>>>,
         <<"finance_invoice_create", Here \o <<"invoices">>>>,
         <<"finance_receivable_create", Here \o <<"receivables">>>>,
         <<"finance_payable_create", Here \o <<"payables">>>>})
    \cup Sends(GET, {}, {
         <<"finance_payment_list", Here \o <<"payments">>>>,
         <<"finance_expense_list", Here \o <<"expenses">>>>,
         <<"finance_invoice_list", Here \o <<"invoices">>>>,
         <<"finance_receivable_list", Here \o <<"receivables">>>>,
         <<"finance_payable_list", Here \o <<"payables">>>>})
    \cup Sends(POST, {"id"}, {
         <<"finance_expense_approve", <<"expenses", "{id}", "approve">>>>})

FinanceSkills2 ==
    Sends(POST, {}, {
         <<"finance_collection_create", Here \o <<"collections">>>>,
         <<"finance_payment_request_create", Here \o <<"payment-requests">>>>})
    \cup Sends(GET, {}, {
         <<"finance_collection_list", Here \o <<"collections">>>>,
         <<"finance_payment_request_list", Here \o <<"payment-requests">>>>,
         <<"finance_payment_plan_overdue", Here \o <<"payment-plans", "overdue">>>>,
         <<"finance_cash_flow_forecast", Here \o <<"cash-flow-forecast">>>>,
         <<"finance_reconciliation", Here \o <<"reconciliation">>>>})
    \cup Sends(POST, {"id"}, {
         <<"finance_payment_request_submit", Here \o <<"payment-requests", "{id}", "submit">>>>,
         <<"finance_payment_request_approve", Here \o <<"payment-requests", "{id}", "approve">>>>,
         <<"finance_payment_request_reject", Here \o <<"payment-requests", "{id}", "reject">>>>})
    \cup Sends(POST, {"contract_id"}, {
         <<"finance_payment_plan_create", Here \o <<"contracts", "{contract_id}", "payment-plans">>>>})
    \cup Sends(GET, {"contract_id"}, {
         <<"finance_payment_plan_list", Here \o <<"contracts", "{contract_id}", "payment-plans">>>>})

HRMSkills1 ==
    Sends(POST, {}, {
         <<"hrm_employee_create", Here \o <<"employees">>>>,
         <<"hrm_employee_batch_import", Here \o <<"employees", "batch-import">>>>})
    \cup Sends(PUT, {"id"}, {
         <<"hrm_employee_update", <<"employees", "{id}">>>>,
         <<"hrm_employee_transfer", <<"employees", "{id}", "transfer">>>>})
    \cup Sends(DELETE, {"id"}, {
         <<"hrm_employee_delete", <<"employees", "{id}">>>>})
    \cup Sends(GET, {"id"}, {
         <<"hrm_employee_get", <<"employees", "{id}">>>>,
         <<"hrm_employee_permission_list", <<"employees", "{id}", "permissions">>>>})
    \cup Sends(GET, {}, {
         <<"hrm_employee_list", Here \o <<"employees">>>>,
         <<"hrm_employee_sales_performance", Here \o <<"employees", "sales-performance">>>>})
    \cup Sends(POST, {"id"}, {
         <<"hrm_employee_permission_set", <<"employees", "{id}", "permissions">>>>})
    \cup Sends(DELETE, {"id", "permission"}, {
         <<"hrm_employee_permission_revoke", <<"employees", "{id}", "permissions">>>>})

HRMSkills2 ==
    Sends(POST, {}, {
         <<"hrm_position_create", Here \o <<"positions">>>>})
    \cup Sends(GET, {}, {
         <<"hrm_position_list", Here \o <<"positions">>>>})
    \cup Sends(PUT, {"id"}, {
         <<"hrm_position_update", <<"positions", "{id}">>>>})

IMSSkills1 ==
    Sends(POST, {}, {
         <<"ims_material_create", Here \o <<"materials">>>>,
         <<"ims_supplier_create", Here \o <<"suppliers">>>>,
         <<"ims_warehouse_create", Here \o <<"warehouses">>>>})
    \cup Sends(PUT, {"id"}, {
         <<"ims_material_update", <<"materials", "{id}">>>>,
         <<"ims_supplier_update", <<"suppliers", "{id}">>>>})
    \cup Sends(DELETE, {"id"}, {
         <<"ims_material_delete", <<"materials", "{id}">>>>,
         <<"ims_supplier_delete", <<"suppliers", "{id}">>>>})
    \cup Sends(GET, {"id"}, {
         <<"ims_material_get", <<"materials", "{id}">>>>,
         <<"ims_supplier_get", <<"suppliers", "{id}">>>>})
    \cup Sends(GET, {}, {
         <<"ims_material_list", Here \o <<"materials">>>>,
         <<"ims_supplier_list", Here \o <<"suppliers">>>>})

IMSSkills2 ==
    Sends(PUT, {"id"}, {
         <<"ims_warehouse_update", <<"warehouses", "{id}">>>>})
    \cup Sends(DELETE, {"id"}, {
         <<"ims_warehouse_delete", <<"warehouses", "{id}">>>>})
    \cup Sends(GET, {"id"}, {
         <<"ims_warehouse_get", <<"warehouses", "{id}">>>>})
    \cup Sends(GET, {}, {
         <<"ims_warehouse_list", Here \o <<"warehouses">>>>,
         <<"ims_inventory_low_stock", Here \o <<"inventory", "low-stock">>>>})
    \cup Sends(GET, {"warehouse_id"}, {
         <<"ims_inventory_query_by_warehouse", Here \o <<"inventory", "warehouses", "{warehouse_id}">>>>})
    \cup Sends(GET, {"material_id"}, {
         <<"ims_inventory_query_by_material", Here \o <<"inventory", "materials", "{material_id}">>>>})
    \cup Sends(POST, {}, {
         <<"ims_inventory_set", Here \o <<"inventory">>>>,
         <<"ims_purchase_order_create", Here \o <<"purchase-orders">>>>,
         <<"ims_sales_order_create", Here \o <<"sales-orders">>>>,
         <<"ims_transfer_create", Here \o <<"transfers">>>>})
    \cup Sends(POST, {"id"}, {
         <<"ims_purchase_order_receive", <<"purchase-orders", "{id}", "receive">>>>})

IMSSkills3 ==
    Sends(POST, {"id"}, {
         <<"ims_transfer_execute", <<"transfers", "{id}", "execute">>>>,
         <<"ims_requisition_issue", <<"requisitions", "{id}", "issue">>>>,
         <<"ims_sales_order_ship", <<"sales-orders", "{id}", "ship">>>>,
         <<"ims_inspection_add_item", <<"inspections", "{id}", "items">>>>,
         <<"ims_inspection_complete", <<"inspections", "{id}", "complete">>>>})
    \cup Sends(POST, {}, {
         <<"ims_requisition_create", Here \o <<"requisitions">>>>})
    \cup Sends(GET, {}, {
         <<"ims_order_list", Here \o <<"orders">>>>,
         <<"ims_stock_flow_list", Here \o <<"stock-flows">>>>})
    \cup Sends(PATCH, {"id"}, {
         <<"ims_sales_order_status_change", <<"sales-orders", "{id}", "status">>>>})
    \cup Sends(POST, {"po_id"}, {
         <<"ims_inspection_create", Here \o <<"purchase-orders", "{po_id}", "inspections">>>>})
    \cup Sends(GET, {"po_id"}, {
         <<"ims_inspection_list", Here \o <<"purchase-orders", "{po_id}", "inspections">>>>})
    \cup Sends(GET, {"id"}, {
         <<"ims_inspection_get", <<"inspections", "{id}">>>>})

InfraSkills1 ==
    Sends(POST, {}, {
         <<"backup_config_create", <<"backup", "configs">>>>,
         <<"backup_trigger", <<"backup", "trigger">>>>})
    \cup Sends(GET, {}, {
         <<"backup_config_list", <<"backup", "configs">>>>,
         <<"backup_record_list", <<"backup", "records">>>>, <<"quota_get", <<"quota">>>>,
         <<"feature_list", <<"features">>>>, <<"audit_log_list", <<"audit-logs">>>>})
    \cup Sends(PUT, {"id"}, {
         <<"backup_config_update", <<"backup", "configs", "{id}">>>>})
    \cup Sends(DELETE, {"id"}, {
         <<"backup_config_delete", <<"backup", "configs", "{id}">>>>})
    \cup Sends(POST, {"record_id"}, {
         <<"backup_restore", <<"backup", "restore", "{record_id}">>>>})
    \cup Sends(PUT, {}, {
         <<"quota_update", <<"quota">>>>})
    \cup Sends(PUT, {"key"}, {
         <<"feature_update", <<"features", "{key}">>>>})

InfraSkills2 ==
    Sends(GET, {}, {
         <<"assist_todo_aggregation", <<"assist", "todo-aggregation">>>>,
         <<"assist_process_guide", <<"assist", "process-guide">>>>,
         <<"assist_work_report", <<"assist", "work-report">>>>, <<"skill_list", <<"skills">>>>})
    \cup Sends(GET, {"name"}, {
         <<"skill_get", <<"skills", "{name}">>>>})
    \cup Sends(POST, {}, {
         <<"skill_create", <<"skills">>>>})

KnowledgeSkills ==
    Sends(POST, {}, {
         <<"kb_doc_create", Here \o <<"kb", "docs">>>>,
         <<"kb_category_create", Here \o <<"kb", "categories">>>>,
         <<"kb_file_upload", Here \o <<"files">>>>})
    \cup Sends(GET, {}, {
         <<"kb_doc_list", Here \o <<"kb", "docs">>>>,
         <<"kb_semantic_search", Here \o <<"kb", "semantic-search">>>>,
         <<"kb_category_list", Here \o <<"kb", "categories">>>>,
         <<"kb_file_list", Here \o <<"files">>>>})
    \cup Sends(POST, {"id"}, {
         <<"kb_doc_chunk", Here \o <<"kb", "docs", "{id}", "chunk">>>>})
    \cup Sends(GET, {"id"}, {
         <<"kb_doc_chunks", Here \o <<"kb", "docs", "{id}", "chunks">>>>,
         <<"kb_doc_versions", Here \o <<"kb", "docs", "{id}", "versions">>>>,
         <<"kb_doc_compare_versions", Here \o <<"kb", "docs", "{id}", "compare">>>>})
    \cup Sends(GET, {"id", "version"}, {
         <<"kb_doc_version_get", Here \o <<"kb", "docs", "{id}", "versions", "{version}">>>>})

MessageSkills ==
    Sends(POST, {}, {
         <<"message_send", Here \o <<"messages">>>>,
         <<"message_batch_mark_read", Here \o <<"messages", "read">>>>,
         <<"announcement_create", Here \o <<"announcements">>>>})
    \cup Sends(GET, {}, {
         <<"message_list", Here \o <<"messages">>>>,
         <<"message_unread", Here \o <<"messages", "unread">>>>,
         <<"message_poll", Here \o <<"messages", "poll">>>>,
         <<"announcement_list", Here \o <<"announcements">>>>})
    \cup Sends(POST, {"id"}, {
         <<"message_mark_read", Here \o <<"messages", "{id}", "read">>>>})

OperatorSkills1 ==
    Sends(GET, {}, {
         <<"operator_dashboard", <<"dashboard">>>>, <<"operator_webhook_list", <<"webhooks">>>>,
         <<"operator_service_ticket_list", <<"service-tickets">>>>,
         <<"operator_sla_metrics", <<"sla-metrics">>>>,
         <<"operator_audit_logs", <<"audit-logs">>>>,
         <<"billing_plan_list", <<"billing", "plans">>>>,
         <<"billing_bill_list", <<"billing", "bills">>>>,
         <<"billing_revenue_summary", <<"billing", "revenue-summary">>>>,
         <<"billing_subscription_list", <<"enterprise-subscriptions">>>>})
    \cup Sends(POST, {}, {
         <<"operator_webhook_create", <<"webhooks">>>>,
         <<"operator_service_ticket_create", <<"service-tickets">>>>,
         <<"billing_plan_create", <<"billing", "plans">>>>,
         <<"billing_subscription_create", <<"billing", "subscriptions">>>>})
    \cup Sends(PUT, {"subscription_id"}, {
         <<"billing_subscription_upgrade", <<"billing", "subscriptions", "{subscription_id}", "upgrade">>>>})

OperatorSkills2 ==
    Sends(PUT, {"subscription_id"}, {
         <<"billing_subscription_downgrade", <<"billing", "subscriptions", "{subscription_id}", "downgrade">>>>})
    \cup Sends(POST, {"subscription_id"}, {
         <<"billing_subscription_renew", <<"billing", "subscriptions", "{subscription_id}", "renew">>>>})
    \cup Sends(GET, {"bill_id"}, {
         <<"billing_bill_get", <<"billing", "bills", "{bill_id}">>>>})
    \cup Sends(POST, {"bill_id"}, {
         <<"billing_bill_refund", <<"billing", "bills", "{bill_id}", "refund">>>>})
    \cup Sends(GET, {}, {
         <<"template_list", <<"templates">>>>,
         <<"claude_md_template_list", <<"templates", "claude-md">>>>})
    \cup Sends(GET, {"id"}, {
         <<"template_get", <<"templates", "{id}">>>>})
    \cup Sends(POST, {}, {
         <<"template_create", <<"templates">>>>,
         <<"claude_md_template_create", <<"templates", "claude-md">>>>,
         <<"custom_field_create", <<"meta", "fields">>>>})
    \cup Sends(POST, {"id"}, {
         <<"template_apply", <<"templates", "{id}", "apply">>>>})
    \cup Sends(GET, {"entity"}, {
         <<"custom_field_list", <<"meta", "entities", "{entity}", "fields">>>>})
    \cup Sends(PATCH, {"entity", "id"}, {
         <<"custom_field_set", <<"{entity}", "{id}", "custom-fields">>>>})

OperatorSkills3 ==
    Sends(GET, {"type", "id", "name"}, {
         <<"entity_relation_get", <<"{type}", "{id}", "relations", "{name}">>>>})
    \cup Sends(PUT, {"skill_name"}, {
         <<"skill_matrix_disable", Here \o <<"skill-matrix", "{skill_name}">>>>})
    \cup Sends(POST, {}, {
         <<"notification_sms_send", <<"notifications", "sms", "send">>>>,
         <<"notification_email_send", <<"notifications", "email", "send">>>>,
         <<"service_config_create", <<"service-config">>>>,
         <<"finance_owner_alert_rule_create", Here \o <<"owner", "alert-rules">>>>})
    \cup Sends(GET, {"key"}, {
         <<"service_config_get", <<"service-config", "{key}">>>>})
    \cup Sends(GET, {}, {
         <<"finance_owner_signals", Here \o <<"owner", "signals">>>>,
         <<"finance_owner_kpi", Here \o <<"owner", "kpi">>>>,
         <<"finance_owner_alert_rule_list", Here \o <<"owner", "alert-rules">>>>})

OrgSkills1 ==
    Sends(POST, {}, {
         <<"org_department_create", Here \o <<"departments">>>>,
         <<"org_position_create", Here \o <<"positions">>>>, <<"org_group_create", <<"groups">>>>})
    \cup Sends(PUT, {"id"}, {
         <<"org_department_update", <<"departments", "{id}">>>>,
         <<"org_department_set_manager", <<"departments", "{id}", "manager">>>>,
         <<"org_position_update", <<"positions", "{id}">>>>,
         <<"org_group_update", <<"groups", "{id}">>>>})
    \cup Sends(DELETE, {"id"}, {
         <<"org_department_delete", <<"departments", "{id}">>>>})
    \cup Sends(GET, {}, {
         <<"org_department_tree", Here \o <<"departments", "tree">>>>,
         <<"org_position_list", Here \o <<"positions">>>>, <<"org_group_list", <<"groups">>>>})
    \cup Sends(GET, {"id"}, {
         <<"org_group_get", <<"groups", "{id}">>>>})

OrgSkills2 ==
    Sends(DELETE, {"id"}, {
         <<"org_group_delete", <<"groups", "{id}">>>>})
    \cup Sends(GET, {"id"}, {
         <<"org_group_summary", <<"groups", "summary", "{id}">>>>,
         <<"org_department_get", <<"departments", "{id}">>>>})
    \cup Sends(GET, {}, {
         <<"org_enterprise_list", <<"enterprises">>>>, <<"org_enterprise_get", Here \o <<>>>>,
         <<"org_enterprise_status_log", Here \o <<"status-log">>>>})
    \cup Sends(POST, {}, {
         <<"org_enterprise_create", <<"enterprises">>>>,
         <<"org_enterprise_change_status", Here \o <<"status">>>>})
    \cup Sends(PUT, {}, {
         <<"org_enterprise_update", Here \o <<>>>>})

SalesSkills ==
    Sends(POST, {}, {
         <<"sales_order_create", Here \o <<"sales-orders">>>>})
    \cup Sends(POST, {"id"}, {
         <<"sales_order_ship", <<"sales-orders", "{id}", "ship">>>>,
         <<"sales_order_bind_contract", <<"sales-orders", "{id}", "contract">>>>,
         <<"sales_order_delivery", <<"sales-orders", "{id}", "delivery">>>>})
    \cup Sends(PATCH, {"id"}, {
         <<"sales_order_change_status", <<"sales-orders", "{id}", "status">>>>})

ServiceSkills ==
    Sends(POST, {}, {
         <<"service_order_create", Here \o <<"service-orders">>>>})
    \cup Sends(GET, {}, {
         <<"service_order_list", Here \o <<"service-orders">>>>})
    \cup Sends(GET, {"id"}, {
         <<"service_order_get", <<"service-orders", "{id}">>>>,
         <<"service_order_list_attachments", <<"service-orders", "{id}", "attachments">>>>})
    \cup Sends(PUT, {"id"}, {
         <<"service_order_quote", <<"service-orders", "{id}">>>>})
    \cup Sends(DELETE, {"id"}, {
         <<"service_order_delete", <<"service-orders", "{id}">>>>})
    \cup Sends(PATCH, {"id"}, {
         <<"service_order_change_status", <<"service-orders", "{id}", "status">>>>})
    \cup Sends(POST, {"id"}, {
         <<"service_order_sign", <<"service-orders", "{id}", "sign">>>>,
         <<"service_order_upload_attachment", Here \o <<"service-orders", "{id}", "attachments">>>>})

WorkflowSkills ==
    Sends(POST, {}, {
         <<"workflow_definition_create", <<"workflow-definitions">>>>,
         <<"workflow_submit", <<"workflows">>>>})
    \cup Sends(GET, {}, {
         <<"workflow_definition_list", <<"workflow-definitions">>>>,
         <<"workflow_pending_list", <<"workflows", "pending">>>>})
    \cup Sends(GET, {"id"}, {
         <<"workflow_definition_get", <<"workflow-definitions", "{id}">>>>,
         <<"workflow_history", <<"workflows", "{id}", "history">>>>})
    \cup Sends(POST, {"id"}, {
         <<"workflow_approve", <<"workflows", "{id}", "approve">>>>,
         <<"workflow_reject", <<"workflows", "{id}", "reject">>>>,
         <<"workflow_transfer", <<"workflows", "{id}", "transfer">>>>,
         <<"workflow_return", <<"workflows", "{id}", "return">>>>,
         <<"workflow_resubmit", <<"workflows", "{id}", "resubmit">>>>})

-----------------------------------------------------------------------------
(* RegisterAll.                                                             *)
AllSkills ==
    AISkills \cup AuthSkills \cup ContractSkills1 \cup ContractSkills2 \cup
    CRMSkills1 \cup CRMSkills2 \cup CrossEnterpriseSkills \cup
    DataExportSkills \cup FinanceSkills1 \cup FinanceSkills2 \cup HRMSkills1
    \cup HRMSkills2 \cup IMSSkills1 \cup IMSSkills2 \cup IMSSkills3 \cup
    InfraSkills1 \cup InfraSkills2 \cup KnowledgeSkills \cup MessageSkills
    \cup OperatorSkills1 \cup OperatorSkills2 \cup OperatorSkills3 \cup
    OrgSkills1 \cup OrgSkills2 \cup SalesSkills \cup ServiceSkills \cup
    WorkflowSkills

(* executeSkill refuses a call that lacks a required parameter; given them, *)
(* it fills the segments named like the enterprise of the configuration or  *)
(* like a parameter.  A filled segment is "+".                              *)
\* Defect: only the enterprise is filled in.
FillsEnterprise(path, params) ==
    [i \in DOMAIN path |-> IF path[i] = "{enterprise_id}" THEN "+" ELSE path[i]]
Fills(path, params) ==
    [i \in DOMAIN path |->
        IF path[i] \in {"{" \o p \o "}" : p \in params} THEN "+" ELSE path[i]]

Placeholders == {"{" \o p \o "}" : p \in UNION {s.requires : s \in AllSkills} \cup {"enterprise_id"}}

(* What becomes of the request of a skill called with the parameters it     *)
(* requires, by a client with an enterprise in its configuration.           *)
Outcome(s) ==
    LET path == Fills(s.path, s.requires \cup {"enterprise_id"})
    IN  IF \E i \in DOMAIN path : path[i] \in Placeholders THEN "unfilled"
        ELSE IF \E route \in ApiRoutes : Serves(route, s.verb, path) THEN "served"
        ELSE "unserved"

Outcomes == {Outcome(s) : s \in AllSkills}
=============================================================================
