------------------------------ MODULE MCRecords ------------------------------
(* The desks of the program, called by two enterprises.                     *)
EXTENDS BulkDesk, OfficeDesk, Records

MCServed ==
    [contracts |-> ContractDesk, services |-> ServiceOrderDesk, requests |-> RequestDesk,
     plans |-> PlanDesk, ledger |-> LedgerDesk, contacts |-> ContactDesk,
     opportunities |-> OpportunityDesk, levels |-> LevelDesk, materials |-> MaterialDesk,
     suppliers |-> SupplierDesk, warehouses |-> WarehouseDesk,
     departments |-> DepartmentDesk, employees |-> EmployeeDesk, roles |-> RoleDesk,
     permissions |-> PermissionDesk, groups |-> GroupDesk, enterprises |-> EnterpriseDesk,
     knowledge |-> KnowledgeDesk, assistant |-> AssistantDesk, settings |-> SettingsDesk,
     backups |-> BackupDesk, templates |-> TemplateDesk, operator |-> OperatorDesk,
     debts |-> DebtDesk]
MCDesks ==
    [d \in DOMAIN MCServed \cup BulkTables |->
        IF d \in BulkTables THEN BulkDesk(d) ELSE MCServed[d]]

MCCallers ==
    {[ent |-> "e1", role |-> "owner", granted |-> {}],
     [ent |-> "e1", role |-> "employee", granted |-> {}],
     [ent |-> "none", role |-> "operator", granted |-> {}]}

MCLadder ==
    [contract |-> [active |-> "pending_approval", fulfilled |-> "active",
                   terminated |-> "active"],
     service  |-> [signed |-> "completed", completed |-> "in_progress",
                   waiting_approval |-> "in_progress", approved |-> "waiting_approval"],
     enterprise |-> [suspended |-> "active", frozen |-> "active"],
     request  |-> [approved |-> "pending_approval", rejected |-> "pending_approval"]]
MCColumnTables == {"plan", "repair", "position", "skill setting", "alert rule"}
MCRestricted == {"contract", "attachment", "customer", "contact", "opportunity", "tag",
                 "level", "material", "supplier", "warehouse"}
MCDirect == BulkTables
=============================================================================
