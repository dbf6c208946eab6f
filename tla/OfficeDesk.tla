----------------------------- MODULE OfficeDesk -----------------------------
(***************************************************************************)
(* The services around the business tables: files, the knowledge base, the *)
(* chat with the assistant, custom fields, templates and skills, webhooks, *)
(* tickets, configuration, alert rules and backups.                        *)
(***************************************************************************)
EXTENDS Operations, Functions

Table(kind) == [kind |-> kind, FindByID |-> "own", Create |-> "insert"]

-----------------------------------------------------------------------------
(* Files and the knowledge base.  A file is written to disk, then its row   *)
(* inserted; the file is removed when the insert fails.  Chunking a         *)
(* document inserts its chunks one by one and ignores their errors; doing   *)
(* it again inserts them again.                                             *)

FileMetadataRepo == Table("file")
KnowledgeFiles == Table("file record") @@ [List |-> PagedList(20, 100)]
KnowledgeDocs  == Table("document") @@ [List |-> PagedList(20, 100)]
KnowledgeChunks == Table("chunk")

FileService ==
    [Upload |-> Insert(FileMetadataRepo, "stored")]
    @@ Reads(FileMetadataRepo, {"Preview", "View", "Download"})
KnowledgeService ==
    [UploadFile     |-> Insert(KnowledgeFiles, "stored"),
     CreateDoc      |-> Insert(KnowledgeDocs, "draft"),
     CreateCategory |-> Insert(Table("category"), "stored"),
     ChunkDocument  |-> InsertUnder(KnowledgeChunks, "stored", "document")]
    @@ Lists(KnowledgeFiles, {"ListFiles"}) @@ Lists(KnowledgeDocs, {"ListDocs"})
    @@ Reads(Table("category"), {"ListCategories"}) @@ Reads(KnowledgeChunks, {"GetChunks"})
FileHandler      == Guarded(FileService)
KnowledgeHandler == Guarded(KnowledgeService)

-----------------------------------------------------------------------------
(* Chat sessions.  A preference is saved over the first session of the      *)
(* user, or over a new one.                                                 *)

AIRepo == Table("session") @@ [SaveSession |-> "save"]
AIService ==
    [CreateSession    |-> Insert(AIRepo, "stored"),
     SendMessage      |-> InsertUnder(Table("chat"), "stored", "session"),
     UpdatePreference |-> Insert(AIRepo, "stored") \cup Edit(AIRepo, "SaveSession", AnyStatus)]
    @@ Reads(AIRepo, {"ListSessions"}) @@ Reads(Table("chat"), {"GetMessages"})
AIHandler == Guarded(AIService)

-----------------------------------------------------------------------------
(* Definitions of custom fields (the fields themselves are set in module    *)
(* BulkDesk), the skill matrix, masking rules and alert                     *)
(* rules.  The matrix and the rules are read first, then inserted or        *)
(* updated by columns.                                                      *)

CustomFieldRepo == Table("field")
SkillMatrixRepo == Table("skill setting") @@ [Upsert |-> "columns"]
ServiceConfigRepo == Table("config") @@ [UpdateValue |-> "columns"]
AlertRuleRepo == Table("alert rule") @@ [UpdateAlertRule |-> "columns"]

CustomFieldService ==
    [CreateField |-> Insert(CustomFieldRepo, "stored")] @@ Reads(CustomFieldRepo, {"ListFields"})
EnterpriseSkillService ==
    [ConfigureSkill |-> Insert(SkillMatrixRepo, "enabled")
                        \cup Rewrite(SkillMatrixRepo, "Upsert", {"enabled", "disabled"})]
    @@ Reads(SkillMatrixRepo, {"ListSkillMatrix"})
MaskingService ==
    [SetRules |-> Insert(ServiceConfigRepo, "stored")
                  \cup Edit(ServiceConfigRepo, "UpdateValue", AnyStatus)]
    @@ Reads(ServiceConfigRepo, {"GetRules"})
OwnerService ==
    [CreateAlertRule |-> Insert(AlertRuleRepo, "enabled"),
     UpdateAlertRule |-> Rewrite(AlertRuleRepo, "UpdateAlertRule", {"enabled", "disabled"})]
    @@ Reads(AlertRuleRepo, {"ListAlertRules"})
CustomFieldHandler     == Guarded(CustomFieldService)
EnterpriseSkillHandler == Guarded(EnterpriseSkillService)
MaskingHandler         == Guarded(MaskingService)
OwnerHandler           == Guarded(OwnerService)

-----------------------------------------------------------------------------
(* Industry templates belong to the platform; applying one inserts the      *)
(* skills it names that no enterprise has yet.  The enterprise named in the *)
(* body by an operator who has none stands for a caller of that enterprise. *)

IndustryTemplateRepo ==
    [kind |-> "template", FindByID |-> "shared", Create |-> "insert",
     List |-> PagedList(20, 100)]
SkillRepo == Table("skill")
TemplateService ==
    [CreateTemplate       |-> Insert(IndustryTemplateRepo, "stored"),
     CreateFromEnterprise |-> Insert(IndustryTemplateRepo, "stored"),
     ApplyTemplate        |-> InsertUnder(SkillRepo, "active", "template")]
    @@ Reads(IndustryTemplateRepo, {"GetTemplate"}) @@ Lists(IndustryTemplateRepo, {"ListTemplates"})
SkillService ==
    [CreateSkill |-> Insert(SkillRepo, "active")] @@ Reads(SkillRepo, {"ListSkills", "GetSkill"})
TemplateHandler ==
    Guarded(Restrict(TemplateService, {"CreateFromEnterprise", "ApplyTemplate"}))
    @@ Restrict(TemplateService, {"CreateTemplate", "GetTemplate", "ListTemplates"})
SkillHandler == Guarded(SkillService)

-----------------------------------------------------------------------------
(* The operator's tables.                                                   *)

OperationsService ==
    [CreateSubscription  |-> Insert(Table("subscription"), "active"),
     CreateWebhook       |-> Insert(Table("webhook"), "enabled")]
    @@ Reads(Table("subscription"), {"ListSubscriptions"}) @@ Reads(Table("webhook"), {"ListWebhooks"})
PlatformService ==
    [CreateServiceTicket |-> Insert(Table("ticket"), "open"),
     CreateServiceConfig |-> Insert(ServiceConfigRepo, "stored")]
    @@ Reads(Table("ticket"), {"ListServiceTickets"}) @@ Reads(ServiceConfigRepo, {"GetServiceConfig"})
OperationsHandler == Guarded(OperationsService @@ PlatformService)

-----------------------------------------------------------------------------
(* Backups.  A backup inserts its record as running, runs pg_dump and saves *)
(* the outcome: the three operations are how far one call gets.  A restore  *)
(* of a successful backup writes no record.                                 *)

BackupConfigRepo ==
    Table("backup config") @@ [Update |-> "save", Delete |-> "remove"]
BackupRecordRepo == Table("backup") @@ [List |-> PagedList(20, 100)]

BackupConfigs ==
    [CreateConfig |-> Insert(BackupConfigRepo, "enabled"),
     UpdateConfig |-> Rewrite(BackupConfigRepo, "Update", {"enabled", "disabled"}),
     DeleteConfig |-> Remove(BackupConfigRepo, "Delete", AnyStatus)]
    @@ Reads(BackupConfigRepo, {"GetConfig", "ListConfigs"}) @@ Lists(BackupRecordRepo, {"ListRecords"})
TriggerBackup ==
    [TriggerBackup |-> UNION {Insert(BackupRecordRepo, s) : s \in {"success", "failed", "running"}}]
BackupHandler == Guarded(BackupConfigs @@ TriggerBackup)

-----------------------------------------------------------------------------
KnowledgeDesk == Reached(KnowledgeHandler, InfraRoutes)
AssistantDesk == Reached(FileHandler @@ AIHandler, InfraRoutes)
SettingsDesk ==
    Reached(CustomFieldHandler @@ EnterpriseSkillHandler @@ MaskingHandler @@ OwnerHandler,
            InfraRoutes \cup OrganisationRoutes \cup SecurityRoutes \cup FinanceRoutes)
BackupDesk    == Reached(BackupHandler, InfraRoutes)
TemplateDesk ==
    Reached(TemplateHandler @@ SkillHandler, TemplateRoutes \cup InfraRoutes)
OperatorDesk == Reached(OperationsHandler, OperatorRoutes)
=============================================================================
