-------------------------- MODULE OrganisationDesk --------------------------
(***************************************************************************)
(* Departments, employees and positions, the permissions given to them,    *)
(* and the platform's own tables of groups and enterprises.                *)
(***************************************************************************)
EXTENDS Operations, Functions

-----------------------------------------------------------------------------
(* Departments form a tree; one with child departments is not deleted.     *)

DepartmentRepo ==
    [kind |-> "department", FindByID |-> "own", Create |-> "insert", Update |-> "save",
     Delete |-> "remove"]
DepartmentService ==
    [CreateDepartment |-> Insert(DepartmentRepo, "stored")
                          \cup InsertUnder(DepartmentRepo, "stored", "department"),
     UpdateDepartment |-> Edit(DepartmentRepo, "Update", AnyStatus),
     SetManager       |-> Edit(DepartmentRepo, "Update", AnyStatus),
     DeleteDepartment |-> {[o EXCEPT !.leaf = TRUE] :
                              o \in Remove(DepartmentRepo, "Delete", AnyStatus)}]
    @@ Reads(DepartmentRepo, {"GetDepartment", "GetTree"})
DepartmentHandler == Guarded(DepartmentService)

-----------------------------------------------------------------------------
(* Employees.  An employee with an e-mail address gets a login; when that   *)
(* insert fails the employee is deleted again.  "mark" stands for the       *)
(* login.  Deleting an employee means marking it resigned, and any status   *)
(* can be set by an update.                                                 *)

EmployeeRepo ==
    [kind |-> "employee", FindByID |-> "own", Create |-> "insert", Update |-> "save",
     List |-> PagedList(20, 100)]
EmployeeHiring ==
    [CreateEmployee |-> InSteps(InsertUnder(EmployeeRepo, "active", "department"),
                                {"done", "undone", "half"}),
     BatchImport    |-> InSteps(InsertUnder(EmployeeRepo, "active", "department"),
                                {"done", "undone", "half"})]
EmployeeChanges ==
    [UpdateEmployee |-> Rewrite(EmployeeRepo, "Update", {"active", "resigned"}),
     DeleteEmployee |-> Move(EmployeeRepo, "Update", AnyStatus, "resigned"),
     Transfer       |-> Transfer(EmployeeRepo, "Update", "department")]
    @@ Reads(EmployeeRepo, {"GetEmployee"}) @@ Lists(EmployeeRepo, {"ListEmployees"})
EmployeeHandler == Guarded(EmployeeHiring @@ EmployeeChanges)

PositionRepo ==
    [kind |-> "position", FindByID |-> "own", Create |-> "insert", Update |-> "columns"]
PositionService ==
    [CreatePosition |-> Insert(PositionRepo, "stored"),
     UpdatePosition |-> Edit(PositionRepo, "Update", AnyStatus)]
    @@ Reads(PositionRepo, {"ListPositions"})
PositionHandler == Guarded(PositionService)

-----------------------------------------------------------------------------
(* Permissions of one employee, of a role, and across enterprises.  Setting *)
(* an employee's permission deletes the old row and inserts the new one in  *)
(* two statements; the grants of a role are replaced in a transaction, by   *)
(* the id of the role alone: whose role it is, is not looked at.            *)

EmployeePermissionRepo ==
    [kind |-> "permission", FindByID |-> "own", Create |-> "insert",
     DeleteByEmployeeAndPermission |-> "remove"]
EmployeePermissionService ==
    [SetPermission    |-> Replace(EmployeePermissionRepo, "allow", {"done", "cleared"})
                          \cup Replace(EmployeePermissionRepo, "deny", {"done", "cleared"}),
     RevokePermission |-> Unread(Remove(EmployeePermissionRepo,
                                        "DeleteByEmployeeAndPermission", AnyStatus))]
    @@ Reads(EmployeePermissionRepo, {"ListEmployeePermissions"})
EmployeePermissionHandler == Guarded(EmployeePermissionService)

RoleRepo == [kind |-> "role", FindByID |-> "own", CreateRole |-> "insert"]
RoleGrantRepo == [kind |-> "role grants", FindByID |-> "parent", Create |-> "insert"]
PermissionService ==
    [CreateRole         |-> {Act(RoleRepo, "CreateRole", AnyStatus, "stored", {})},
     SetRolePermissions |-> {[o EXCEPT !.needs = "role"] :
                                o \in Replace(RoleGrantRepo, "granted", {"done"})}]
    @@ Reads(RoleRepo, {"ListRoles"}) @@ Reads(RoleGrantRepo, {"GetRolePermissions"})
RoleHandler ==
    Guarded(Restrict(PermissionService, {"CreateRole", "ListRoles"}))
    @@ Restrict(PermissionService, {"SetRolePermissions", "GetRolePermissions"})

(* Granting to a user who has a grant already changes that one.            *)
CrossEnterpriseRepo ==
    [kind |-> "grant", FindByID |-> "own", Create |-> "insert", Update |-> "save",
     Delete |-> "remove"]
CrossEnterpriseService ==
    [Grant  |-> Insert(CrossEnterpriseRepo, "granted")
                \cup Edit(CrossEnterpriseRepo, "Update", AnyStatus),
     Revoke |-> Remove(CrossEnterpriseRepo, "Delete", AnyStatus)]
    @@ Reads(CrossEnterpriseRepo, {"ListByUser"})
CrossEnterpriseHandler == Guarded(CrossEnterpriseService)

-----------------------------------------------------------------------------
(* Groups and enterprises belong to no enterprise.  A new enterprise is     *)
(* inserted before its schema is created and migrated: "mark" stands for    *)
(* the schema.  A status change writes the row and then the log.            *)

GroupRepo ==
    [kind |-> "group", FindByID |-> "shared", Create |-> "insert", Update |-> "save",
     Delete |-> "remove", List |-> PagedList(20, 100)]
GroupService ==
    [CreateGroup |-> Insert(GroupRepo, "active"),
     UpdateGroup |-> Edit(GroupRepo, "Update", AnyStatus),
     DeleteGroup |-> Remove(GroupRepo, "Delete", AnyStatus)]
    @@ Reads(GroupRepo, {"GetGroup"}) @@ Lists(GroupRepo, {"ListGroups"})
GroupHandler == GroupService

EnterpriseRepo ==
    [kind |-> "enterprise", FindByID |-> "shared", Create |-> "insert", Update |-> "save",
     List |-> PagedList(20, 100)]
EnterpriseTransitions ==
    [trial |-> {"active", "expired", "cancelled"},
     active |-> {"suspended", "frozen", "expired", "cancelled"},
     suspended |-> {"active", "frozen", "cancelled"}, frozen |-> {"active", "cancelled"},
     expired |-> {"active", "cancelled"}, cancelled |-> {}]
EnterpriseService ==
    [CreateEnterprise       |-> InSteps(Insert(EnterpriseRepo, "trial"), {"done", "half"}),
     UpdateEnterprise       |-> Edit(EnterpriseRepo, "Update", AnyStatus),
     ChangeEnterpriseStatus |-> MovesOf(EnterpriseRepo, "Update", EnterpriseTransitions)]
    @@ Reads(EnterpriseRepo, {"GetEnterprise"}) @@ Lists(EnterpriseRepo, {"ListEnterprises"})
EnterpriseHandler == EnterpriseService

-----------------------------------------------------------------------------
DepartmentDesk == Reached(DepartmentHandler, OrganisationRoutes)
EmployeeDesk ==
    Reached(Restrict(DepartmentHandler, {"CreateDepartment", "DeleteDepartment"})
            @@ EmployeeHandler, OrganisationRoutes)
PermissionDesk ==
    Reached(EmployeePermissionHandler @@ CrossEnterpriseHandler, OrganisationRoutes)
RoleDesk       == Reached(RoleHandler @@ PositionHandler, OrganisationRoutes)
GroupDesk      == Reached(GroupHandler, OrganisationRoutes)
EnterpriseDesk == Reached(EnterpriseHandler, OrganisationRoutes)
=============================================================================
