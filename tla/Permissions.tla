---------------------------- MODULE Permissions ----------------------------
(***************************************************************************)
(* The static role table of pkg/rbac and the check the routes make with    *)
(* it.  A permission is a subject and an action: <<"contract", "update">>. *)
(***************************************************************************)
EXTENDS Naturals, FiniteSets

Kept == {"create", "read", "update", "delete", "list"}
Seen == {"read", "list"}

OperatorPermissions ==
    ({"user", "role", "department", "employee", "customer", "product", "order",
      "contract", "workflow"} \X Kept)
    \cup {<<"role", "assign">>} \cup ({"finance"} \X (Seen \cup {"update"}))
    \cup ({"system"} \X {"config", "logs", "backup", "debug"})

OwnerPermissions ==
    (OperatorPermissions \ {<<"system", "debug">>}) \cup {<<"*", "*">>}

AdminPermissions ==
    ({"user", "department", "employee", "customer", "product", "order", "contract"} \X Kept)
    \cup ({"role"} \X (Seen \cup {"assign"})) \cup ({"finance"} \X Seen)
    \cup ({"workflow"} \X (Kept \ {"delete"})) \cup {<<"system", "logs">>}

ManagerPermissions ==
    {<<"user", "read">>} \cup ({"customer", "contract"} \X Kept)
    \cup ({"employee", "order", "workflow"} \X (Kept \ {"delete"}))
    \cup ({"product"} \X (Seen \cup {"update"})) \cup ({"finance"} \X Seen)

EmployeePermissions ==
    {<<"user", "read">>} \cup ({"order"} \X (Kept \ {"delete"}))
    \cup ({"employee", "customer", "product", "contract", "department"} \X Seen)

RolePermissions ==
    [operator |-> OperatorPermissions, owner |-> OwnerPermissions,
     admin |-> AdminPermissions, manager |-> ManagerPermissions,
     employee |-> EmployeePermissions]

HasPermission(role, perm) ==
    /\ role \in DOMAIN RolePermissions
    /\ \/ <<"*", "*">> \in RolePermissions[role]
       \/ perm \in RolePermissions[role]

(* The gate of a route: it asks for any of some permissions, for none when  *)
(* there are none, or for one that the owner's wildcard does not stand for. *)
NoGate     == [any |-> {}, exact |-> FALSE]
Gate(perms) == [any |-> perms, exact |-> FALSE]
ExactGate(perm) == [any |-> {perm}, exact |-> TRUE]

(* RequirePermission and its variants: without a permission of the gate the *)
(* handler is not run.                                                      *)
RequirePermission(role, gate) ==
    \/ gate.any = {}
    \/ \E perm \in gate.any :
           IF gate.exact THEN role \in DOMAIN RolePermissions /\ perm \in RolePermissions[role]
           ELSE HasPermission(role, perm)
=============================================================================
