---------------------------- MODULE Operations ----------------------------
(***************************************************************************)
(* The vocabulary in which the services of the record tables (contracts,   *)
(* orders, customers, payments, ...) are described.  Nearly every service  *)
(* operation has the same shape: the handler takes the enterprise the      *)
(* request carries, the service reads the row, refuses on its status, and  *)
(* one repository statement writes.  What differs from one operation to    *)
(* the next is data, and that is how it is written here:                   *)
(*   a repository  maps the methods it has to the SQL statement they run,  *)
(*   a service     maps its methods to the set of operations they perform, *)
(*                 one for each choice of the arguments that matter,       *)
(*   a handler     is the part of a service it exposes, with its checks,   *)
(*   the routes    (module Routes) mount its methods, each behind a gate.  *)
(* Module Records gives these operations their steps.                      *)
(***************************************************************************)
EXTENDS Naturals, FiniteSets, Sequences, TLC, Routes

AnyStatus == {"any status"}  \* the operation does not look at the status
Same      == "same status"   \* the operation leaves the status alone
Scheduled == ExactGate(<<"timer", "tick">>)  \* in place of a route's gate: run by a timer

(* An operation: the kind of row, how the row is found ("own": by id and   *)
(* enterprise, "shared": by id alone, in a table without an enterprise,    *)
(* "parent": by the id of its parent, in a table without an enterprise     *)
(* whose rows are its parent's, "blind": not read first), the statuses it  *)
(* accepts, the status it sets, the columns it changes, the statement it   *)
(* ends with ("insert", "save": every column of the row it read,           *)
(* "columns": only the named ones, "raw": these by a statement that meets  *)
(* deleted rows too, "remove" and "restore": the deletion mark), the kind  *)
(* of parent row it looks up first, the status it gives the parent,        *)
(* whether it refuses a row with children, whether it replaces its         *)
(* siblings, how far it gets when it has more than one statement outside a *)
(* transaction, and, for a reading operation (via "read"), the pages it    *)
(* reads in.                                                               *)
PagedList(default, most) == [default |-> default, most |-> most]
Unpaged == PagedList(0, 0)

Statement(repo, method) == repo[method]

Act(repo, method, from, to, columns) ==
    [kind |-> repo.kind, find |-> repo.FindByID, from |-> from, to |-> to,
     columns |-> columns, via |-> Statement(repo, method), needs |-> "none", above |-> Same,
     leaf |-> FALSE, clears |-> FALSE, ends |-> {"done"},
     pages |-> Unpaged, tenant |-> FALSE, owned |-> FALSE, gate |-> NoGate]

Insert(repo, status)          == {Act(repo, "Create", AnyStatus, status, {})}
InsertUnder(repo, status, parent) ==
    {[o EXCEPT !.needs = parent] : o \in Insert(repo, status)}
Edit(repo, method, from)      == {Act(repo, method, from, Same, {"text"})}
Move(repo, method, from, to)  == {Act(repo, method, from, to, {"status"})}
(* A decision also writes who took it, a reminder that it went out.        *)
Decide(repo, method, from, to) == {Act(repo, method, from, to, {"status", "mark"})}
Remove(repo, method, from)    == {Act(repo, method, from, Same, {})}
(* Hang the row under another parent, which is looked up first.            *)
Transfer(repo, method, parent) ==
    {[o EXCEPT !.needs = parent] : o \in {Act(repo, method, AnyStatus, Same, {"under"})}}
(* An insert that takes the place of the rows under the same parent.       *)
Replace(repo, status, ends) ==
    {[o EXCEPT !.clears = TRUE, !.ends = ends] : o \in Insert(repo, status)}
InSteps(ops, ends)   == {[o EXCEPT !.ends = ends] : o \in ops}
Unread(ops)          == {[o EXCEPT !.find = "blind"] : o \in ops}
Rewrite(repo, method, statuses) ==
    UNION {{Act(repo, method, AnyStatus, s, {"text", "status"})} : s \in statuses \cup {Same}}

(* Every status change a table of transitions allows, one per target.      *)
MovesOf(repo, method, table) ==
    UNION {Move(repo, method, {f \in DOMAIN table : to \in table[f]}, to) :
              to \in UNION {table[f] : f \in DOMAIN table}}

(* A handler answers an error to a request without an enterprise.          *)
Guarded(service) ==
    [m \in DOMAIN service |-> {[o EXCEPT !.tenant = TRUE] : o \in service[m]}]

(* The reading methods of a service: they find rows and change nothing.    *)
Reads(repo, methods) ==
    [m \in methods |-> {[Act(repo, "FindByID", AnyStatus, Same, {}) EXCEPT !.via = "read"]}]
(* Those that read page after page.                                        *)
Lists(repo, methods) ==
    [m \in methods |-> {[o EXCEPT !.pages = repo.List] : o \in Reads(repo, {m})[m]}]

(* The operations a client can reach: the mounted ones, each behind the    *)
(* gate of its route and, in the enterprises' group, behind its check.     *)
Reached(handler, routes) ==
    UNION {{[o EXCEPT !.gate = r.gate, !.owned = Owned(r)] : o \in handler[r.op]} :
              r \in {r \in routes : r.op \in DOMAIN handler}}

(* A paged list: page numbers below one mean the first, a page size out of *)
(* bounds means the default, newest rows first.                            *)
\* Defect: pages counted from zero.
PageNoFromZero(page) == IF page < 1 THEN 2 ELSE page + 1

PageNo(page) == IF page < 1 THEN 1 ELSE page
PageSize(list, size) == IF size < 1 \/ size > list.most THEN list.default ELSE size
=============================================================================
