------------------------------ MODULE Records ------------------------------
(***************************************************************************)
(* The steps of the record services.  A desk is a set of operations (module *)
(* Operations) on one family of tables.  A call of an operation passes the  *)
(* permission of its route, works for the enterprise that the request       *)
(* carries, reads what the operation reads, and later writes with one       *)
(* statement; calls interleave between the reading and the writing, because *)
(* no service holds a lock or a transaction over both.                      *)
(*                                                                          *)
(* The enterprise of a request is the one a header, the query or the path   *)
(* names, and that of the caller's token only when none is named.  It is    *)
(* taken before the token is read, so nothing compares the two, but in the  *)
(* enterprises' group of routes (module Routes).                            *)
(***************************************************************************)
EXTENDS Operations, FiniteSetsExt, Functions

CONSTANTS Desks,      \* the name of a desk |-> its operations
          Callers,    \* the callers, [ent, role, granted]: the enterprise and the
                      \* role of the token, the other enterprises granted to the user
          Named,      \* the enterprises a request may name
          MaxRow,     \* the ids of the rows are 1..MaxRow, given in that order
          Slots,      \* the requests in flight at one time
          MaxCalls,   \* how many calls are made
          Readers,    \* the roles that read lists page after page
          PageSizes,  \* the page sizes a reader asks for
          Ladder,     \* kind |-> status |-> the status that comes before it
          ColumnTables, \* the kinds no operation saves whole
          Restricted, \* the kinds an employee may only read
          Direct      \* the desks whose statements pass by the services

(* What the operations of a desk say, for the proofs; checked of the desks  *)
(* of the program by every run.                                             *)
Writes(d)      == {o \in Desks[d] : o.via # "read"}
SharedKinds(d) == {o.kind : o \in {p \in Desks[d] : p.find = "shared"}}
Served         == DOMAIN Desks \ Direct

(* Only the timer calls what is Scheduled; an image that is saved was read. *)
ASSUME DesksAssumption ==
    /\ MaxRow \in Nat /\ MaxCalls \in Nat /\ Slots \subseteq Nat
    /\ \A d \in DOMAIN Desks : \A o \in Writes(d) :
           /\ o.kind # "none"
           /\ o.via \in {"insert", "save", "columns", "raw", "restore", "remove"}
           /\ o.find \in {"own", "shared", "parent", "unmarked", "blind"}
           /\ o.find = "blind" => o.via # "save"
           /\ o.find = "parent" => o.via = "insert" /\ o.needs # "none"
           /\ o.find = "unmarked" => o.gate = Scheduled
           /\ o.gate = Scheduled => o.via # "insert"

(* The rows of a table belong to enterprises or to the platform; a request  *)
(* without an enterprise reaches only the platform's, or names a parent of  *)
(* an enterprise.                                                           *)
ASSUME OwnersAssumption ==
    /\ "platform" \notin Named \cup {who.ent : who \in Callers}
    /\ \A d \in DOMAIN Desks : \A o \in Writes(d) :
           /\ o.find # "shared" => o.kind \notin SharedKinds(d)
           /\ o.find = "parent" => o.needs \notin SharedKinds(d)
           /\ \/ o.tenant \/ o.gate = Scheduled \/ o.find = "shared"
              \/ o.via = "insert" /\ o.needs # "none" /\ o.needs \notin SharedKinds(d)

(* A status of the ladder is set only on a row found in a status that has   *)
(* the step below it on the way to it, and never on a new row.              *)
Below(steps, f, s) ==
    \A S \in SUBSET (DOMAIN steps \cup {steps[t] : t \in DOMAIN steps} \cup {f}) :
        f \in S /\ (\A t \in S \cap DOMAIN steps : steps[t] \in S) => steps[s] \in S
ASSUME LadderAssumption ==
    \A k \in DOMAIN Ladder :
        /\ "none" \notin DOMAIN Ladder[k]
        /\ \A d \in Served : \A o \in Writes(d) :
              /\ o.kind = k /\ o.to \in DOMAIN Ladder[k] /\ "status" \in o.columns =>
                    o.from # AnyStatus /\ \A f \in o.from : Below(Ladder[k], f, o.to)
              /\ o.kind = k /\ o.via = "insert" => o.to \notin DOMAIN Ladder[k]
              /\ k = "service" => o.above \notin DOMAIN Ladder[k]

ASSUME ColumnsAssumption ==
    \A d \in Served : \A o \in Writes(d) :
        o.kind \in ColumnTables => o.via \notin {"save", "restore"}

(* The grants of a role are the one table written by the id of a parent.    *)
ASSUME GrantsAssumption ==
    \A d \in DOMAIN Desks : \A o \in Writes(d) : o.find = "parent" => o.kind = "role grants"

(* A page has rows.                                                        *)
ASSUME PagesAssumption ==
    /\ PageSizes \subseteq Nat
    /\ \A d \in DOMAIN Desks : \A o \in Desks[d] :
           o.via = "read" /\ o.pages # Unpaged => o.pages.default \in Nat \ {0}

(* The gates of the routes to the restricted kinds are closed to employees, *)
(* but for the operations that read nothing and ask for no permission.      *)
Unguarded(op) == op.find = "blind" /\ op.gate = NoGate
ASSUME EmployeesAssumption ==
    /\ {"none", "service"} \cap Restricted = {}
    /\ \A d \in DOMAIN Desks : \A o \in Writes(d) :
          o.kind \in Restricted /\ ~Unguarded(o) => ~RequirePermission("employee", o.gate)
    /\ \A d \in Served : \A o \in Writes(d) : ~Unguarded(o)

(* Departments hang under departments and are deleted by DeleteDepartment   *)
(* alone; a request is edited before it is submitted, approved afterwards.  *)
ASSUME DepartmentsAssumption ==
    \A d \in DOMAIN Desks : \A o \in {p \in Writes(d) : p.kind = "department"} :
        /\ o.find = "own" \/ (o.find = "blind" /\ o.via = "raw" /\ o.columns = {"text"})
        /\ o.via # "restore" /\ ~o.clears /\ o.above = Same
        /\ o.needs \in {"none", "department"}
        /\ o.via = "remove" => o.leaf
ASSUME RequestsAssumption ==
    \A d \in DOMAIN Desks : \A o \in {p \in Writes(d) : p.kind = "request"} :
        /\ o.find # "blind" /\ ~o.clears
        /\ o.via = "insert" => o.to \notin {"pending_approval", "approved"}
        /\ "text" \in o.columns =>
              o.from # AnyStatus /\ o.from \cap {"pending_approval", "approved"} = {}
              /\ o.to # "approved"
        /\ "status" \in o.columns /\ o.to = "approved" =>
              o.from # AnyStatus /\ o.from \subseteq {"pending_approval", "approved"}

VARIABLES desk, row, call, left, walk,
          was,        \* the statuses each row has had
          sent,       \* the text each row had when it was last submitted
          raced       \* the rows on which two calls overlapped

vars == <<desk, row, call, left, walk, was, sent, raced>>

Ids   == 1..MaxRow
NoRow == 0
Timer == [ent |-> "none", role |-> "timer"]
Texts == {"a", "b"}
Other(text) == IF text = "a" THEN "b" ELSE "a"

Absent == [kind |-> "none", life |-> "absent", ent |-> "none", status |-> "none",
           text |-> "a", mark |-> FALSE, under |-> NoRow]

(* Whose a row is that an operation makes.                                 *)
OwnerOf(op, who, parent) ==
    CASE op.find = "shared" -> "platform"
      [] op.find = "parent" -> row[parent].ent
      [] OTHER              -> who.ent

(* What is left of an insert that ended "half": without its second half; or *)
(* "undone": removed again.                                                 *)
NewRow(op, ent, parent, end) ==
    [kind |-> op.kind, life |-> IF end = "undone" THEN "deleted" ELSE "live",
     ent |-> ent, status |-> op.to, text |-> "a",
     mark |-> end = "done" /\ "half" \in op.ends, under |-> parent]

Live(r)   == row[r].life = "live"
Unused    == {r \in Ids : row[r].life = "absent"}
Inserts(op) == op.via = "insert"
Lookup(op)  == op.via = "read"
InFlight  == DOMAIN call     \* the slots of the calls that have read and not written
Others(c) == Restrict(call, InFlight \ {c})
NotWalking == [page |-> 0, size |-> 0, kind |-> "none", ent |-> "none",
               got |-> {}, owed |-> {}, list |-> {}]

Init ==
    /\ desk \in DOMAIN Desks
    /\ \E op \in {o \in Desks[desk] : Inserts(o) /\ o.needs = "none"} :
           row = [r \in Ids |->
                     IF r > 2 THEN Absent
                     ELSE NewRow(op, OwnerOf(op, [ent |-> IF r = 1 THEN "e1" ELSE "e2"], NoRow),
                                 NoRow, "done")]
    /\ call = <<>>
    /\ left = MaxCalls
    /\ walk = NotWalking
    /\ was = [r \in Ids |-> {row[r].status}]
    /\ sent = [r \in Ids |-> "never"]
    /\ raced = {}

-----------------------------------------------------------------------------
(* Tenant and ResolveEnterpriseContext: what the callers' requests carry.   *)
Requests ==
    UNION {{[ent |-> e, role |-> c.role, home |-> c.ent, granted |-> c.granted] :
               e \in Named \cup {c.ent}} : c \in Callers}

(* A request of the enterprises' group carries the caller's own enterprise, *)
(* or the caller is an owner or an operator, or was granted that one.       *)
EnterpriseOwnership(who) ==
    who.ent # "none" /\ (who.ent = who.home \/ who.role \in {"operator", "owner"}
                         \/ who.ent \in who.granted)

\* Defect: the routes are mounted without their middleware.
AnyoneMayCall(op) == Requests

(* The middleware and the handler: the requests that reach an operation.    *)
MayCall(op) ==
    IF op.gate = Scheduled THEN {Timer}
    ELSE {who \in Requests : /\ RequirePermission(who.role, op.gate)
                             /\ op.tenant => who.ent # "none"
                             /\ op.owned => EnterpriseOwnership(who)}

\* Defect: only the row itself is looked up before it is deleted.
Childless(r) == TRUE

NoChildren(r) == \A s \in Ids : row[s].kind = row[r].kind /\ Live(s) => row[s].under # r

\* Defect: the status of the row is not looked at.
AcceptsAny(op, r) == TRUE

(* The status check of a service method, where it has one.                 *)
Accepts(op, r) == op.from # AnyStatus => row[r].status \in op.from

(* The reading half of a service method: the rows it goes on with.  A call  *)
(* that finds no row, or not in a status it accepts, answers an error and   *)
(* changes nothing.                                                         *)
Finds(op, who) ==
    {r \in Ids :
        /\ row[r].kind = op.kind
        /\ CASE op.find = "own"      -> Live(r) /\ row[r].ent = who.ent
             [] op.find = "shared"   -> Live(r)
             [] op.find = "unmarked" -> Live(r) /\ ~row[r].mark
             [] op.find = "blind"    -> TRUE
        /\ Accepts(op, r)
        /\ op.leaf => NoChildren(r)}

(* The parent of a new row: looked up in the request's enterprise, or, when *)
(* the operation only touches it, whatever id the request names.            *)
Parents(op, who) ==
    IF op.needs # "none"
    THEN {p \in Ids : row[p].kind = op.needs /\ Live(p)
                       /\ (op.find = "parent" \/ row[p].ent \in {who.ent, "platform"})}
    ELSE IF op.above # Same THEN {p \in Ids : row[p].life # "absent"} ELSE {NoRow}

Begin(c, op, who, r, parent) ==
    /\ call' = [d \in InFlight \cup {c} |->
                   IF d # c THEN call[d]
                   ELSE [op |-> op, who |-> who, row |-> r, parent |-> parent,
                         seen |-> IF r = NoRow THEN Absent ELSE row[r]]]
    /\ left' = left - 1
    /\ raced' = raced \cup (({r, parent} \ {NoRow}) \cap
                             UNION {{call[d].row, call[d].parent} : d \in InFlight})
    /\ UNCHANGED <<desk, row, walk, was, sent>>

BeginInsert(c, op, who) ==
    /\ Inserts(op)
    /\ \E parent \in Parents(op, who) : Begin(c, op, who, NoRow, parent)

BeginChange(c, op, who) ==
    /\ ~Inserts(op) /\ ~Lookup(op)
    /\ \E r \in Finds(op, who), parent \in Parents(op, who) : Begin(c, op, who, r, parent)

-----------------------------------------------------------------------------
(* The statement an operation ends with.                                   *)

(* The columns an operation names, written over an image of the row.       *)
Changed(image, k) ==
    [image EXCEPT !.text   = IF "text" \in k.op.columns THEN Other(k.seen.text) ELSE @,
                  !.status = IF "status" \in k.op.columns /\ k.op.to # Same THEN k.op.to ELSE @,
                  !.under  = IF "under" \in k.op.columns THEN k.parent ELSE @,
                  !.mark   = @ \/ "mark" \in k.op.columns]

\* Defect: a statement by id alone.
MeetsById(k) == TRUE

(* The condition of an update or delete: the id and, unless the table has   *)
(* none, the enterprise.                                                    *)
Meets(k) == k.op.find \in {"own", "blind"} => row[k.row].ent = k.who.ent

\* Defect: the columns of an update are those of the image that was read.
AlteredWhole(k) ==
    CASE k.op.via \in {"save", "columns", "raw"} -> Changed(k.seen, k)
      [] k.op.via = "restore" -> [row[k.row] EXCEPT !.life = "live"]
      [] k.op.via = "remove"  -> [row[k.row] EXCEPT !.life = "deleted"]

(* gorm's Save writes every column of the image that was read, and inserts  *)
(* it when the update meets no live row: a row deleted meanwhile is live    *)
(* again.  Gorm's other statements leave a deleted row alone.               *)
Altered(k) ==
    IF k.op.via = "save" THEN Changed(k.seen, k)
    ELSE IF ~Meets(k) \/ (k.op.via \notin {"restore", "raw"} /\ ~Live(k.row)) THEN row[k.row]
    ELSE CASE k.op.via = "restore" -> [row[k.row] EXCEPT !.life = "live"]
           [] k.op.via \in {"columns", "raw"} -> Changed(row[k.row], k)
           [] k.op.via = "remove"  -> [row[k.row] EXCEPT !.life = "deleted"]

(* The rows after an insert: the siblings it replaces are gone, the parent  *)
(* has the status it gives it, and the new row has the next id.             *)
Replaced(k, r) ==
    k.op.clears /\ Live(r) /\ row[r].kind = k.op.kind /\ row[r].under = k.parent
    /\ row[r].ent = OwnerOf(k.op, k.who, k.parent)
Raised(k, r) == k.op.above # Same /\ r = k.parent /\ Live(r) /\ row[r].kind = "service"
                /\ row[r].ent = k.who.ent
Added(k, end) ==
    [r \in Ids |->
        CASE Replaced(k, r) -> [row[r] EXCEPT !.life = "deleted"]
          [] Raised(k, r)   -> [row[r] EXCEPT !.status = k.op.above]
          [] r = Min(Unused) /\ end # "cleared"
                -> NewRow(k.op, OwnerOf(k.op, k.who, k.parent), k.parent, end)
          [] OTHER          -> row[r]]

Store(c) ==
    /\ c \in InFlight
    /\ Inserts(call[c].op) => Unused # {}
    /\ \E end \in call[c].op.ends :
           row' = IF Inserts(call[c].op) THEN Added(call[c], end)
                  ELSE [row EXCEPT ![call[c].row] = Altered(call[c])]
    /\ call' = Others(c)
    /\ was' = [r \in Ids |-> IF row'[r].status = row[r].status THEN was[r]
                             ELSE was[r] \cup {row'[r].status}]
    /\ sent' = [r \in Ids |-> IF row'[r].status = "pending_approval"
                                 /\ row[r].status # "pending_approval"
                              THEN row'[r].text ELSE sent[r]]
    /\ UNCHANGED <<desk, left, walk, raced>>

(* The statement fails, or the process dies before it.                     *)
Fail(c) ==
    /\ c \in InFlight
    /\ call' = Others(c)
    /\ UNCHANGED <<desk, row, left, walk, was, sent, raced>>

-----------------------------------------------------------------------------
(* A client reads a paged list, newest first, page after page, until a page *)
(* comes back short; calls that were in flight end between the pages.  It   *)
(* is owed what is listed at first, until a page is cut from a list that    *)
(* lacks a row of the one before.  A lookup that is not paged is one        *)
(* statement and has no step, and a walk that nothing overlaps is left out. *)
Listed(w) == {r \in Ids : Live(r) /\ row[r].kind = w.kind /\ row[r].ent = w.ent}
Newer(r, rows) == Cardinality({s \in rows : s > r})
PageOf(rows, page, size) ==
    {r \in rows : Newer(r, rows) \in ((PageNo(page) - 1) * size)..(PageNo(page) * size - 1)}

StartWalk(op, who, size) ==
    /\ walk.page = 0 /\ InFlight # {} /\ op.pages # Unpaged
    /\ LET w == [page |-> 1, size |-> PageSize(op.pages, size), kind |-> op.kind,
                 ent |-> OwnerOf(op, who, NoRow), got |-> {}, owed |-> {}, list |-> {}]
       IN  walk' = [w EXCEPT !.owed = Listed(w), !.list = Listed(w)]
    /\ UNCHANGED <<desk, row, call, left, was, sent, raced>>

ReadPage ==
    /\ walk.page \in 1..(MaxRow + 1)
    /\ LET page == PageOf(Listed(walk), walk.page, walk.size)
       IN  walk' = [walk EXCEPT
               !.got = @ \cup page,
               !.owed = IF walk.list \subseteq Listed(walk) THEN @ ELSE {},
               !.list = Listed(walk),
               !.page = IF Cardinality(page) < walk.size THEN MaxRow + 2 ELSE @ + 1]
    /\ UNCHANGED <<desk, row, call, left, was, sent, raced>>

Next ==
    \/ /\ left > 0 /\ walk.page = 0 /\ InFlight # Slots
       /\ \E op \in Desks[desk] : \E who \in MayCall(op) :
             LET c == Min(Slots \ InFlight) IN BeginInsert(c, op, who) \/ BeginChange(c, op, who)
    \/ \E c \in Slots : Store(c) \/ Fail(c)
    \/ \E op \in {o \in Desks[desk] : Lookup(o)} :
             \E who \in MayCall(op), size \in PageSizes :
                 who.role \in Readers /\ StartWalk(op, who, size)
    \/ ReadPage

Spec == Init /\ [][Next]_vars

-----------------------------------------------------------------------------
(* Every row is a row of one of the desk's kinds, and no more calls are in  *)
(* flight than were made.                                                   *)
TypeOK ==
    /\ \A r \in Ids :
        /\ row[r].life \in {"absent", "live", "deleted"}
        /\ row[r].life # "absent" => row[r].kind \in {o.kind : o \in Desks[desk]}
        /\ row[r].text \in Texts /\ row[r].under \in Ids \cup {NoRow}
        /\ sent[r] \in Texts \cup {"never"} /\ row[r].status \in was[r]
    /\ left + Cardinality(InFlight) <= MaxCalls
    /\ raced \subseteq Ids

(* Whatever requests for two enterprises interleave, a row is created,      *)
(* changed or deleted only by a request that carries its enterprise or by   *)
(* the timer, and no row changes hands.  The grants of a role are the one   *)
(* exception.  It says nothing of the enterprise the caller belongs to:     *)
(* that is compared with the request's only in the enterprises' group.      *)
TenantsStayApart ==
    [][\A r \in Ids : row'[r] # row[r] /\ row'[r].ent # "platform" =>
          /\ row'[r].ent # "none"
          /\ Live(r) => row'[r].ent = row[r].ent
          /\ \E c \in InFlight :
                /\ c \notin DOMAIN call'
                /\ \/ call[c].who.ent = row'[r].ent
                   \/ call[c].who = Timer
                   \/ row'[r].kind = "role grants"]_vars

(* A department is not deleted under its children, unless the deletion     *)
(* overlaps another call on the two.                                        *)
ParentOutlivesChild ==
    \A r \in Ids : row[r].kind = "department" /\ Live(r) /\ row[r].under # NoRow
                       /\ {r, row[r].under} \cap raced = {} => Live(row[r].under)

(* Whatever the services do, no status is reached without the one that has  *)
(* to come before it, also when two changes of one row overlap.  The desks  *)
(* that pass by the services are left out: a batch change sets any status.  *)
NoStatusSkipped ==
    \A r \in Ids : desk \notin Direct /\ row[r].kind \in DOMAIN Ladder =>
        \A s \in was[r] \cap DOMAIN Ladder[row[r].kind] : Ladder[row[r].kind][s] \in was[r]

(* What is approved is what was submitted: an edit that does not overlap    *)
(* another call of the row cannot come between submission and approval.     *)
ApprovedAsSubmitted ==
    \A r \in Ids \ raced : row[r].kind = "request" /\ row[r].status = "approved"
                               => row[r].text = sent[r]

(* A row whose table the services only write by columns never comes back    *)
(* once one of them has deleted it, whatever was in flight.                 *)
DeletedStaysDeleted ==
    [][\A r \in Ids : desk \notin Direct /\ row[r].kind \in ColumnTables /\ row[r].life = "deleted"
                      => row'[r].life = "deleted"]_vars

(* An employee, who may only read them, changes no contract, customer or    *)
(* master data through any service.  What is left to an employee are the    *)
(* unguarded operations: batch deletion, batch status changes, restoring    *)
(* and custom fields (module BulkDesk).                                     *)
EmployeesOnlyRead ==
    [][\A c \in InFlight : call[c].who.role = "employee" /\ ~Unguarded(call[c].op)
                            /\ c \notin DOMAIN call' =>
          \A r \in Ids : row[r].kind \in Restricted \/ row'[r].kind \in Restricted
                              => row'[r] = row[r]]_vars

(* A client that reads a list to its end has seen every row that was there  *)
(* when it began, however many came to be listed meanwhile, unless a row    *)
(* left the list between two pages, and what follows it moved up.           *)
PageWalkMissesNothing == walk.page > MaxRow + 1 => walk.owed \subseteq walk.got
=============================================================================
