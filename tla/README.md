# TLA+ project for AI-Automated-office

A verification project kept beside the office suite of this repository: a Go HTTP API (`src/api`, ~33k lines without
tests) with PostgreSQL (one schema per tenant) and Redis behind it, and a Go CLI (`src/cli`) that agents use to call
it and that polls it for messages. The modules here model the parts of both whose correctness depends on the order in
which several requests, processes, timers or failures interleave, and the tables (routes, permissions, skills,
operations) on which those parts agree; TLC checks them on small instances and TLAPS proves all but one of the
safety and action properties for all instances.

## 1. Inventory of the system

Requests are goroutines of one or more API processes. What they share is the database and Redis; almost no code path
opens a database transaction (`SkipDefaultTransaction` is set), so **a single SQL statement is the unit of atomicity**
and a handler that runs several statements can be interleaved, or cut off by a failure or a crash, between any two of
them. Most services read a row, decide, and save the whole row.

| Component | State | Operations | What is hard | What makes it correct |
|---|---|---|---|---|
| Redis inventory locks (`pkg/redis/lock.go`) | one key per warehouse and material, ttl 10 s | SETNX retry loop, compare-and-delete release | lost replies, expiry under a slow holder, dying holders, missing Redis | overlap only after expiry, Acquire returns |
| Inventory rows (`inventory_repo_impl.go`) | `warehouse_inventories` | upsert-add, upsert-add with check, upsert | insert and update branches of one statement | no lost update, no oversell of a row |
| Purchase receipts (`order_service.go`, `quality_inspection_service.go`) | orders, items with `received_qty`, inspections | create, receive, receive with inspection, complete inspection, auto receive | stale snapshots, errors ignored half way, items still being inserted | received orders are stocked, records are covered by stock, receiving is idempotent |
| Sales shipments (`order_service.go`) | orders with a status table, items with `shipped_qty` | create, change status, ship | the same, plus shortage | success means moved, goods conserved |
| Transfers, requisitions, stocktaking | transfer orders, requisitions | execute, issue, set | two locks, compensation, ignored errors | goods are on a shelf or accounted for |
| Workflows (`workflow_service.go`) | definitions, instances, approvals | create, approve, reject, transfer, return, resubmit | whole-row read-modify-write races, parallel branches, loops | an instance stands where its history leads, settled decisions stay |
| Exports (`export_service.go`, `export_worker.go`) | tasks, a queue of 100, files | create, execute, download, poll | dropped and duplicate enqueues, crashes of running tasks | a file is named only if complete, dropped tasks come back |
| Record services (contracts, service and repair orders, payment plans and requests, ledgers, customers, master data, organisation, knowledge, templates, settings, backups, operator's desk) | one or two tables each | create, edit, change status, approve, delete, list, in bulk | reading and saving interleave; the request names the enterprise and every service filters by it itself; two tables per operation | tenants stay apart, no status is skipped, deleted stays deleted, approved is what was submitted, pages miss nothing |
| Permissions and routes (`pkg/rbac`, `router`) | static tables | gate of a route | several routes to one table | who may only read changes nothing |
| Billing (`billing_service.go`, `scheduler`) | subscriptions, bills, grace periods | subscribe, create without a period, renew, upgrade, downgrade, refund, grace period | a scheduler writing back old rows over renewals | status fits the period, periods are charged, unpaid service ends |
| Middleware chain (`middleware`, `pkg/tenant`, `pkg/ratelimit`) | connection pool, quota rows, limiter windows, MFA key, undo log | one pass per request | a connection held while a second is asked for; failing SET, panics; check-then-act | free connections are clean, every request is answered, limits hold |
| Tokens (`auth_service.go`, `token_blacklist.go`) | pairs of tokens, Redis blacklist | login, refresh, switch | lookup and Add are two commands | a refresh token is exchanged once |
| Messages (`message_service.go`) | messages, read marks | send, list unread, mark read | rows that arrive out of order | the list is what is unread since |
| CLI (`src/cli`) | `config.yaml`, `tokens.enc`, `messages.cursor` | login, logout, refresh, switch, skill, mark read, poll | processes that share three files without a lock; lost answers; killed processes and writes cut short | nothing is skipped, a refused client lost its token to something, the poller goes on telling |
| Skills (`cli/internal/skill/definitions`) | static table of 238 requests | execute | written apart from the API's routes | every request has a route |
| Device authorization, check sheets, reports, installer, archiving | - | - | not mounted, or no protocol | see section 5 |

Interaction: handlers call one service each; services share repositories. The order service, the quality inspection
service and the inventory service meet in `warehouse_inventories` and in the lock keys; the workflow engine names
documents by id and type but nothing in the code acts on its decisions; schedulers call billing and payment services;
every request passes one middleware chain before its handler; the CLI reaches tokens and messages only through HTTP,
its processes each other only through files.

## 2. Modules

| Module | Models | Kind |
|---|---|---|
| `LockTable` | the keyspace of inventory locks: SETNX, release script, expiry, faults | shared component, one variable |
| `LeaseLock` | what the inventory locks promise | abstract specification |
| `RedisLock` | `DistributedLock.Acquire`/`Release` turn by turn | extends `LockTable`, implements `LeaseLock` |
| `Inventory` | the three SQL statements on `warehouse_inventories` | shared component, two variables |
| `GoodsLedger` | what whoever changes stock promises | abstract specification |
| `PurchaseReceipt` | purchase orders, inspections and the two receipt loops | extends `Inventory`, instantiates `LockTable`, implements `GoodsLedger` |
| `SalesShipment` | sales orders, status changes and the shipment loop | extends `Inventory`, instantiates `LockTable`, implements `GoodsLedger` |
| `StockMovement` | `ExecuteTransfer`, `IssueRequisition`, `InventoryService.Set` | extends `Inventory`, instantiates `LockTable`, implements `GoodsLedger` |
| `Workflow` | `WorkflowEngine`, `WorkflowService` and `BatchApprove` | state machine of its own tables |
| `ExportWorker` | export tasks, the bounded queue, the poller, the worker and downloads | state machine of its own table and files |
| `Permissions`, `Routes` | the permissions of the roles and the three gates; 294 routes with verb, path and gate | tables and operators |
| `Operations` | what an operation on records is: which row it looks up and how, from which status, what it writes and with which statement | vocabulary of the desks |
| `ServiceDesk`, `FinanceDesk`, `RegisterDesk`, `OrganisationDesk`, `OfficeDesk`, `BulkDesk` | some two hundred operations of the record services, by family of tables | sets of operations |
| `Records` | calls of those operations, reading and writing as two steps, and readers of paged lists | state machine over any set of operations |
| `Billing` | subscriptions, bills and the grace-period scheduler | state machine of its own tables |
| `RequestChain` | the middleware of a protected request over the connection pool, with quota, rate limit, MFA and undo record | state machine of one API process |
| `Sessions`, `Inbox` | the server's side of tokens and messages | shared components |
| `Skills` | the requests of all skills and how `executeSkill` fills their paths | table and operators |
| `Client` | the processes of the command line client and their files | extends `Skills`, `Sessions`, `Inbox` |
| `*_proofs` | theorems about the module they extend; `Engines_proofs` about `RedisLock`, `ExportWorker`, `Billing` and `Workflow`; `Inventory_proofs` holds the lemmas about sums the warehouse proofs need | TLAPS |
| `MC*` | constants for TLC | model checking |

### How state and actions correspond to the code

A *request* (`Req`) is one HTTP call in flight: it starts once, takes one step per SQL statement or Redis command, and
ends in `ok`, `failed` (an error after or without effects), `conflict` (a lock was refused), `panic` or `dead`
(process or connection lost). A retry by the user is another request. `pc` names the statement a request runs next;
loop variables and snapshots (`todo`, `snap`, `item`) are what the handler holds in memory. Validation that only
rejects malformed identifiers is left out: the inputs enumerated are well-formed. Money, names, numbers and notes are
left out; quantities are kept.

`RedisLock` shows what one `AcquireInventoryLock` does; the order modules use its outcome: `Granted` (a key set, or no
client to ask), `Refused` (after the last retry), and `ReplyLost` (an attempt set the key, the caller does not know).
A key whose owner lost track of it, by a lost reply or a lost release, holds the value `Orphan`: the
compare-and-delete script of no later caller matches it and only the ttl frees it.

`LockMode` is how the process was started. `redis` is the normal deployment. With `nilclient` a provider exists around
a nil client and every Acquire answers true without a key. `nilprovider` is what `router.go` builds when Redis is
unreachable at start.

`ItemTenantColumn` says whether the item tables have the `enterprise_id` column that the item updates filter on. The
migrations create them without it, the statement fails and the error is ignored; `FALSE` is what is deployed, `TRUE`
what the code was written for. Properties are checked in the setting in which they are harder.

`Faults` names the statements that may fail. A failing update of stock may have been applied before its reply was
lost. The list of items is not among the failing statements of the passing runs: its error is ignored by the code,
which then finishes an order with no items at all; `ReceivedOrdersAreStocked` states this as its hypothesis.

History variables (`moved`, `late`, `carrying`, `lost`) record facts no table keeps and guard nothing. `late` are
items inserted after a receipt or shipment had listed its order, which it cannot know of. `byHand` are the orders
whose status the batch desk wrote last, `doubtful` the items on which two receipts overlapped or of which a record was
lost.

`BatchStatusChange` of `PurchaseReceipt` and `SalesShipment` is the batch desk's `POST /batch/status-change`, whose
adapters for the two order tables `router.go` registers: one `UPDATE` of the status by id, from any status to any word,
with nothing stocked or shipped. `ReceivedMeansStocked` therefore speaks of the orders a receipt marked received. The
handler stores inspection items as pending and nothing changes them (`AddInspectionItem`), so that an inspection with
an item is qualified and one without is not completed; the branch of the service for failed items is out of reach.

`GoodsLedger` is the promise of all who change stock: goods leave a shelf that has them, what left for another shelf is
on the road with one carrier, and lands once, in full, on a shelf of the same material; beside that there are goods
issued for good, deliveries and stocktakings, in quantities the constants allow. `StockMovement` implements it with the
shelf being the location, the carrier the request, and the road the requests that took goods and put them nowhere yet
(`carrying`) or never will (`lost`). `SalesShipment` implements the ledger in which nothing is delivered or counted,
`PurchaseReceipt` the one in which goods are only delivered, neither with a carrier.

`LeaseLock` is the promise of the locks: whoever enters a section is alone there but for callers that have overrun
their lease. `RedisLock` implements it in the mode `redis`, with `inside` the callers between a successful Acquire and
their Release, and `overrun` those of them whose key expired. Keys, values, retries and lost replies do not appear in
the promise. In the mode `nilclient` there is no lease to keep.

`Workflow` keeps an instance as the record its row is, and a call as the copy of that record it read: `Find` makes the
copy, `Decided` is what the operation makes of it, `SaveInstance` writes it back over whatever the row has become, and
`RecordApproval` adds the history row before that (after it for a return). `After` is the order of the statements of
each operation. `approved` abstracts the JSON of `parallel_status` to the branch names marked approved, the only part
the engine reads; history rows carry the branch their call named, which the table does not keep, so that properties
can tell the branches apart. The comparison of a condition may go either way or fail when `BusinessDataLoaded`;
without it, as the router wires the engine, the field never exists. The run sets it, as the tests of the engine do:
that includes the route that is taken without it. Migration 040 creates the three tables without most columns the
model writes (`flow_config`, `parallel_status`, ...), so that in a schema built from the migrations alone every
creation fails; the module takes the tables as `model/workflow.go` declares them. Branch names are taken to be
distinct within a step: of two branches of one name the first to be approved passes both.

`ExportWorker` models the one API process of `deploy/docker-compose.yml`: `queue` is the channel, `handed` and
`polled` what a handler or the poller is about to enqueue, `worker` the statement `ExecuteTask` runs next. A crash
empties these and keeps the rows and the files (`status`, `file`); tasks live in the base schema, to which the router
gives the repository. `UpdateTask` may fail, applied or not; `Generate` and `WriteFile` may fail of themselves
(`saveFailed`). The file of a task has a name made of the ids of enterprise and task, so that a second execution
truncates the first one's file. `Mishap` counts failed statements, lost replies and crashes, `generated` how often a
file was begun. With a second API process on the same database nothing would keep two workers from one task: the
safety properties are about the deployment as it is.

`Records` is one state machine for the services that read a row, decide and write it. An operation is a record of what
distinguishes it: the kind of row, how it is looked up (by enterprise, by id alone, platform wide), the statuses it
starts from and ends in, whether it saves the whole row it read (`save`), writes columns, inserts or deletes, what
else it must find (a parent, no children) and which routes lead to it. The desks list the operations; a call
passes the gate of one of the operation's routes (`Permissions`, `Routes`), reads (`BeginInsert`, `BeginChange`) and
later writes (`Store`) or ends half way (`Fail`). Rows of one desk have distinct creation times, so that a list is a
sequence.

A call is made by a *request*, and the enterprise of a request is not that of its caller. `Tenant` takes it from a
header, the query or the path before the token has been read; only when none is named does `ResolveEnterpriseContext`
fill in the token's. So `Requests` gives every caller `[ent, role, granted]` any enterprise of `Named` beside its own.
`EnterpriseOwnership` compares the two, but only on the routes under `/enterprises/:enterprise_id` (`Owned`).
`TenantsStayApart` is about the services: a request reaches only the rows of the enterprise it carries, whoever sent it.
The grants of a role are written by the id of the role alone (`find |-> "parent"`) and are excepted by name.

A reader of pages (`walk`) is owed the rows of the list as it was at first, until a row leaves the list between two of
its pages: then the others move up and `OFFSET` passes over one, which the code does not promise to avoid.
`raced` are rows on which calls overlapped: the code promises nothing there for parents and edits, and properties that
hold only in turn say so. The fields of a row are one text. Rows are those of a deployment whose tables come from the
models (`AutoMigrate` in the public schema). The desks of `Direct`, one for each table that may be named, hold the
operations that pass by the services: deletion and change of status in bulk, restoring a deleted row, and setting
custom fields, which check no status and whose routes ask for no permission (`Unguarded`), together with the operations
of services that make and edit the same rows. `NoStatusSkipped` and `DeletedStaysDeleted` are about what the services do and leave these
desks out; `EmployeesOnlyRead` holds on them too for every operation that is not unguarded. One writer of rows is not
an operation: `POST /undo/:operation_id` writes back the old fields of a row with the enterprise of the recorded
operation, looks at no caller and asks for no permission (`undo_service.go`); `TenantsStayApart`, `EmployeesOnlyRead`
and `ParentOutlivesChild` say nothing of it.

`Billing` has two ways to a subscription: `Subscribe`, with a period and its charge, and `CreateSubscription` of the
operations service, an active row with neither, which the scheduler passes over until a renewal gives it a period. It keeps `subs` as rows and a call or a pass of the scheduler as the copies it read. A renewal saves the period
and charges it in two statements; a pass lists subscriptions, in no order, and writes each back. Saving ignores
errors, so that a failing save and a successful one look alike to the rest of the call (`refused` are the charges the database refused).
`plan_id` is not among the saved columns: an upgrade charges and leaves the plan.

`RequestChain` follows a protected request through `router.go`'s order of middleware: the tenant connection
(`Tenant`), MFA, the enterprise's context and status, the undo log's copy, quota, rate limit, the handler, the audit
and undo record, `Leave`. A step that makes a statement of its own asks the pool for a second connection while the
request keeps its first (`Statement`); handlers use the first. `pool` counts free connections by search_path. The
status of the enterprise may be anything. `now` is a clock only the limiter reads; `crowded` are enterprises with two
requests at the quota at once, for which the count may get lost.

`Client` gives every process of the CLI the configuration it holds in memory and one thing to do next. Pairs of tokens
are numbered as they are issued (`Sessions`), messages by creation time (`Inbox`: `Insert` is a row becoming visible,
`Stamp` its time being taken, so rows may appear out of order: `late`). Login and switch write `config.yaml` and then
`tokens.enc`; the daemon keeps what it loaded for ever. `rotators`, `mishaps` and `forks` record who exchanged a pair,
whose successor was lost, and which pairs two exchanged at once. `os.WriteFile` truncates before it writes: a write that
fails or whose process is killed leaves the old file or an empty one (`CutShort`). With an empty `config.yaml` (`Blank`)
the client knows no server and only a logout comes to anything; an empty `tokens.enc` fails every command but a login;
an empty `messages.cursor` fails every poll (`spoilt`). What is left out is a reader that meets the file of another
process half written, and `.key`, which is taken as one file with `tokens.enc`.

`Skills` and `Routes` are the two tables of the program that have to agree; a path is a sequence of segments, a filled
segment is "+".

### Order of work

The modules were written in the order of the table: locks and stock first, then workflows and exports, the record
services, billing, the middleware, the client. Every safety and action property of the passing runs is proved except
`EverySkillIsServed`, a fact about two tables. What is left, should the code grow there, is to model the restoring of
a row from the undo log, and device codes once their confirmation is mounted.

## 3. Runs

| Run | Module | Shows |
|---|---|---|
| `lock` | `MCRedisLock` | callers overlap in a section only after a key expired, the keys implement leases, every Acquire returns |
| `receipt` | `MCPurchaseReceipt` | orders a receipt marked received are in stock, records are covered by stock, no key is left behind, a surplus in stock has a cause |
| `sales` | `MCSalesShipment` | success means moved, rows are not oversold, goods are conserved |
| `sales_overship` | `MCSalesShipment` | violation: one order shipped twice |
| `movement` | `MCStockMovement` | the ledger is kept, nothing and no key is left behind, every movement returns |
| `workflow` | `MCWorkflow` | an instance stands only where its history leads, successes are recorded, settled decisions stay |
| `export` | `ExportWorker` | downloads are complete, duplicates do no work, outcomes are final, dropped and lost tasks are picked up |
| `records` | `MCRecords` | on every desk: requests reach only the enterprise they carry, parents outlive children, approvals are of what was submitted, pages miss nothing, employees change nothing they may only read through a service; on the desks of the services: no status is skipped, deleted rows of column-written tables stay deleted |
| `billing` | `Billing` | status, period and grace period agree, periods are charged, lapsed subscriptions that have a period end suspended |
| `cli` | `Client` | the cursor skips nothing, a refresh token has one heir, a refused client lost its token to something, every skill is served, the poller tells unless its cursor file was left empty |
| `requests` | `RequestChain` | no search_path stays in the pool, rate and quota hold, every request is answered |
| `mfa_lockout` | `RequestChain` | violation: the request that renews an MFA verification is refused for lack of it |

Bounds. `lock`: two callers, two keys, three attempts; two callers suffice for an overlap, the second key lets a
caller move on while its first key is orphaned, one retry less or more changes only the length of the loop. `receipt`
and `sales`: one order of two items (two materials in `receipt`; two items of one material, so that they compete for
one location, in `sales`), two requests; the races are between two handlers of one order, and two items are needed for
a loop that stops half way. `movement`: two requests, opposite transfers, one transfer onto its own warehouse and one
requisition at two places of one material; quantities 0 and 1. `workflow`: three calls on one instance, one of which
may be a batch naming it twice, over a flow whose condition leads back to its parallel step and one whose condition
leads nowhere: two calls make a lost update, the third meets its result, and a batch brings one more visit of a step.
`export`: two tasks, a channel of two (the code: 100), polls of one (the code: 10) and two mishaps, so that the
channel is full, a poll leaves a task out, and a second failure hits the recovery from the first. `records`: one desk
at a time, four rows (two exist, of two enterprises), three calls, two in flight, pages of one: two make a race, the
third acts on its result; every operation of every desk meets every other of its desk. An owner, an employee and an
operator without an enterprise send requests that name their own enterprise, the other one or none; the two enterprises
are alike, so that it is enough that the other may be named. `billing`: one subscription, since rows do not
meet, two operators and one pass, three calls, a period and a grace period of one step each and four moments: a lapse,
its grace and what follows fit in. `cli`: a daemon and a shell, two enterprises, two messages and pages of one (the
code: 100), three pairs, three commands and one fault: the third pair is one whose predecessor two processes hold.
`requests`: two slots, three requests, one enterprise, a pool of three (the code: 100), a window of two moments
admitting one, a quota of two and one fault; a pool no larger than the number of slots is excluded, see below. Outside
`export` requests are finite in number, so runs disable the deadlock check: a state in which every request ended is
final. Symmetry (`Callers`) permutes requests and is used only in runs without liveness.

Fairness. `RedisLock`: an attempt whose turn it is is made (`WF` of the two outcomes of a turn: the loop sleeps 200 ms
and tries again, `lock.go:96`), and Redis drops expired keys. `StockMovement`: a started request goes on (`WF` of its steps:
goroutines are scheduled, statements and the bounded lock loop return). Nobody is bound to start a request, to release
a lock, to fail or not to fail; in `StockMovement` keys need not expire. `ExportWorker`: the ticker ticks (`WF` of
`Poll` and `EnqueuePolled`) and the worker goroutine runs (`WF` of `Work`); nobody has to create or download, and
mishaps are bounded in number, since a poll that always failed would pick up nothing. `Billing`: the hourly ticker
fires and a pass goes on (`WF`), and a save tried again and again does not fail each time (`SF` of the pass's
statement: a database that always fails is not one the service works with). `Client`: access tokens expire (`WF` of
`Clock`) and the daemon's loop runs (`WF` of its steps); faults are bounded in number. `RequestChain`: a request that
can go on does (`WF` of its steps: `database/sql` hands a freed connection to a waiter).

### Disagreements found while modelling

Two are the violation runs and in `PROJECT.json` "findings". The others, each with the place in the code and the place
that says otherwise:

- Warehouse. The item updates filter on a column `enterprise_id` the tables of migration 025 lack and their error is
  ignored (`order_repo_impl.go:71`): stock and records part (`ItemTenantColumn` `FALSE`). `AdjustQuantityWithCheck`
  inserts a negative row where none exists (`inventory_repo_impl.go:39`; prd.md:777). `ExecuteTransfer` ignores the
  error of the target's update and completes (`order_service.go:310`; prd.md:1388). A plain receive stocks goods of an
  order under inspection (`order_service.go:134`; FR-IMS-007). Shipping ignores the status of the order
  (`order_service.go:250`; Story 6.5). An issue may exceed the requested quantity and transfers may be negative
  (`order_service.go:255`, `:370`; FR-IMS-022). No path writes the stock flows of FR-IMS-019/020. An error while
  listing items marks the order received or shipped with nothing moved (`order_service.go:134`, `:223`). An API
  started without Redis hands the order service a nil lock provider and panics on the first receive or shipment
  (`router.go:77`, `lock.go:90`; `main.go:95` says "running without redis": `LockMode` `nilprovider`).
- Workflows. Of two parallel branches approved at the same time one is lost (`workflow_repo.go:107`; prd.md:885). A
  condition never sees business data and always takes its `else_step` (`workflow_service.go:52`; Story 7.9 asks for
  the route by amount).
- Exports. A task that was running at a restart stays running (`export_repo_impl.go:160`; prd.md:1351).
- Record services. Bulk deletion, bulk status changes, restoring and custom fields ask for no permission
  (`routes_security.go`, `routes_ops.go`, `routes_infra.go`). A bulk status change reports success for ids that match no
  row; it sets any word, and marks a purchase order received with nothing stocked (`router.go:451`,
  `order_repo_impl.go:294`; the only way there in FR-IMS-007 is a receipt). No migration adds the column
  `custom_fields` that `custom_field_repo.go:82` writes. Inspection items are always stored as pending and never
  changed (`quality_inspection_handler.go:119`), so that no inspection can fail through the API
  (`quality_inspection_service.go:76` has the branch).
- Enterprises of requests. `Tenant` is mounted before authentication (`router.go:53`, `:103`), so its comparison of the
  request's enterprise with the token's (`tenant.go:38`) never runs; `tenant_test.go:130`
  (`TestTenant_DifferentEnterprise_Blocked`) tests it with the token's enterprise already set. `SetRolePermissions`
  writes the grants of any role by its id, with no enterprise (`permission_repo.go:118`, `permission_handler.go:140`).
- Billing. `plan_id` is not saved, so an upgrade charges and changes nothing; `GenerateBill` has no caller, nothing
  marks a record paid, and the count of refunds compares `type IN (NULL)`. A renewal that overlaps a pass of the
  scheduler is undone by the pass's stale row and may be suspended. Suspension of a subscription touches no enterprise
  status (FR-BILL-007, prd.md:1007). A subscription made at `POST /enterprise-subscriptions` has no period
  (`operations_service.go:53`): it is never charged, lapses never and is never suspended (`billing_service.go:377`).
- Middleware. With as many concurrent requests as `max_open_conns` (100, `api/config/config.yaml:19`) each may hold
  its connection and wait for a second one for ever. `app.enterprise_id`, set by `SetEnterpriseContext`, is not reset
  when a connection is given back, and a connection whose `gorm.Open` fails is never given back (`manager.go:123`). The quota is counted before the rate limit and the address are looked at.
- Tokens and CLI. A message can be announced twice, by the daemon and by the hook of a skill, which read the cursor
  before either writes it (`unread_check.go:29` promises the contrary). A refresh gives a pair for the home enterprise
  while the configuration keeps the one switched to; the cursor file is one for all enterprises; `auth status` still
  says logged in after a logout, which never calls the API's; the daemon never loads its configuration again.
  A cursor file left empty by a failed write stops every poll for ever (`unread_check.go:153`, `:167`), an empty
  `tokens.enc` fails every command, logout among them, until the next login (`secure_storage.go:119`), and an empty
  `config.yaml` has lost the server's address (`config.go:122`).

## 4. Theorems

The theorems speak of every value of the constants. What they assume is the named `ASSUME`s of the modules, which TLC
evaluates on the constants of the runs; where nothing else is said these give the constants their types. Where goods
or connections are counted, requests, items and locations are finite sets, and the names of enterprises are none of
the three words that stand for a connection's other states. The inductive invariants that are not lemmas of a proof
alone (`ShipmentInv`, `CopiesAdmitted`, `CauseInv`, ...) stand in the modules beside the properties they support, and
were model-checked before they were proved.

`Engines_proofs` holds four independent sections.

- `RedisLock`, for any keys, callers, retries and faults. `RedisLockTypeOK` is inductive as it stands.
  `UnexpiredHolderOwnsKey` is the inductive invariant behind `MutualExclusionUpToExpiry`: a caller in its section
  whose key did not expire owns the key; release preserves it because the script compares values, and two owners of
  one value are one. `LocksAreLeases` is the refinement of `LeaseLock`: every step of the protocol enters, leaves or
  overruns one lease or changes nothing of it. The step that matters is a successful SETNX: the key was free, so by
  the invariant whoever is still in the section has overrun.
- `ExportWorker`, for any tasks, capacity, poll limit and number of mishaps. `ExportInv` says nothing of the channel,
  the polls and the handlers: the properties hold whatever is enqueued how often, because the worker looks at the
  status first and executes one task at a time. Its parts: a task being executed did not end, and is about to be
  completed only with its file written (`WorkerKnowsTask`); completed tasks have their files (`CompletedHaveFiles`);
  and an execution that is over without ending its task has cost a mishap (`GenerationsPaid`).
  `CompletedTasksHaveFiles`, `FilesAreGeneratedOnce` and `OutcomesAreFinal` follow.
- `Billing`, for any subscriptions, operators, passes, faults and deaths, and any positive lengths of period and grace
  period (`PeriodsAssumption`). A status is written from a copy read long before, so `FitInv` says of rows and copies
  alike that they fit the present moment (`Fitting(now)`); what fits once fits for ever after (`FittingLasts`), every
  operation makes a fitting row of a fitting copy (`RenewedFits`, `ReplannedFits`, `ProcessedFits`), and
  `StatusesFitPeriods` follows. `PaidInv` follows a period from the copy in which it is made to the bill: each period
  in a row or in a copy was charged, refused, or belongs to the call that is about to charge it, and the scheduler
  changes no period (`ProcessedKeepsPeriod`). `PeriodsGetCharged` follows.
- `Workflow`, for any flows, with conditions that lead forward, back or nowhere, any instances, calls, batches, faults
  and deaths. `WorkflowTypeOK` includes that rows and copies stand on a step of their flow. `CopiesAdmitted` says that
  a call holds a copy its operation admits, so a call that can still write a decided instance read it before the
  decision: `DecisionsAreFinal`. `RecordedFirst` (approving and rejecting record before they save) gives
  `SuccessesAreRecorded`. `RoutesAreApproved` is the hardest: rows are overwritten from stale copies, so that an
  instance may go back to where it was. `CopiesOnRoute` says of rows and of all copies in flight that they stand in
  `Reached`, the least set of steps closed under what the history has passed. History only grows and so does
  `Reached`: a stale copy may be behind the history but never beside it.

`PurchaseReceipt_proofs`, for any orders, requests and faults and any finite sets of items and locations.
`ReceiptTypeOK` needs beside `TypeOK` that loop quantities are positive (`HandlesMissing`). `ReceivedOrdersAreStocked`
needs three facts that no property of the runs states: the loop variable is an unfinished item with a positive
quantity; whoever wrote, holds or is about to write a positive `received_qty` knows that the item went into stock in
full once (`CreditMeansStocked`); and each item a receipt listed is still to do or in stock (`LoopCovers`). Its
hypothesis is that listing items does not fail, and orders last marked by the batch desk are not spoken of. `CallsGiveLocksBack` follows from `KeyHasUser`: a key belongs to a
call inside its section, or to a dead one. `RecordsAreStocked` relates a total in the table to what several calls do
at once; `RecordsCovered` counts the calls between stock and record as a set of units under way, and says that both
the row and every snapshot of it plus these units stay within what came in. `OverstockIsExplained` says that receiving
again does not stock again: off the `doubtful` items one request at a time handles an item, has read its record as it
is, and the item is in stock as far as the record says, or in full while the record is being written
(`RecordsAreExact`). It needs neither a guard by the order's status, which the code lacks, nor the lock.
`GoodsAreConserved` sums both sides of the books, whatever finite number of warehouses and items: what stands on the
shelves is what receipts moved. With `RecordsAreStocked` it gives `BooksAreCovered`, a fact about totals: the orders
never record more of a material than was added to the warehouses. `ReceiptsKeepTheLedger` is the refinement of
`GoodsLedger`.

`Inventory_proofs` has what these proofs share about sums over finite sets: the value after one summand was adjusted,
over a union, over two functions of which one is never larger, and what the add statement does to the sum of the
places of a material. The theorems for induction take an operator as parameter, so these lemmas are proved by an
induction over the subsets of a finite set that is itself stated with a set of subsets in place of the operator.

`SalesShipment_proofs`, for any orders, requests, lock modes and faults and any finite sets of items and warehouses.
`SuccessMeansShipped` rests on `ShipmentInv`, which is the receipt's argument with one more part: a change of status
and a shipment end in the same answer, so the step a call is at must tell which it is (`CallsKnowEntry`).
`RowsAreNeverOversold` uses neither locks nor the loop: the condition in the `WHERE` clause of the one statement
suffices. `GoodsAreConserved` is about sums over sets; its step is that a statement takes from one summand what it
adds to another. `ShipmentsKeepTheLedger` refines `GoodsLedger`: a shipment takes what an item lacks off a shelf that
has it, or off one that never had an entry, and never puts anything back.

`StockMovement_proofs`, for any transfers, requisitions and faults and any finite sets of requests and locations.
`CallsKnowDoc` says that a call holds a document of its own kind. `RoadIsCleared` follows from `GoodsFollowCall`:
goods are on the road exactly while their transfer is between its two updates, or for ever after it died there, and a
request loses goods at most once. `MovementsGiveLocksBack` follows from `KeyHasUser` for the two keys of a transfer.
`MovementsKeepTheLedger` is the refinement of `GoodsLedger`: the initial states agree, and each step of the code, with
the failures inside it, is a departure, an arrival, an issue, a count or a stutter of the ledger.
`MovementsConserveGoods` draws the conclusion for totals: of each material, the goods on all shelves and on the road,
the stranded ones among them, become fewer only by what a requisition takes and change otherwise only in a
stocktaking.

`Records_proofs`, for any desks that keep the assumptions of the module, any callers, rows and calls. The assumptions
are facts about the program's tables of operations (which statements a desk uses, which statuses each operation starts
from, which gates are closed to employees and which operations ask for no permission at all), and TLC evaluates them on the operations of
the six desks.
`RecordsInv` is the inductive invariant: rows and calls are well-formed (`RowsOK`, `CallsOK`); two calls on one row
have raced (`PairsRaced`), so that off `raced` a copy is still the row (`Fresh`); a status comes with the one below it
(`LadderKept`, through `Below`: an operation passes no step of the ladder between the status it starts from and the
one it sets); a submitted text is the one sent (`SubmittedAsSent`); and the call about to insert a child still has its
parent, the one about to delete a parent still sees no child (`ParentsOK`). From it follow `RecordsTypeOK`,
`StatusesAreClimbed`, `ApprovalIsOfTheSubmission`, `ChildrenKeepTheirParent`, `TenantsAreApart`, `DeletionIsFinal` and
`EmployeesAreReaders`. `PagesMissNothing` rests on `WalkInv`: what is owed and not yet seen has at least as many newer
rows in the list as the pages read so far contain. New rows only add to them; that a full page takes exactly the next
ones needs that the first i rows of a list are i rows (`PageIsFull`), proved by induction.

`RequestChain_proofs`, for any finite set of requests, any enterprises, limits and faults and a positive quota
(`ChainAssumption`; `quota_service.go` creates rows with 10000 and changes them to positive limits). `PoolInv` is
inductive: a connection is taken from the clean ones and comes back reset, and `FreeConnectionsAreClean` follows.
`QuotaInv` says of an enterprise never crowded that its row is the number of requests counted, and that the one
request between reading and writing has read the row as it is; the lemmas tell the two steps at the quota
(`FindingCounts`, `SavingCounts`) from all others (`OthersCountOn`, `GoingOnCounts`). `QuotaHolds` follows. `ConnInv`
counts the pool: free connections and requests that hold one are together the pool's size, through broken connections,
panics and failing statements. Hence `NoConnectionLeaks` (when every request is idle the pool is whole) and
`StatementsFindConnections`: with fewer requests than connections no statement waits, which is the condition under
which the run `requests` finds every request answered, and whose lack is the deadlock noted above. `RateIsKept` is
about the sequence of moments at which requests passed; `RateInv` says that the last of them are the window's, the
first of these at its start, and that a pass a whole limit before the window's first was a second or more before that
start.

`Client_proofs`, for any processes, daemons, enterprises, messages, commands and faults. The many steps of a process
are first sorted into kinds by what they change (`StepKinds`); most only go on from one place to another with the
tokens they have (`GoesOn`), and each invariant needs an argument for the few others. A write cut short touches one file
and gives nobody a token (`FilesSpared`). `ClientTypeOK` includes that
nobody holds, and the disk does not contain, a pair that was not issued. `HeirInv` (an exchanged pair is revoked, or
two had it between lookup and `Add`) gives `OneHeir`. `CauseInv` gives `RefusalsHaveCauses`: who exchanged a pair
alone and without mishap does not hold it any more and finds it on the disk only until the successor is saved, and
until then nobody else knows the successor. `CursorInv` gives `CursorIsBacked`: the cursor file and the cursors held
in memory or about to be written are all backed (`Backed`) by what was announced, and what is backed stays so.

Some attempts failed first, and changed the modules. `PageWalkMissesNothing` used to excuse only deletions that came
after a row had been shown; with more calls in flight than the run allows, a row that is shown and then deleted moves
the rest up and one is missed: the property now excuses every list a row leaves, and the run agrees with any number of
slots. The guards of a `CASE` in `Records` (`Altered`) and of one in `Client` (`Ended`) overlapped, so that their
value was `CHOOSE`n; they are exclusive now. `TypeOK` of `Client` lacked that a process saving a cursor has messages
to take it from.

Only model-checked. Liveness is out of the prover's reach: `AcquireReturns`, `MovementsReturn`, `PickedUpByPoller`,
`LapsedIsSuspended`, `PollerTells`, `RequestsAnswered`. `EverySkillIsServed` compares two concrete tables; TLC
evaluates it completely, there being no constant in it to generalise, and the provers do not compute the names of
parameters, which are concatenated. `GoodsConserved` and `LedgerKept` of `PurchaseReceipt`, `LedgerKept` of
`SalesShipment`, `GoodsConserved` of `StockMovement` and the theorems about the pool were checked on the instances of
the runs before they were proved, and are not properties of a run. The two violation runs have traces, not proofs.

## 5. Not modelled

- Device authorization: the handler that confirms a code (`VerifyDeviceCode`) is not mounted, so no code is ever
  confirmed and no token handed out.
- Stocktaking check sheets: the service is not mounted, and nothing reads a sheet to change stock.
- Reports, summaries, pricing: they read and compute. Archiving, retention, debug stubs, health: single statements.
- The installer and the console of the CLI, deploying skill texts to agents: file I/O of one process.
- Creating and migrating a tenant's schema, dumping and restoring a backup, calls of models, embedding, rendering and
  object storage: scripts and external services.
- In the middleware: CORS, logging, tracing, the ownership and source checks (stateless), public routes, the address
  window of the limiter, resets and changes of quotas, the list of MFA backup codes.
- Restoring a row from the undo log; unread counters in Redis (never wired for a tenant's database); messages of one
  and the same creation time; the removal of `.key` apart from `tokens.enc`.
- The evaluation of attribute policies and the masking of fields: pure functions of one row.
- Amounts of money, wording, formats and decoding of bodies throughout.
