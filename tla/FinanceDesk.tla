---------------------------- MODULE FinanceDesk ----------------------------
(***************************************************************************)
(* Payment requests, payment plans with their hourly reminder, and the     *)
(* ledger tables of finance: payments, expenses, invoices, receivables,    *)
(* payables and collections.                                               *)
(***************************************************************************)
EXTENDS Operations

-----------------------------------------------------------------------------
(* Payment requests.                                                       *)

PaymentRequestRepo ==
    [kind |-> "request", FindByID |-> "own", Create |-> "insert", Save |-> "save",
     UpdateFields |-> "columns", Delete |-> "remove", List |-> PagedList(20, 100)]

PaymentRequestDrafts ==
    [Create            |-> Insert(PaymentRequestRepo, "draft"),
     Update            |-> Edit(PaymentRequestRepo, "UpdateFields", {"draft", "rejected"}),
     Delete            |-> Remove(PaymentRequestRepo, "Delete", {"draft"})]
    @@ Reads(PaymentRequestRepo, {"Get"}) @@ Lists(PaymentRequestRepo, {"List"})
PaymentRequestDecisions ==
    [SubmitForApproval |-> Move(PaymentRequestRepo, "Save", {"draft", "rejected"},
                                "pending_approval"),
     Approve           |-> Decide(PaymentRequestRepo, "Save", {"pending_approval"}, "approved"),
     Reject            |-> Decide(PaymentRequestRepo, "Save", {"pending_approval"}, "rejected")]

PaymentRequestHandler == Guarded(PaymentRequestDrafts @@ PaymentRequestDecisions)

-----------------------------------------------------------------------------
(* Payment plans.  The reminder reads the pending plans that are due and   *)
(* not reminded, of every enterprise, and writes each by its id: the flag, *)
(* and after seven days the status too.                                    *)

PaymentPlanStatus == {"pending", "paid", "overdue", "reminded"}

PaymentPlanRepo ==
    [kind |-> "plan", FindByID |-> "own", Create |-> "insert", UpdateFields |-> "columns",
     UpdatePlanFields |-> "columns", Delete |-> "remove"]

PaymentPlanService ==
    [CreatePlans |-> Insert(PaymentPlanRepo, "pending"),
     UpdatePlan  |-> Rewrite(PaymentPlanRepo, "UpdateFields", PaymentPlanStatus),
     DeletePlan  |-> Remove(PaymentPlanRepo, "Delete", AnyStatus)]
    @@ Reads(PaymentPlanRepo, {"ListPlans", "ListOverdue"})

CheckAndRemindOverdue ==
    {[o EXCEPT !.find = "unmarked", !.gate = Scheduled, !.from = {"pending"}] :
        o \in Decide(PaymentPlanRepo, "UpdatePlanFields", AnyStatus, "overdue")
              \cup {[p EXCEPT !.columns = {"mark"}] :
                       p \in Decide(PaymentPlanRepo, "UpdatePlanFields", AnyStatus, Same)}}

PaymentPlanHandler == Guarded(PaymentPlanService)

-----------------------------------------------------------------------------
(* The ledger tables.  Only an expense is ever written again.              *)

FinanceRepo(kind) ==
    [kind |-> kind, FindByID |-> "own", Create |-> "insert", List |-> PagedList(20, 100)]
ExpenseRepo == FinanceRepo("expense") @@ [UpdateExpense |-> "save"]
CollectionRepo == FinanceRepo("collection")

PaymentsAndExpenses ==
    [CreatePayment    |-> Insert(FinanceRepo("payment"), "completed"),
     CreateExpense    |-> Insert(ExpenseRepo, "pending"),
     ApproveExpense   |-> Move(ExpenseRepo, "UpdateExpense", AnyStatus, "approved")]
    @@ Lists(FinanceRepo("payment"), {"ListPayments"}) @@ Lists(ExpenseRepo, {"ListExpenses"})
InvoicesAndDebts ==
    [CreateInvoice    |-> Insert(FinanceRepo("invoice"), "draft"),
     CreateReceivable |-> Insert(FinanceRepo("receivable"), "draft"),
     CreatePayable    |-> Insert(FinanceRepo("payable"), "draft")]
    @@ Lists(FinanceRepo("invoice"), {"ListInvoices"})
    @@ Lists(FinanceRepo("receivable"), {"ListReceivables"})
    @@ Lists(FinanceRepo("payable"), {"ListPayables"})
CollectionService ==
    [CreateCollection |-> Insert(CollectionRepo, "stored")]
    @@ Reads(CollectionRepo, {"GetCollection"}) @@ Lists(CollectionRepo, {"ListCollections"})

PaymentHandler    == Guarded(PaymentsAndExpenses)
InvoiceHandler    == Guarded(InvoicesAndDebts)
CollectionHandler == Guarded(CollectionService)

-----------------------------------------------------------------------------
RequestDesk == Reached(PaymentRequestHandler, FinanceRoutes)
PlanDesk    == Reached(PaymentPlanHandler, FinanceRoutes) \cup CheckAndRemindOverdue
LedgerDesk  == Reached(PaymentHandler @@ CollectionHandler, FinanceRoutes)
DebtDesk    == Reached(InvoiceHandler, FinanceRoutes)
=============================================================================
