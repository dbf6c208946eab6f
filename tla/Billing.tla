------------------------------ MODULE Billing ------------------------------
(***************************************************************************)
(* Subscriptions, the billing records made for them, and the scheduler that *)
(* moves a subscription whose period has ended through past_due to          *)
(* suspended.  Every operation reads a subscription and later writes back   *)
(* the columns it read (SaveSubscription), so that operators and schedulers *)
(* overwrite one another.  Time counts in units short of the grace period;  *)
(* amounts are left out, but for their sign.  A subscription that was not   *)
(* made by Subscribe has no period until it is renewed.                     *)
(***************************************************************************)
EXTENDS Integers, SequencesExt

CONSTANTS
    Operators,    \* requests in flight at one time
    Schedulers,   \* API processes, each running its own scheduler
    Plans,        \* subscription plans, as their prices
    Cycles,       \* billing cycles asked for
    Month, Year, Grace,
    Horizon,      \* bound: the last moment of the model
    MaxCalls,     \* bound: requests made
    MaxSubscriptions  \* bound: subscriptions made

ASSUME PeriodsAssumption ==
    /\ Month \in Nat \ {0} /\ Year \in Nat \ {0} /\ Grace \in Nat \ {0}
    /\ Cycles \subseteq {"monthly", "yearly"} /\ Plans \subseteq Nat
    /\ Horizon \in Nat /\ MaxCalls \in Nat /\ MaxSubscriptions \in Nat

VARIABLES
    now,
    subs,      \* enterprise_subscriptions, in order of creation
    bills,     \* billing_records, in order of creation
    calls,     \* the call each operator is in
    passes,    \* the rows each scheduler has listed and not yet looked at
    made,      \* number of calls made
    refused    \* charges whose insertion failed, by subscription and period

billingVars == <<now, subs, bills, calls, passes, made, refused>>

None == -1
Idle == [at |-> "idle"]
Rows == DOMAIN subs

BillingInit ==
    /\ now = 0 /\ subs = <<>> /\ bills = <<>> /\ made = 0 /\ refused = {}
    /\ calls = [o \in Operators |-> Idle]
    /\ passes = [k \in Schedulers |-> <<>>]

-----------------------------------------------------------------------------
Length(cycle) == IF cycle = "yearly" THEN Year ELSE Month

(* A snapshot is written back over every column but the plan.               *)
\* Defect: a column without a value is not written.
SaveNonZero(s, row) ==
    subs' = [subs EXCEPT ![s] = [row EXCEPT !.plan = subs[s].plan,
                                   !.grace = IF @ = None THEN subs[s].grace ELSE @]]
SaveSubscription(s, row) == subs' = [subs EXCEPT ![s] = [row EXCEPT !.plan = subs[s].plan]]

Bill(s, type, from, to) ==
    [sub |-> s, type |-> type, status |-> "pending", from |-> from, to |-> to]
CreateBillingRecord(bill) == bills' = Append(bills, bill)

(* A request begins with what it has read, and ends.                        *)
Begin(o, call) ==
    /\ calls[o] = Idle /\ made < MaxCalls
    /\ made' = made + 1
    /\ calls' = [calls EXCEPT ![o] = call]
Ends(o) == calls' = [calls EXCEPT ![o] = Idle]
Goes(o, at) == calls' = [calls EXCEPT ![o].at = at]
At(o, at) == calls[o].at = at

-----------------------------------------------------------------------------
(* Subscribe inserts an active subscription, whatever the enterprise has    *)
(* already, and then the charge of its first period.                        *)
Subscribe(o, plan, cycle) ==
    LET row == [plan |-> plan, cycle |-> cycle, status |-> "active",
                from |-> now, to |-> now + Length(cycle), grace |-> None]
    IN  /\ Len(subs) < MaxSubscriptions
        /\ subs' = Append(subs, row)
        /\ Begin(o, [at |-> "charge", sub |-> Len(subs) + 1, row |-> row])
        /\ UNCHANGED <<now, bills, passes, refused>>

(* CreateSubscription of the operations service inserts an active row with  *)
(* neither a period nor a charge.                                           *)
HasPeriod(row) == row.to # None

CreateSubscription(o, plan) ==
    /\ calls[o] = Idle /\ made < MaxCalls /\ Len(subs) < MaxSubscriptions
    /\ made' = made + 1
    /\ subs' = Append(subs, [plan |-> plan, cycle |-> "monthly", status |-> "active",
                             from |-> None, to |-> None, grace |-> None])
    /\ UNCHANGED <<now, bills, calls, passes, refused>>

(* RenewSubscription moves the period on from where it ended, or from now   *)
(* if there is none, whatever the status, and then inserts the charge; a    *)
(* failed save goes unnoticed.                                              *)
Renewed(row) ==
    LET start == IF HasPeriod(row) THEN row.to ELSE now
    IN  [row EXCEPT !.from = start, !.to = start + Length(row.cycle),
                    !.status = "active", !.grace = None]

StartRenew(o, s) ==
    /\ Begin(o, [at |-> "renew", sub |-> s, row |-> subs[s]])
    /\ UNCHANGED <<now, subs, bills, passes, refused>>

SaveRenewed(o) ==
    LET row == Renewed(calls[o].row)
    IN  /\ At(o, "renew")
        /\ SaveSubscription(calls[o].sub, row) \/ UNCHANGED subs
        /\ calls' = [calls EXCEPT ![o].at = "charge", ![o].row = row]
        /\ UNCHANGED <<now, bills, passes, made, refused>>

(* The charge for the period of the row this call has made or renewed.      *)
\* Defect: the charge is for the period before.
ChargesPeriodBefore(o) ==
    CreateBillingRecord(Bill(calls[o].sub, "charge",
        calls[o].row.from - Length(calls[o].row.cycle), calls[o].row.from))
ChargesPeriod(o) ==
    CreateBillingRecord(Bill(calls[o].sub, "charge", calls[o].row.from, calls[o].row.to))

Charge(o) ==
    /\ At(o, "charge")
    /\ Ends(o)
    /\ \/ ChargesPeriod(o) /\ UNCHANGED refused
       \/ /\ refused' = refused \cup {<<calls[o].sub, calls[o].row.from>>}
          /\ UNCHANGED bills
    /\ UNCHANGED <<now, subs, passes, made>>

(* UpgradePlan and DowngradePlan insert a record for the rest of the period *)
(* and save the snapshot with the new plan, a column that is not saved.     *)
StartChange(o, s, plan, op) ==
    /\ Begin(o, [at |-> op, sub |-> s, row |-> subs[s], new |-> plan])
    /\ UNCHANGED <<now, subs, bills, passes, refused>>

(* The sign of (new price - old price) * days left / days of the period, or *)
(* of the difference of the prices if there is no period.                   *)
CalculateProration(row, plan) ==
    IF (HasPeriod(row) /\ now >= row.to) \/ plan = row.plan THEN 0
    ELSE IF plan > row.plan THEN 1 ELSE -1

ChangeType(call) ==
    IF call.at = "upgrade" THEN "upgrade_charge"
    ELSE IF CalculateProration(call.row, call.new) > 0 THEN "downgrade_charge"
    ELSE "downgrade_credit"

ChargeChange(o) ==
    /\ calls[o].at \in {"upgrade", "downgrade"}
    /\ \/ /\ CreateBillingRecord(Bill(calls[o].sub, ChangeType(calls[o]), now, None))
          /\ Goes(o, "change")
       \/ UNCHANGED bills /\ Ends(o)
    /\ UNCHANGED <<now, subs, passes, made, refused>>

SaveChange(o) ==
    /\ At(o, "change")
    /\ SaveSubscription(calls[o].sub, calls[o].row) \/ UNCHANGED subs
    /\ Ends(o)
    /\ UNCHANGED <<now, bills, passes, made, refused>>

(* Refund reads a billing record and marks it, whatever its status.         *)
StartRefund(o, b) ==
    /\ Begin(o, [at |-> "refund", bill |-> b])
    /\ UNCHANGED <<now, subs, bills, passes, refused>>

SaveRefund(o) ==
    /\ At(o, "refund")
    /\ bills' = [bills EXCEPT ![calls[o].bill].status = "refunded"] \/ UNCHANGED bills
    /\ Ends(o)
    /\ UNCHANGED <<now, subs, passes, made, refused>>

-----------------------------------------------------------------------------
(* ProcessGracePeriod reads every active and past_due subscription, in no   *)
(* order, and goes through what it has read.                                *)
\* Defect: subscriptions that are past due are not looked at again.
ListsActive(s) == subs[s].status = "active"
Lists(s) == subs[s].status \in {"active", "past_due"}

FindActiveOrPastDue(k) ==
    /\ passes[k] = <<>>
    /\ \E listed \in SetToSeqs({s \in Rows : Lists(s)}) :
        /\ listed # <<>>
        /\ passes' = [passes EXCEPT ![k] =
               [i \in DOMAIN listed |-> [sub |-> listed[i], row |-> subs[listed[i]]]]]
    /\ UNCHANGED <<now, subs, bills, calls, made, refused>>

Due(row) == now > row.to /\ row.status = "active"
Lapsed(row) == row.grace # None /\ row.status = "past_due" /\ now > row.grace

(* A subscription without a period is passed over.                         *)
Processed(row) ==
    IF ~HasPeriod(row) THEN row
    ELSE IF Due(row) THEN [row EXCEPT !.status = "past_due", !.grace = row.to + Grace]
    ELSE IF Lapsed(row) THEN [row EXCEPT !.status = "suspended"]
    ELSE row

Passed(k) ==
    /\ passes[k] # <<>>
    /\ passes' = [passes EXCEPT ![k] = Tail(@)]
    /\ UNCHANGED <<now, bills, calls, made, refused>>

ProcessGracePeriod(k) ==
    /\ Passed(k)
    /\ LET head == Head(passes[k])
       IN  IF Processed(head.row) = head.row THEN UNCHANGED subs
           ELSE SaveSubscription(head.sub, Processed(head.row))

(* The error of a save is ignored; the next pass meets the row again.       *)
SaveFails(k) == Passed(k) /\ UNCHANGED subs

-----------------------------------------------------------------------------
(* A process dies between two statements, with its scheduler's pass or with *)
(* the request it serves.                                                   *)
PassDies(k) ==
    /\ passes[k] # <<>>
    /\ passes' = [passes EXCEPT ![k] = <<>>]
    /\ UNCHANGED <<now, subs, bills, calls, made, refused>>
CallDies(o) ==
    /\ calls[o] # Idle
    /\ refused' = IF At(o, "charge") THEN refused \cup {<<calls[o].sub, calls[o].row.from>>}
                  ELSE refused
    /\ Ends(o)
    /\ UNCHANGED <<now, subs, bills, passes, made>>

TimePasses == now < Horizon /\ now' = now + 1 /\ UNCHANGED <<subs, bills, calls, passes, made, refused>>

BillingNext ==
    \/ TimePasses
    \/ \E o \in Operators :
        \/ \E plan \in Plans, cycle \in Cycles : Subscribe(o, plan, cycle)
        \/ \E plan \in Plans : CreateSubscription(o, plan)
        \/ \E s \in Rows : StartRenew(o, s)
        \/ \E s \in Rows, plan \in Plans, op \in {"upgrade", "downgrade"} :
               StartChange(o, s, plan, op)
        \/ \E b \in DOMAIN bills : StartRefund(o, b)
        \/ SaveRenewed(o) \/ Charge(o) \/ ChargeChange(o) \/ SaveChange(o) \/ SaveRefund(o)
        \/ CallDies(o)
    \/ \E k \in Schedulers :
        FindActiveOrPastDue(k) \/ ProcessGracePeriod(k) \/ SaveFails(k) \/ PassDies(k)

(* The ticker fires every hour for as long as the process runs, and a       *)
(* database that keeps failing is not one the service works with.           *)
BillingFairness ==
    \A k \in Schedulers :
        /\ WF_billingVars(FindActiveOrPastDue(k)) /\ WF_billingVars(ProcessGracePeriod(k) \/ SaveFails(k))
        /\ \A s \in 1..MaxSubscriptions :
               SF_billingVars(passes[k] # <<>> /\ Head(passes[k]).sub = s /\ ProcessGracePeriod(k))

BillingSpec == BillingInit /\ [][BillingNext]_billingVars /\ BillingFairness

-----------------------------------------------------------------------------
(* A subscription is past due, or suspended, only on account of the period  *)
(* it stands in: although schedulers, renewals and plan changes write old   *)
(* rows over new ones, status, period and grace period agree.               *)
StatusFitsPeriod ==
    \A s \in Rows : LET row == subs[s] IN
        /\ row.status = "active" => row.grace = None
        /\ row.status \in {"past_due", "suspended"} =>
               HasPeriod(row) /\ row.grace = row.to + Grace /\ now > row.to
        /\ row.status = "suspended" => now > row.grace

(* The period a subscription stands in has been charged, unless the call    *)
(* that was to charge it is still running or was refused by the database.   *)
PeriodsAreCharged ==
    \A s \in Rows :
        \/ ~HasPeriod(subs[s])
        \/ \E b \in DOMAIN bills :
               /\ bills[b].sub = s /\ bills[b].type = "charge"
               /\ bills[b].from = subs[s].from /\ bills[b].to = subs[s].to
        \/ <<s, subs[s].from>> \in refused
        \/ \E o \in Operators : At(o, "charge") /\ calls[o].sub = s

(* A subscription nobody renews is suspended once its grace period is over, *)
(* however many passes fail or die, if it has a period: one that has none   *)
(* is active for ever.                                                      *)
Overdue(s) == s \in Rows /\ HasPeriod(subs[s]) /\ now > subs[s].to + Grace
LapsedIsSuspended ==
    \A s \in 1..MaxSubscriptions :
        Overdue(s) ~> (Overdue(s) => subs[s].status = "suspended")
=============================================================================
