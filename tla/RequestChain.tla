----------------------------- MODULE RequestChain -----------------------------
(***************************************************************************)
(* The chain of middleware a request passes before its handler, and what    *)
(* the requests of one API process share: the pool of database connections, *)
(* of which a request of an enterprise keeps one with its search_path set   *)
(* while every other statement of the chain takes a second one; the quota   *)
(* row of an enterprise; the rate limiter's windows; and the MFA            *)
(* configuration of the user.  What the handlers do is in other modules.    *)
(***************************************************************************)
EXTENDS Integers, Sequences, FiniteSets

CONSTANTS
    Requests,      \* requests in flight at one time
    PoolSize,      \* max_open_conns
    Enterprises,
    Kinds,         \* requests asked for: reads, writes of a row, and those to /mfa
    RateLimit,     \* requests of one enterprise in one window
    QuotaLimit,    \* DailyLimit
    Second,        \* length of a window, in steps of the clock
    Horizon,       \* bound: the last moment
    MaxRequests,   \* bound: requests made
    MaxFaults      \* bound: failed statements, broken connections, panics

ASSUME ChainAssumption ==
    /\ Kinds \subseteq {"read", "write", "enable", "verify", "disable"}
    /\ PoolSize \in Nat /\ RateLimit \in Nat \ {0} /\ QuotaLimit \in Nat \ {0}
    /\ Second \in Nat \ {0} /\ Horizon \in Nat
    /\ IsFiniteSet(Requests) /\ Enterprises \cap {"none", "public", "broken"} = {}

VARIABLES
    pool,       \* free connections, by their search_path
    req,        \* the request in each slot, with the connection it holds
    quota,      \* daily_used of each enterprise; Absent: no row yet
    window,     \* the limiter's windows
    mfa,        \* the mfa_configs row of the user
    key,        \* whether mfa:verified:<user> is in Redis
    now, made, faults,
    passed,     \* moments at which the limiter let requests of an enterprise through
    counted,    \* requests the quota let through
    crowded     \* enterprises of which two requests were at the quota at once

vars == <<pool, req, quota, window, mfa, key, now, made, faults, passed, counted, crowded>>
shared == <<quota, window, mfa, key, now, made, passed, counted, crowded>>

None == "none"
Absent == -1
Paths == Enterprises \cup {"public"}
Idle == [at |-> "idle", kind |-> None, ent |-> None, conn |-> None, seen |-> Absent, answer |-> None]
NoWindow == [count |-> 0, start |-> -Second]

Init ==
    /\ pool = [path \in Paths |-> IF path = "public" THEN PoolSize ELSE 0]
    /\ req = [r \in Requests |-> Idle]
    /\ quota = [e \in Enterprises |-> Absent]
    /\ window = [e \in Enterprises |-> NoWindow]
    /\ mfa = "none" /\ key = FALSE
    /\ now = 0 /\ made = 0 /\ faults = 0
    /\ passed = [e \in Enterprises |-> <<>>]
    /\ counted = [e \in Enterprises |-> 0] /\ crowded = {}

-----------------------------------------------------------------------------
At(r, at) == req[r].at = at
Becomes(r, new) == req' = [req EXCEPT ![r] = new]
GoTo(r, at) == Becomes(r, [req[r] EXCEPT !.at = at])
Answer(r, answer) == Becomes(r, [req[r] EXCEPT !.at = "leave", !.answer = answer])

NoFault == UNCHANGED faults
Fault == faults < MaxFaults /\ faults' = faults + 1

(* A statement outside the request's own connection waits for a free one.   *)
FreePaths == {path \in Paths : pool[path] > 0}
Statement(r, at) == At(r, at) /\ FreePaths # {}

(* A request carries an enterprise in its header, or only in its token.     *)
Arrive(r, kind, ent) ==
    /\ At(r, "idle") /\ made < MaxRequests
    /\ made' = made + 1
    /\ \E at \in {"pin", "token"} :
          Becomes(r, [Idle EXCEPT !.at = at, !.kind = kind, !.ent = ent])
    /\ UNCHANGED <<pool, quota, window, mfa, key, now, faults, passed, counted, crowded>>

(* UseSchema, called by Tenant before authentication and by                 *)
(* ResolveEnterpriseContext after it.  A failing SET is only logged: the    *)
(* connection it failed on is broken.                                       *)
UseSchema(r, next) ==
    /\ \E path \in FreePaths : pool' = [pool EXCEPT ![path] = @ - 1]
    /\ \/ NoFault /\ Becomes(r, [req[r] EXCEPT !.at = next, !.conn = req[r].ent])
       \/ Fault /\ Becomes(r, [req[r] EXCEPT !.at = next, !.conn = "broken"])
    /\ UNCHANGED shared

Tenant(r) == At(r, "pin") /\ UseSchema(r, "token")

(* AuthRequired, for a token that is valid.  checkMFARequired is a          *)
(* statement whose failure means no.                                        *)
CheckMFARequired(r) ==
    /\ Statement(r, "token")
    /\ \/ NoFault /\ GoTo(r, IF mfa = "verified" THEN "mfa" ELSE "resolve")
       \/ Fault /\ GoTo(r, "resolve")
    /\ UNCHANGED <<pool, shared>>

IsMFAVerified(r) ==
    /\ At(r, "mfa")
    /\ \/ NoFault /\ (IF key THEN GoTo(r, "resolve") ELSE Answer(r, "AUTH_MFA_REQUIRED"))
       \/ Fault /\ Answer(r, "error")
    /\ UNCHANGED <<pool, shared>>

ResolveEnterpriseContext(r) ==
    /\ At(r, "resolve")
    /\ IF req[r].conn # None THEN GoTo(r, "status") /\ UNCHANGED <<pool, faults, shared>>
       ELSE UseSchema(r, "status")

(* EnterpriseStatusMiddleware, in whose place the enterprise may be any     *)
(* status; one that cannot be looked up passes.                             *)
EnterpriseStatus(r) ==
    /\ Statement(r, "status")
    /\ LET next == IF req[r].kind = "write" THEN "before" ELSE "quota" IN
       \/ NoFault /\ (GoTo(r, next) \/ Answer(r, "ENTERPRISE_SUSPENDED"))
       \/ Fault /\ GoTo(r, next)
    /\ UNCHANGED <<pool, shared>>

(* AuditMiddleware, before the handler: the row an undo would restore.      *)
CaptureBeforeState(r) ==
    /\ Statement(r, "before")
    /\ \/ NoFault
       \/ Fault
    /\ GoTo(r, "quota")
    /\ UNCHANGED <<pool, shared>>

(* CheckAndIncrement reads the row and checks it ...                        *)
\* Defect: the limit itself may be passed.
WithinOrAtQuota(used) == used <= QuotaLimit
WithinQuota(used) == used < QuotaLimit
AtQuota(e) == {r \in Requests : At(r, "count") /\ req[r].ent = e}

FindQuota(r) ==
    /\ Statement(r, "quota")
    /\ LET e == req[r].ent IN
       \/ /\ NoFault
          /\ IF WithinQuota(quota[e]) THEN Becomes(r, [req[r] EXCEPT !.at = "count", !.seen = quota[e]])
             ELSE Answer(r, "QUOTA_EXCEEDED")
          /\ crowded' = IF AtQuota(e) # {} THEN crowded \cup {e} ELSE crowded
       \/ Fault /\ Answer(r, "error") /\ UNCHANGED crowded
    /\ UNCHANGED <<pool, quota, window, mfa, key, now, made, passed, counted>>

(* ... and writes back what it read, incremented.                           *)
SaveQuota(r) ==
    /\ Statement(r, "count")
    /\ LET e == req[r].ent IN
       \/ /\ NoFault
          /\ quota' = [quota EXCEPT ![e] = IF req[r].seen = Absent THEN 1 ELSE req[r].seen + 1]
          /\ counted' = [counted EXCEPT ![e] = @ + 1]
          /\ Becomes(r, [req[r] EXCEPT !.at = "rate", !.seen = Absent])
       \/ Fault /\ Answer(r, "error") /\ UNCHANGED <<quota, counted>>
    /\ UNCHANGED <<pool, window, mfa, key, now, made, passed, crowded>>

(* AllowN, in one critical section.                                         *)
\* Defect: a new window keeps the beginning of the old one.
CurrentFromStart(w) == IF now - w.start >= Second THEN [w EXCEPT !.count = 0] ELSE w
Current(w) == IF now - w.start >= Second THEN [count |-> 0, start |-> now] ELSE w

Allow(r) ==
    /\ At(r, "rate")
    /\ LET e == req[r].ent   w == Current(window[e]) IN
       IF w.count < RateLimit
       THEN /\ window' = [window EXCEPT ![e] = [w EXCEPT !.count = @ + 1]]
            /\ passed' = [passed EXCEPT ![e] = Append(@, now)]
            /\ GoTo(r, "handle")
       ELSE /\ window' = [window EXCEPT ![e] = w]
            /\ Answer(r, "RATE_LIMITED") /\ UNCHANGED passed
    /\ UNCHANGED <<pool, quota, mfa, key, now, made, faults, counted, crowded>>

-----------------------------------------------------------------------------
(* The handler; reads and writes use the request's own connection.          *)
(* EnableMFA writes an unverified configuration; VerifyMFA, given a right   *)
(* code, makes it verified - but not for a backup code, nor if its update   *)
(* fails - and then sets the key; DisableMFA deletes both.  A panic is      *)
(* recovered behind the deferred release.                                   *)
VerifyMFA(r) ==
    \/ mfa # "none" /\ mfa' \in {mfa, "verified"} /\ GoTo(r, "mark")
    \/ UNCHANGED mfa /\ Answer(r, "error")

Handle(r) ==
    /\ At(r, "handle")
    /\ req[r].kind \in {"enable", "verify", "disable"} => FreePaths # {}
    /\ \/ /\ NoFault
          /\ CASE req[r].kind = "enable" -> mfa' = "unverified" /\ GoTo(r, "audit")
               [] req[r].kind = "verify" -> VerifyMFA(r)
               [] req[r].kind = "disable" ->
                     IF mfa = "none" THEN UNCHANGED mfa /\ Answer(r, "error")
                     ELSE mfa' = "none" /\ GoTo(r, "unmark")
               [] OTHER -> UNCHANGED mfa /\ GoTo(r, "audit")
       \/ Fault /\ Answer(r, "error") /\ UNCHANGED mfa
    /\ UNCHANGED <<pool, quota, window, key, now, made, passed, counted, crowded>>

MarkMFAVerified(r) ==
    /\ At(r, "mark") \/ At(r, "unmark")
    /\ \/ NoFault /\ key' = At(r, "mark") /\ GoTo(r, "audit")
       \/ Fault /\ Answer(r, "error") /\ UNCHANGED key
    /\ UNCHANGED <<pool, quota, window, mfa, now, made, passed, counted, crowded>>

(* AuditMiddleware, after the handler: the log and the undo record.         *)
RecordAudit(r) ==
    /\ Statement(r, "audit")
    /\ NoFault \/ Fault
    /\ Answer(r, "ok")
    /\ UNCHANGED <<pool, shared>>

(* ReleaseConn: RESET, then Close; the pool throws a broken connection away *)
(* and opens another.                                                       *)
\* Defect: the search_path is left as it is.
Closed(conn) == IF conn = "broken" THEN "public" ELSE conn
Released(conn) == "public"
\* Defect: the connection is not given back.
CloseNever(r) == UNCHANGED pool
Close(r) ==
    pool' = [pool EXCEPT ![Released(req[r].conn)] = IF req[r].conn = None THEN @ ELSE @ + 1]

Leave(r) == At(r, "leave") /\ Close(r) /\ Becomes(r, Idle) /\ UNCHANGED <<faults, shared>>

-----------------------------------------------------------------------------
(* The key lives for five minutes.                                           *)
KeyExpires ==
    /\ key /\ key' = FALSE
    /\ UNCHANGED <<pool, req, quota, window, mfa, now, made, faults, passed, counted, crowded>>

Tick ==
    /\ now < Horizon /\ now' = now + 1
    /\ UNCHANGED <<pool, req, quota, window, mfa, key, made, faults, passed, counted, crowded>>

Step(r) ==
    \/ Tenant(r) \/ CheckMFARequired(r) \/ IsMFAVerified(r) \/ ResolveEnterpriseContext(r)
    \/ EnterpriseStatus(r) \/ CaptureBeforeState(r) \/ FindQuota(r) \/ SaveQuota(r) \/ Allow(r)
    \/ Handle(r) \/ MarkMFAVerified(r) \/ RecordAudit(r) \/ Leave(r)

Next ==
    \/ \E r \in Requests : Step(r) \/ \E kind \in Kinds, e \in Enterprises : Arrive(r, kind, e)
    \/ KeyExpires \/ Tick

(* A goroutine that can go on does.                                         *)
Fairness == \A r \in Requests : WF_vars(Step(r))

Spec == Init /\ [][Next]_vars /\ Fairness

-----------------------------------------------------------------------------
(* No statement outside a tenant's own connection runs in a tenant's        *)
(* schema: a connection back in the pool has the default search_path, even  *)
(* when SET or the handler failed.                                          *)
FreeConnsAreClean == FreePaths \subseteq {"public"}

(* Requests wait for each other only for a while, if the pool has more      *)
(* connections than there are requests: with as many, all of them may hold  *)
(* their own and wait for a second one for ever.                            *)
RequestsAnswered == \A r \in Requests : ~At(r, "idle") ~> At(r, "idle")

(* In no second do as many requests of an enterprise pass as two windows    *)
(* would admit: a window begins with a request, not with the clock.         *)
WithinRate ==
    \A e \in Enterprises : \A i, j \in DOMAIN passed[e] :
        j - i >= 2 * RateLimit - 1 => passed[e][j] - passed[e][i] >= Second

(* As long as the requests of an enterprise come to its quota one at a      *)
(* time, no more of them pass than the quota allows.                        *)
QuotaHoldsInTurn == \A e \in Enterprises \ crowded : counted[e] <= QuotaLimit

(* "AUTH_MFA_REQUIRED: POST /api/v1/mfa/verify": the way out that this      *)
(* answer names is not itself closed by it.                                 *)
VerifyIsOpen == \A r \in Requests : req[r].kind = "verify" => req[r].answer # "AUTH_MFA_REQUIRED"
=============================================================================
