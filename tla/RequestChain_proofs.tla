------------------------- MODULE RequestChain_proofs -------------------------
(***************************************************************************)
(* Proofs about RequestChain, for any requests, enterprises, pool, limits  *)
(* and number of faults.                                                   *)
(***************************************************************************)
EXTENDS RequestChain, SequenceTheorems, FiniteSetTheorems, TLAPS

(***************************************************************************)
(* A connection is taken from the pool as it is and comes back reset, so   *)
(* that no step puts one with a tenant's search_path there.                *)
(***************************************************************************)
PoolInv ==
    /\ pool \in [Paths -> Int]
    /\ \A path \in Paths : path # "public" => pool[path] = 0

(* A request takes a connection on the public schema, as all free ones are. *)
LEMMA ConnectionsAreTakenClean ==
    ASSUME PoolInv, NEW r \in Requests, NEW next, UseSchema(r, next)
    PROVE  PoolInv'
<1>1. PICK path \in FreePaths : pool' = [pool EXCEPT ![path] = @ - 1]
  BY DEF UseSchema
<1>2. path = "public" /\ path \in Paths
  BY DEF PoolInv, FreePaths
<1> QED BY <1>1, <1>2 DEF PoolInv

(* A free connection never carries the schema of a tenant.                  *)
THEOREM PoolInvariant == Spec => []PoolInv
<1>1. Init => PoolInv
  BY ChainAssumption DEF Init, PoolInv
<1>2. PoolInv /\ [Next]_vars => PoolInv'
  <2> SUFFICES ASSUME PoolInv, [Next]_vars
               PROVE  PoolInv'
    OBVIOUS
  <2>1. (UNCHANGED pool) => PoolInv'
    BY DEF PoolInv
  <2>2. ASSUME NEW r \in Requests, Tenant(r) \/ ResolveEnterpriseContext(r)
        PROVE  PoolInv'
    BY <2>1, <2>2, ConnectionsAreTakenClean DEF Tenant, ResolveEnterpriseContext
  <2>3. ASSUME NEW r \in Requests, Leave(r)
        PROVE  PoolInv'
    BY <2>3 DEF Leave, Close, Released, PoolInv, Paths
  <2>4. CASE \/ \E r \in Requests :
                   \/ CheckMFARequired(r) \/ IsMFAVerified(r) \/ EnterpriseStatus(r)
                   \/ CaptureBeforeState(r) \/ FindQuota(r) \/ SaveQuota(r) \/ Allow(r)
                   \/ Handle(r) \/ MarkMFAVerified(r) \/ RecordAudit(r)
                   \/ \E kind \in Kinds, e \in Enterprises : Arrive(r, kind, e)
             \/ KeyExpires \/ Tick \/ UNCHANGED vars
    <3>1. UNCHANGED pool
      BY <2>4 DEF CheckMFARequired, IsMFAVerified, EnterpriseStatus, CaptureBeforeState, FindQuota,
                  SaveQuota, Allow, Handle, MarkMFAVerified, RecordAudit, Arrive, KeyExpires, Tick, vars
    <3> QED BY <2>1, <3>1
  <2> QED BY <2>2, <2>3, <2>4 DEF Next, Step
<1> QED BY <1>1, <1>2, PTL DEF Spec

(***************************************************************************)
(* Every free connection has the default search_path.                      *)
(***************************************************************************)
THEOREM FreeConnectionsAreClean == Spec => []FreeConnsAreClean
<1>1. PoolInv => FreeConnsAreClean
  BY DEF PoolInv, FreeConnsAreClean, FreePaths
<1> QED BY <1>1, PoolInvariant, PTL

-----------------------------------------------------------------------------
(***************************************************************************)
(* No connection is lost and none is given back twice: those in the pool   *)
(* and those that requests hold are PoolSize together, whatever fails on   *)
(* the way.                                                                *)
(***************************************************************************)
Holders == {r \in Requests : req[r].conn # None}

HoldingInv ==
    /\ DOMAIN req = Requests
    /\ \A r \in Requests :
          /\ {"at", "ent", "conn"} \subseteq DOMAIN req[r]
          /\ At(r, "idle") \/ At(r, "pin") => req[r].conn = None
          /\ ~At(r, "idle") => req[r].ent \in Enterprises

PoolIsWhole == pool["public"] + Cardinality(Holders) = PoolSize

ConnInv == PoolInv /\ HoldingInv /\ PoolIsWhole

(* The requests that hold connections are finitely many.                    *)
LEMMA HoldersAreFinite == IsFiniteSet(Holders) /\ Cardinality(Holders) \in Nat
BY ChainAssumption, FS_Subset, FS_CardinalityType DEF Holders

(* A request that goes on holding what it holds, while the others do too,   *)
(* changes nothing of the count.                                            *)
LEMMA HoldingOn ==
    ASSUME ConnInv, UNCHANGED pool, NEW r \in Requests, NEW new, Becomes(r, new),
           {"at", "ent", "conn"} \subseteq DOMAIN new,
           new.conn = req[r].conn, new.ent \in Enterprises, new.at \notin {"idle", "pin"}
    PROVE  ConnInv'
<1>1. /\ DOMAIN req' = Requests /\ req'[r] = new
      /\ \A s \in Requests \ {r} : req'[s] = req[s]
  BY DEF ConnInv, HoldingInv, Becomes
<1>2. Holders' = Holders
  BY <1>1 DEF Holders
<1>3. HoldingInv'
  BY <1>1 DEF ConnInv, HoldingInv, At
<1> QED BY <1>2, <1>3 DEF ConnInv, PoolInv, PoolIsWhole

(* A step of a request from one place of the chain to the next.             *)
LEMMA GoingOnHolds ==
    ASSUME ConnInv, UNCHANGED pool, NEW r \in Requests, ~At(r, "idle"),
           \/ \E at : at \notin {"idle", "pin"} /\ GoTo(r, at)
           \/ \E answer : Answer(r, answer)
           \/ \E at, seen : at \notin {"idle", "pin"} /\ Becomes(r, [req[r] EXCEPT !.at = at, !.seen = seen])
    PROVE  ConnInv'
<1>1. {"at", "ent", "conn"} \subseteq DOMAIN req[r] /\ req[r].ent \in Enterprises
  BY DEF ConnInv, HoldingInv
<1>2. ASSUME NEW at, at \notin {"idle", "pin"}, GoTo(r, at)
      PROVE  ConnInv'
  <2> DEFINE new == [req[r] EXCEPT !.at = at]
  <2>1. /\ {"at", "ent", "conn"} \subseteq DOMAIN new /\ Becomes(r, new)
        /\ new.conn = req[r].conn /\ new.ent \in Enterprises /\ new.at \notin {"idle", "pin"}
    BY <1>1, <1>2 DEF GoTo
  <2> HIDE DEF new
  <2> QED BY <2>1, HoldingOn
<1>3. ASSUME NEW answer, Answer(r, answer)
      PROVE  ConnInv'
  <2> DEFINE new == [req[r] EXCEPT !.at = "leave", !.answer = answer]
  <2>1. /\ {"at", "ent", "conn"} \subseteq DOMAIN new /\ Becomes(r, new)
        /\ new.conn = req[r].conn /\ new.ent \in Enterprises /\ new.at \notin {"idle", "pin"}
    BY <1>1, <1>3 DEF Answer
  <2> HIDE DEF new
  <2> QED BY <2>1, HoldingOn
<1>4. ASSUME NEW at, NEW seen, at \notin {"idle", "pin"},
             Becomes(r, [req[r] EXCEPT !.at = at, !.seen = seen])
      PROVE  ConnInv'
  <2> DEFINE new == [req[r] EXCEPT !.at = at, !.seen = seen]
  <2>1. /\ {"at", "ent", "conn"} \subseteq DOMAIN new /\ Becomes(r, new)
        /\ new.conn = req[r].conn /\ new.ent \in Enterprises /\ new.at \notin {"idle", "pin"}
    BY <1>1, <1>4
  <2> HIDE DEF new
  <2> QED BY <2>1, HoldingOn
<1> QED BY <1>2, <1>3, <1>4

(* UseSchema takes a connection for a request that has none.                *)
LEMMA TakingHolds ==
    ASSUME ConnInv, NEW r \in Requests, ~At(r, "idle"), req[r].conn = None,
           NEW next \in {"token", "status"}, UseSchema(r, next)
    PROVE  ConnInv'
<1>1. PICK path \in FreePaths : pool' = [pool EXCEPT ![path] = @ - 1]
  BY DEF UseSchema
<1>2. path = "public" /\ pool'["public"] = pool["public"] - 1 /\ pool["public"] \in Int
  BY <1>1 DEF ConnInv, PoolInv, FreePaths, Paths
<1>3. {"at", "ent", "conn"} \subseteq DOMAIN req[r] /\ req[r].ent \in Enterprises
  BY DEF ConnInv, HoldingInv
<1>4. PICK conn \in Enterprises \cup {"broken"} : Becomes(r, [req[r] EXCEPT !.at = next, !.conn = conn])
  BY <1>3 DEF UseSchema
<1> DEFINE new == [req[r] EXCEPT !.at = next, !.conn = conn]
<1>5. /\ {"at", "ent", "conn"} \subseteq DOMAIN new
      /\ new.at = next /\ new.conn = conn /\ new.ent = req[r].ent
  BY <1>3
<1>6. /\ DOMAIN req' = Requests /\ req'[r] = new
      /\ \A s \in Requests \ {r} : req'[s] = req[s]
  BY <1>4 DEF ConnInv, HoldingInv, Becomes
<1> HIDE DEF new
<1>7. conn # None
  BY ChainAssumption DEF None
<1>8. Holders' = Holders \cup {r} /\ r \notin Holders
  BY <1>5, <1>6, <1>7 DEF Holders
<1>9. Cardinality(Holders') = Cardinality(Holders) + 1
  BY <1>8, HoldersAreFinite, FS_AddElement
<1>10. HoldingInv'
  BY <1>3, <1>5, <1>6 DEF ConnInv, HoldingInv, At
<1>11. PoolInv'
  BY ConnectionsAreTakenClean DEF ConnInv
<1> QED BY <1>2, <1>9, <1>10, <1>11, HoldersAreFinite, ChainAssumption DEF ConnInv, PoolIsWhole

(* ReleaseConn gives back what the request held, and only that.             *)
LEMMA LeavingHolds ==
    ASSUME ConnInv, NEW r \in Requests, Leave(r)
    PROVE  ConnInv'
<1>1. /\ DOMAIN req' = Requests /\ req'[r] = Idle
      /\ \A s \in Requests \ {r} : req'[s] = req[s]
  BY DEF Leave, ConnInv, HoldingInv, Becomes
<1>2. Holders' = Holders \ {r}
  BY <1>1 DEF Holders, Idle
<1>3. pool'["public"] = IF req[r].conn = None THEN pool["public"] ELSE pool["public"] + 1
  BY DEF Leave, Close, Released, ConnInv, PoolInv, Paths
<1>4. pool["public"] \in Int
  BY DEF ConnInv, PoolInv, Paths
<1>5. Cardinality(Holders') = IF req[r].conn = None THEN Cardinality(Holders) ELSE Cardinality(Holders) - 1
  BY <1>2, HoldersAreFinite, FS_RemoveElement DEF Holders
<1>6. PoolIsWhole'
  BY <1>3, <1>4, <1>5, HoldersAreFinite, ChainAssumption DEF ConnInv, PoolIsWhole
<1>7. HoldingInv'
  BY <1>1 DEF ConnInv, HoldingInv, At, Idle
<1>8. PoolInv'
  BY DEF Leave, Close, Released, ConnInv, PoolInv, Paths
<1> QED BY <1>6, <1>7, <1>8 DEF ConnInv

(* A request arrives with no connection.                                    *)
LEMMA ArrivingHolds ==
    ASSUME ConnInv, NEW r \in Requests, NEW kind, NEW e \in Enterprises, Arrive(r, kind, e)
    PROVE  ConnInv'
<1>1. PICK at \in {"pin", "token"} : Becomes(r, [Idle EXCEPT !.at = at, !.kind = kind, !.ent = e])
  BY DEF Arrive
<1> DEFINE new == [Idle EXCEPT !.at = at, !.kind = kind, !.ent = e]
<1>2. /\ {"at", "ent", "conn"} \subseteq DOMAIN new
      /\ new.at = at /\ new.conn = None /\ new.ent = e
  BY DEF Idle
<1>3. /\ DOMAIN req' = Requests /\ req'[r] = new
      /\ \A s \in Requests \ {r} : req'[s] = req[s]
  BY <1>1 DEF ConnInv, HoldingInv, Becomes
<1> HIDE DEF new
<1>4. req[r].conn = None
  BY DEF Arrive, ConnInv, HoldingInv
<1>5. Holders' = Holders
  BY <1>2, <1>3, <1>4 DEF Holders
<1>6. HoldingInv'
  BY <1>2, <1>3 DEF ConnInv, HoldingInv, At
<1> QED BY <1>5, <1>6 DEF Arrive, ConnInv, PoolInv, PoolIsWhole

(***************************************************************************)
(* Whatever fails between taking a connection and giving it back, the pool *)
(* and the requests share PoolSize connections.                            *)
(***************************************************************************)
THEOREM ConnectionsAreConserved == Spec => []ConnInv
<1>1. Init => ConnInv
  <2> SUFFICES ASSUME Init PROVE ConnInv
    OBVIOUS
  <2>1. PoolInv
    BY ChainAssumption DEF Init, PoolInv
  <2>2. HoldingInv
    BY DEF Init, HoldingInv, Idle, At
  <2>3. Holders = {}
    BY DEF Init, Holders, Idle
  <2>4. pool["public"] = PoolSize
    BY DEF Init, Paths
  <2> QED BY <2>1, <2>2, <2>3, <2>4, FS_EmptySet, ChainAssumption DEF ConnInv, PoolIsWhole
<1>2. ConnInv /\ [Next]_vars => ConnInv'
  <2> SUFFICES ASSUME ConnInv, [Next]_vars
               PROVE  ConnInv'
    OBVIOUS
  <2>1. (UNCHANGED <<pool, req>>) => ConnInv'
    BY DEF ConnInv, PoolInv, HoldingInv, PoolIsWhole, Holders, At
  <2>2. ASSUME NEW r \in Requests, Tenant(r)
        PROVE  ConnInv'
    <3>1. At(r, "pin") /\ ~At(r, "idle") /\ UseSchema(r, "token") /\ req[r].conn = None
      BY <2>2 DEF Tenant, ConnInv, HoldingInv, At
    <3> QED BY <3>1, TakingHolds
  <2>3. ASSUME NEW r \in Requests, ResolveEnterpriseContext(r)
        PROVE  ConnInv'
    <3>1. ~At(r, "idle")
      BY <2>3 DEF ResolveEnterpriseContext, At
    <3>2. CASE req[r].conn = None
      BY <2>3, <3>1, <3>2, TakingHolds DEF ResolveEnterpriseContext
    <3>3. CASE req[r].conn # None
      BY <2>3, <3>1, <3>3, GoingOnHolds DEF ResolveEnterpriseContext
    <3> QED BY <3>2, <3>3
  <2>4. ASSUME NEW r \in Requests, CheckMFARequired(r) \/ IsMFAVerified(r)
        PROVE  ConnInv'
    <3>1. ~At(r, "idle") /\ UNCHANGED pool
      BY <2>4 DEF CheckMFARequired, IsMFAVerified, Statement, At
    <3>2. \/ \E at : at \notin {"idle", "pin"} /\ GoTo(r, at)
          \/ \E answer : Answer(r, answer)
      BY <2>4 DEF CheckMFARequired, IsMFAVerified
    <3> QED BY <3>1, <3>2, GoingOnHolds
  <2>5. ASSUME NEW r \in Requests, EnterpriseStatus(r) \/ CaptureBeforeState(r)
        PROVE  ConnInv'
    <3>1. ~At(r, "idle") /\ UNCHANGED pool
      BY <2>5 DEF EnterpriseStatus, CaptureBeforeState, Statement, At
    <3>2. \/ \E at : at \notin {"idle", "pin"} /\ GoTo(r, at)
          \/ \E answer : Answer(r, answer)
      BY <2>5 DEF EnterpriseStatus, CaptureBeforeState
    <3> QED BY <3>1, <3>2, GoingOnHolds
  <2>6. ASSUME NEW r \in Requests, FindQuota(r) \/ SaveQuota(r)
        PROVE  ConnInv'
    <3>1. ~At(r, "idle") /\ UNCHANGED pool
      BY <2>6 DEF FindQuota, SaveQuota, Statement, At
    <3>2. \/ \E at, seen : at \notin {"idle", "pin"} /\ Becomes(r, [req[r] EXCEPT !.at = at, !.seen = seen])
          \/ \E answer : Answer(r, answer)
      BY <2>6 DEF FindQuota, SaveQuota
    <3> QED BY <3>1, <3>2, GoingOnHolds
  <2>7. ASSUME NEW r \in Requests, Allow(r) \/ Handle(r)
        PROVE  ConnInv'
    <3>1. ~At(r, "idle") /\ UNCHANGED pool
      BY <2>7 DEF Allow, Handle, At
    <3>2. \/ \E at : at \notin {"idle", "pin"} /\ GoTo(r, at)
          \/ \E answer : Answer(r, answer)
      BY <2>7 DEF Allow, Handle, VerifyMFA
    <3> QED BY <3>1, <3>2, GoingOnHolds
  <2>8. ASSUME NEW r \in Requests, MarkMFAVerified(r) \/ RecordAudit(r)
        PROVE  ConnInv'
    <3>1. ~At(r, "idle") /\ UNCHANGED pool
      BY <2>8 DEF MarkMFAVerified, RecordAudit, Statement, At
    <3>2. \/ \E at : at \notin {"idle", "pin"} /\ GoTo(r, at)
          \/ \E answer : Answer(r, answer)
      BY <2>8 DEF MarkMFAVerified, RecordAudit
    <3> QED BY <3>1, <3>2, GoingOnHolds
  <2>9. ASSUME NEW r \in Requests, Leave(r)
        PROVE  ConnInv'
    BY <2>9, LeavingHolds
  <2>10. ASSUME NEW r \in Requests, NEW kind \in Kinds, NEW e \in Enterprises, Arrive(r, kind, e)
         PROVE  ConnInv'
    BY <2>10, ArrivingHolds
  <2>11. CASE KeyExpires \/ Tick \/ UNCHANGED vars
    BY <2>1, <2>11 DEF KeyExpires, Tick, vars
  <2> QED BY <2>2, <2>3, <2>4, <2>5, <2>6, <2>7, <2>8, <2>9, <2>10, <2>11 DEF Next, Step
<1> QED BY <1>1, <1>2, PTL DEF Spec

(***************************************************************************)
(* When every request is answered, every connection is back in the pool:   *)
(* no error, refusal or recovered panic of the chain leaks one.            *)
(***************************************************************************)
AllIdle == \A r \in Requests : At(r, "idle")

THEOREM NoConnectionLeaks == Spec => [](AllIdle => pool["public"] = PoolSize)
<1>1. ConnInv => (AllIdle => pool["public"] = PoolSize)
  <2> SUFFICES ASSUME ConnInv, AllIdle PROVE pool["public"] = PoolSize
    OBVIOUS
  <2>1. Holders = {}
    BY DEF ConnInv, HoldingInv, AllIdle, Holders
  <2>2. pool["public"] \in Int
    BY DEF ConnInv, PoolInv, Paths
  <2> QED BY <2>1, <2>2, FS_EmptySet, ChainAssumption DEF ConnInv, PoolIsWhole
<1> QED BY <1>1, ConnectionsAreConserved, PTL

(***************************************************************************)
(* A pool of more connections than there are requests always has one for   *)
(* the next statement, though every request may hold one of its own: what  *)
(* RequestsAnswered rests on.                                              *)
(***************************************************************************)
THEOREM StatementsFindConnections ==
    ASSUME Cardinality(Requests) < PoolSize
    PROVE  Spec => [](FreePaths # {})
<1>1. ConnInv => FreePaths # {}
  <2> SUFFICES ASSUME ConnInv PROVE FreePaths # {}
    OBVIOUS
  <2>1. Cardinality(Holders) <= Cardinality(Requests) /\ Cardinality(Requests) \in Nat
    BY ChainAssumption, FS_Subset, FS_CardinalityType DEF Holders
  <2>2. pool["public"] \in Int /\ "public" \in Paths
    BY DEF ConnInv, PoolInv, Paths
  <2>3. pool["public"] > 0
    BY <2>1, <2>2, HoldersAreFinite, ChainAssumption DEF ConnInv, PoolIsWhole
  <2> QED BY <2>2, <2>3 DEF FreePaths
<1> QED BY <1>1, ConnectionsAreConserved, PTL

-----------------------------------------------------------------------------
(***************************************************************************)
(* As long as the requests of an enterprise come to its quota in turn, the *)
(* row counts the requests that passed, and the request between reading    *)
(* and writing has read the row as it is.                                  *)
(***************************************************************************)
Counting(r, e) == At(r, "count") /\ req[r].ent = e

CountsInTurn(e) ==
    /\ quota[e] \in Nat \cup {Absent} /\ counted[e] \in Nat
    /\ counted[e] = IF quota[e] = Absent THEN 0 ELSE quota[e]
    /\ counted[e] <= QuotaLimit
    /\ \A r \in Requests : Counting(r, e) => req[r].seen = quota[e] /\ WithinQuota(req[r].seen)
    /\ \A r, s \in Requests : Counting(r, e) /\ Counting(s, e) => r = s

QuotaInv ==
    /\ DOMAIN req = Requests
    /\ \A r \in Requests : {"at", "ent", "seen"} \subseteq DOMAIN req[r]
    /\ DOMAIN quota = Enterprises /\ DOMAIN counted = Enterprises
    /\ \A e \in Enterprises \ crowded : CountsInTurn(e)

(***************************************************************************)
(* A step that touches neither quota nor counts and leaves every request,  *)
(* but for one that does not come to the quota, as it is.                  *)
(***************************************************************************)
LEMMA OthersCountOn ==
    ASSUME QuotaInv, UNCHANGED <<quota, counted, crowded>>,
           NEW r \in Requests, NEW new, Becomes(r, new),
           {"at", "ent", "seen"} \subseteq DOMAIN new, new.at # "count"
    PROVE  QuotaInv'
<1>1. /\ DOMAIN req' = Requests /\ req'[r] = new
      /\ \A s \in Requests \ {r} : req'[s] = req[s]
  BY DEF QuotaInv, Becomes
<1>2. \A e \in Enterprises, s \in Requests : Counting(s, e)' => Counting(s, e) /\ req'[s] = req[s]
  BY <1>1 DEF Counting, At
<1>3. \A e \in Enterprises : CountsInTurn(e) => CountsInTurn(e)'
  BY <1>2 DEF CountsInTurn, WithinQuota
<1> QED BY <1>1, <1>3 DEF QuotaInv

(* A request that goes on to any place but the count, or ends, counts       *)
(* nothing.                                                                 *)
LEMMA GoingOnCounts ==
    ASSUME QuotaInv, UNCHANGED <<quota, counted, crowded>>, NEW r \in Requests,
           \/ \E at : at # "count" /\ GoTo(r, at)
           \/ \E answer : Answer(r, answer)
           \/ \E at, conn : at # "count" /\ Becomes(r, [req[r] EXCEPT !.at = at, !.conn = conn])
    PROVE  QuotaInv'
<1>1. {"at", "ent", "seen"} \subseteq DOMAIN req[r]
  BY DEF QuotaInv
<1>2. ASSUME NEW at, at # "count", GoTo(r, at)
      PROVE  QuotaInv'
  <2> DEFINE new == [req[r] EXCEPT !.at = at]
  <2>1. {"at", "ent", "seen"} \subseteq DOMAIN new /\ new.at # "count" /\ Becomes(r, new)
    BY <1>1, <1>2 DEF GoTo
  <2> HIDE DEF new
  <2> QED BY <2>1, OthersCountOn
<1>3. ASSUME NEW answer, Answer(r, answer)
      PROVE  QuotaInv'
  <2> DEFINE new == [req[r] EXCEPT !.at = "leave", !.answer = answer]
  <2>1. {"at", "ent", "seen"} \subseteq DOMAIN new /\ new.at # "count" /\ Becomes(r, new)
    BY <1>1, <1>3 DEF Answer
  <2> HIDE DEF new
  <2> QED BY <2>1, OthersCountOn
<1>4. ASSUME NEW at, NEW conn, at # "count", Becomes(r, [req[r] EXCEPT !.at = at, !.conn = conn])
      PROVE  QuotaInv'
  <2> DEFINE new == [req[r] EXCEPT !.at = at, !.conn = conn]
  <2>1. {"at", "ent", "seen"} \subseteq DOMAIN new /\ new.at # "count" /\ Becomes(r, new)
    BY <1>1, <1>4
  <2> HIDE DEF new
  <2> QED BY <2>1, OthersCountOn
<1> QED BY <1>2, <1>3, <1>4

(***************************************************************************)
(* A request reads the quota of its enterprise: either nobody else is      *)
(* there, or the enterprise is crowded from now on.                        *)
(***************************************************************************)
LEMMA FindingCounts ==
    ASSUME QuotaInv, NEW r \in Requests, FindQuota(r)
    PROVE  QuotaInv'
<1> DEFINE e == req[r].ent
<1>1. UNCHANGED <<quota, counted>>
  BY DEF FindQuota
<1>2. ASSUME UNCHANGED crowded, \E answer : Answer(r, answer)
      PROVE  QuotaInv'
  BY <1>1, <1>2, GoingOnCounts
<1>3. ASSUME NEW new, Becomes(r, new), {"at", "ent", "seen"} \subseteq DOMAIN new, new.ent = e,
             new.at = "count" => new.seen = quota[e] /\ WithinQuota(quota[e]),
             crowded' = IF AtQuota(e) # {} THEN crowded \cup {e} ELSE crowded
      PROVE  QuotaInv'
  <2>1. /\ DOMAIN req' = Requests /\ req'[r] = new
        /\ \A s \in Requests \ {r} : req'[s] = req[s]
    BY <1>3 DEF QuotaInv, Becomes
  <2>2. crowded \subseteq crowded'
    BY <1>3
  <2>3. ASSUME NEW d \in Enterprises, d \notin crowded'
        PROVE  CountsInTurn(d)'
    <3>1. CountsInTurn(d)
      BY <2>2, <2>3 DEF QuotaInv
    <3>2. ASSUME NEW s \in Requests, Counting(s, d)', s # r
          PROVE  Counting(s, d) /\ req'[s] = req[s] /\ d # e
      BY <1>3, <2>1, <2>3, <3>2 DEF Counting, At, AtQuota
    <3>3. ASSUME Counting(r, d)'
          PROVE  d = e /\ req'[r].seen = quota[d] /\ WithinQuota(req'[r].seen)
      BY <1>3, <2>1, <3>3 DEF Counting, At
    <3>4. \A s \in Requests : Counting(s, d)' => req'[s].seen = quota[d] /\ WithinQuota(req'[s].seen)
      BY <3>1, <3>2, <3>3 DEF CountsInTurn
    <3>5. \A s, t \in Requests : Counting(s, d)' /\ Counting(t, d)' => s = t
      BY <3>1, <3>2, <3>3 DEF CountsInTurn
    <3> QED BY <1>1, <3>1, <3>4, <3>5 DEF CountsInTurn, WithinQuota
  <2>4. \A s \in Requests : {"at", "ent", "seen"} \subseteq DOMAIN req'[s]
    BY <1>3, <2>1 DEF QuotaInv
  <2> QED BY <1>1, <2>1, <2>3, <2>4 DEF QuotaInv
<1>4. {"at", "ent", "seen"} \subseteq DOMAIN req[r]
  BY DEF QuotaInv
<1>5. CASE \E answer : Answer(r, answer)
           /\ crowded' = IF AtQuota(e) # {} THEN crowded \cup {e} ELSE crowded
  <2>1. PICK answer : Answer(r, answer)
           /\ crowded' = IF AtQuota(e) # {} THEN crowded \cup {e} ELSE crowded
    BY <1>5
  <2> DEFINE new == [req[r] EXCEPT !.at = "leave", !.answer = answer]
  <2>2. {"at", "ent", "seen"} \subseteq DOMAIN new /\ new.at = "leave" /\ new.ent = e /\ Becomes(r, new)
    BY <1>4, <2>1 DEF Answer
  <2> HIDE DEF new
  <2> QED BY <1>3, <2>1, <2>2
<1>6. CASE /\ WithinQuota(quota[e])
           /\ Becomes(r, [req[r] EXCEPT !.at = "count", !.seen = quota[e]])
           /\ crowded' = IF AtQuota(e) # {} THEN crowded \cup {e} ELSE crowded
  <2> DEFINE new == [req[r] EXCEPT !.at = "count", !.seen = quota[e]]
  <2>1. {"at", "ent", "seen"} \subseteq DOMAIN new /\ new.seen = quota[e] /\ new.ent = e /\ Becomes(r, new)
    BY <1>4, <1>6
  <2> HIDE DEF new
  <2> QED BY <1>3, <1>6, <2>1
<1> QED BY <1>2, <1>5, <1>6 DEF FindQuota

(***************************************************************************)
(* A request writes the quota back: alone, it counts itself.               *)
(***************************************************************************)
LEMMA SavingCounts ==
    ASSUME QuotaInv, NEW r \in Requests, SaveQuota(r)
    PROVE  QuotaInv'
<1> DEFINE e == req[r].ent
           next == IF req[r].seen = Absent THEN 1 ELSE req[r].seen + 1
           new == [req[r] EXCEPT !.at = "rate", !.seen = Absent]
<1>1. UNCHANGED crowded /\ At(r, "count")
  BY DEF SaveQuota, Statement
<1>2. ASSUME UNCHANGED <<quota, counted>>, \E answer : Answer(r, answer)
      PROVE  QuotaInv'
  BY <1>1, <1>2, GoingOnCounts
<1>3. ASSUME quota' = [quota EXCEPT ![e] = next], counted' = [counted EXCEPT ![e] = @ + 1], Becomes(r, new)
      PROVE  QuotaInv'
  <2>1. /\ DOMAIN req' = Requests /\ req'[r].at = "rate" /\ DOMAIN req'[r] = DOMAIN req[r]
        /\ \A s \in Requests \ {r} : req'[s] = req[s]
    BY <1>3 DEF QuotaInv, Becomes
  <2>2. ASSUME NEW d \in Enterprises, d \notin crowded, d = e
        PROVE  CountsInTurn(d)'
    <3>1. CountsInTurn(d) /\ Counting(r, d)
      BY <1>1, <2>2 DEF QuotaInv, Counting
    <3>2. ~ \E s \in Requests : Counting(s, d)'
      BY <2>1, <3>1 DEF Counting, At, CountsInTurn
    <3>3. /\ quota[d] \in Nat \cup {Absent} /\ counted[d] \in Nat
          /\ req[r].seen = quota[d] /\ quota[d] < QuotaLimit
      BY <3>1 DEF CountsInTurn, WithinQuota
    <3>4. quota'[d] = next /\ counted'[d] = counted[d] + 1
      BY <1>3, <2>2 DEF QuotaInv
    <3>5. /\ next \in Nat /\ next # Absent
          /\ counted'[d] = quota'[d] /\ counted'[d] <= QuotaLimit
      BY <3>1, <3>3, <3>4, ChainAssumption DEF CountsInTurn, Absent
    <3> QED BY <3>2, <3>4, <3>5 DEF CountsInTurn
  <2>3. ASSUME NEW d \in Enterprises, d \notin crowded, d # e
        PROVE  CountsInTurn(d)'
    <3>1. CountsInTurn(d) /\ quota'[d] = quota[d] /\ counted'[d] = counted[d]
      BY <1>3, <2>3 DEF QuotaInv
    <3>2. \A s \in Requests : Counting(s, d)' => Counting(s, d) /\ req'[s] = req[s]
      BY <2>1 DEF Counting, At
    <3> QED BY <3>1, <3>2 DEF CountsInTurn, WithinQuota
  <2>4. \A s \in Requests : {"at", "ent", "seen"} \subseteq DOMAIN req'[s]
    BY <2>1 DEF QuotaInv
  <2>5. DOMAIN quota' = Enterprises /\ DOMAIN counted' = Enterprises
    BY <1>3 DEF QuotaInv
  <2> QED BY <1>1, <2>1, <2>2, <2>3, <2>4, <2>5 DEF QuotaInv
<1> QED BY <1>2, <1>3 DEF SaveQuota

(***************************************************************************)
(* The row of an enterprise counts the requests that passed, as long as    *)
(* they come in turn: whatever else the requests do keeps it so.           *)
(***************************************************************************)
THEOREM QuotaInvariant == Spec => []QuotaInv
<1>1. Init => QuotaInv
  <2> SUFFICES ASSUME Init
               PROVE  QuotaInv
    OBVIOUS
  <2>1. DOMAIN req = Requests /\ \A r \in Requests : req[r] = Idle
    BY DEF Init
  <2>2. \A r \in Requests : ~ At(r, "count") /\ {"at", "ent", "seen"} \subseteq DOMAIN req[r]
    <3>1. Idle.at # "count" /\ {"at", "ent", "seen"} \subseteq DOMAIN Idle
      BY DEF Idle
    <3> QED BY <2>1, <3>1 DEF At
  <2>3. \A e \in Enterprises : quota[e] = Absent /\ counted[e] = 0
    BY DEF Init
  <2>4. \A e \in Enterprises : CountsInTurn(e)
    BY <2>2, <2>3, ChainAssumption DEF CountsInTurn, Counting
  <2> QED BY <2>1, <2>2, <2>4 DEF Init, QuotaInv
<1>2. QuotaInv /\ [Next]_vars => QuotaInv'
  <2> SUFFICES ASSUME QuotaInv, [Next]_vars
               PROVE  QuotaInv'
    OBVIOUS
  <2>1. ASSUME NEW r \in Requests, NEW kind \in Kinds, NEW e \in Enterprises, Arrive(r, kind, e)
        PROVE  QuotaInv'
    <3>1. PICK at \in {"pin", "token"} : Becomes(r, [Idle EXCEPT !.at = at, !.kind = kind, !.ent = e])
      BY <2>1 DEF Arrive
    <3> DEFINE new == [Idle EXCEPT !.at = at, !.kind = kind, !.ent = e]
    <3>2. {"at", "ent", "seen"} \subseteq DOMAIN new /\ new.at # "count" /\ Becomes(r, new)
      BY <3>1 DEF Idle
    <3>3. UNCHANGED <<quota, counted, crowded>>
      BY <2>1 DEF Arrive
    <3> HIDE DEF new
    <3> QED BY <3>2, <3>3, OthersCountOn
  <2>2. ASSUME NEW r \in Requests, Tenant(r) \/ ResolveEnterpriseContext(r)
        PROVE  QuotaInv'
    <3>1. UNCHANGED <<quota, counted, crowded>>
      BY <2>2 DEF Tenant, ResolveEnterpriseContext, UseSchema, shared
    <3>2. \/ \E at : at # "count" /\ GoTo(r, at)
          \/ \E at, conn : at # "count" /\ Becomes(r, [req[r] EXCEPT !.at = at, !.conn = conn])
      BY <2>2 DEF Tenant, ResolveEnterpriseContext, UseSchema
    <3> QED BY <3>1, <3>2, GoingOnCounts
  <2>3. ASSUME NEW r \in Requests,
               \/ CheckMFARequired(r) \/ IsMFAVerified(r) \/ EnterpriseStatus(r) \/ CaptureBeforeState(r)
               \/ Allow(r) \/ Handle(r) \/ MarkMFAVerified(r) \/ RecordAudit(r)
        PROVE  QuotaInv'
    <3>1. UNCHANGED <<quota, counted, crowded>>
      BY <2>3 DEF CheckMFARequired, IsMFAVerified, EnterpriseStatus, CaptureBeforeState, Allow, Handle,
                  MarkMFAVerified, RecordAudit, shared
    <3>2. (\E at : at # "count" /\ GoTo(r, at)) \/ (\E answer : Answer(r, answer))
      <4>1. CASE CheckMFARequired(r) \/ IsMFAVerified(r)
        BY <4>1 DEF CheckMFARequired, IsMFAVerified
      <4>2. CASE EnterpriseStatus(r) \/ CaptureBeforeState(r)
        BY <4>2 DEF EnterpriseStatus, CaptureBeforeState
      <4>3. CASE Allow(r)
        BY <4>3 DEF Allow
      <4>4. CASE Handle(r)
        BY <4>4 DEF Handle, VerifyMFA
      <4>5. CASE MarkMFAVerified(r) \/ RecordAudit(r)
        BY <4>5 DEF MarkMFAVerified, RecordAudit
      <4> QED BY <2>3, <4>1, <4>2, <4>3, <4>4, <4>5
    <3> QED BY <3>1, <3>2, GoingOnCounts
  <2>4. ASSUME NEW r \in Requests, FindQuota(r) \/ SaveQuota(r)
        PROVE  QuotaInv'
    BY <2>4, FindingCounts, SavingCounts
  <2>5. ASSUME NEW r \in Requests, Leave(r)
        PROVE  QuotaInv'
    <3>1. UNCHANGED <<quota, counted, crowded>> /\ Becomes(r, Idle)
      BY <2>5 DEF Leave, shared
    <3>2. {"at", "ent", "seen"} \subseteq DOMAIN Idle /\ Idle.at # "count"
      BY DEF Idle
    <3> QED BY <3>1, <3>2, OthersCountOn
  <2>6. CASE KeyExpires \/ Tick \/ UNCHANGED vars
    <3>1. UNCHANGED <<req, quota, counted, crowded>>
      BY <2>6 DEF KeyExpires, Tick, vars
    <3>2. \A e \in Enterprises : CountsInTurn(e) => CountsInTurn(e)'
      BY <3>1 DEF CountsInTurn, Counting, At, WithinQuota
    <3> QED BY <3>1, <3>2 DEF QuotaInv
  <2> QED BY <2>1, <2>2, <2>3, <2>4, <2>5, <2>6 DEF Next, Step
<1> QED BY <1>1, <1>2, PTL DEF Spec

(***************************************************************************)
(* No more requests of an enterprise pass than its quota allows, as long   *)
(* as they come to it one at a time.                                       *)
(***************************************************************************)
THEOREM QuotaHolds == Spec => []QuotaHoldsInTurn
<1>1. QuotaInv => QuotaHoldsInTurn
  BY DEF QuotaInv, CountsInTurn, QuotaHoldsInTurn
<1> QED BY <1>1, QuotaInvariant, PTL

-----------------------------------------------------------------------------
(***************************************************************************)
(* What the limiter's window of an enterprise says of the requests it let  *)
(* through: the last ones, as many as it counts, passed in this window,    *)
(* the first of them at its start, and those of the window before began a  *)
(* second earlier.                                                         *)
(***************************************************************************)
InOrder(s) == \A i, j \in 1 .. Len(s) : i <= j => s[i] <= s[j] /\ s[j] <= now

WindowIsLast(s, c, start) ==
    /\ c <= RateLimit
    /\ Len(s) = 0 => c = 0 /\ start = -Second
    /\ Len(s) > 0 => Len(s) + 1 - c \in 1 .. Len(s) /\ s[Len(s) + 1 - c] = start

WindowsApart(s, c, start) ==
    \A i \in 1 .. Len(s) : i + RateLimit <= Len(s) + 1 - c => s[i] + Second <= start

Spread(s) == \A i, j \in 1 .. Len(s) : j - i >= 2 * RateLimit - 1 => s[j] - s[i] >= Second

Limited(s, c, start) == InOrder(s) /\ WindowIsLast(s, c, start) /\ WindowsApart(s, c, start) /\ Spread(s)

RateInv ==
    /\ now \in Nat
    /\ passed \in [Enterprises -> Seq(Nat)]
    /\ window \in [Enterprises -> [count : Nat, start : Int]]
    /\ \A e \in Enterprises : Limited(passed[e], window[e].count, window[e].start)

(* One more moment, not before any other.                                   *)
LEMMA OneMore ==
    ASSUME NEW s \in Seq(Nat), NEW t \in Nat
    PROVE  /\ Append(s, t) \in Seq(Nat) /\ Len(Append(s, t)) = Len(s) + 1 /\ Len(s) \in Nat
           /\ \A i \in 1 .. Len(s) : Append(s, t)[i] = s[i] /\ s[i] \in Nat
           /\ Append(s, t)[Len(s) + 1] = t
BY AppendProperties, LenProperties, ElementOfSeq

(***************************************************************************)
(* A request that begins a window, a second after the beginning of the     *)
(* last at the least.                                                      *)
(***************************************************************************)
LEMMA WindowBegins ==
    ASSUME now \in Nat, NEW s \in Seq(Nat), NEW c \in Nat, NEW start \in Int,
           Limited(s, c, start), now - start >= Second
    PROVE  Limited(Append(s, now), 1, now)
<1> DEFINE n == Len(s)
           u == Append(s, now)
<1>1. /\ Len(u) = n + 1 /\ n \in Nat /\ u[n + 1] = now
      /\ \A i \in 1 .. n : u[i] = s[i] /\ s[i] \in Nat
  BY OneMore
<1>2. RateLimit \in Nat \ {0} /\ Second \in Nat \ {0}
  BY ChainAssumption
<1>3. /\ \A i, j \in 1 .. n : i <= j => s[i] <= s[j] /\ s[j] <= now
      /\ c <= RateLimit
      /\ n > 0 => n + 1 - c \in 1 .. n /\ s[n + 1 - c] = start
      /\ \A i, j \in 1 .. n : j - i >= 2 * RateLimit - 1 => s[j] - s[i] >= Second
  BY DEF Limited, InOrder, WindowIsLast, Spread
<1> HIDE DEF n, u
<1>4. ASSUME NEW i \in 1 .. n, i <= n + 1 - c
      PROVE  s[i] + Second <= now
  <2>1. n + 1 - c \in 1 .. n /\ s[n + 1 - c] = start
    BY <1>1, <1>3
  <2>2. s[i] <= start
    BY <1>3, <1>4, <2>1
  <2> QED BY <1>1, <1>2, <2>2
<1>5. InOrder(u)
  <2> SUFFICES ASSUME NEW i \in 1 .. n + 1, NEW j \in 1 .. n + 1, i <= j
               PROVE  u[i] <= u[j] /\ u[j] <= now
    BY <1>1 DEF InOrder
  <2>1. CASE j = n + 1
    <3>1. i = n + 1 \/ i \in 1 .. n
      BY <1>1
    <3>2. ASSUME i \in 1 .. n
          PROVE  u[i] <= now
      <4>1. i <= i /\ u[i] = s[i]
        BY <1>1, <3>2
      <4>2. s[i] <= now
        BY <1>3, <3>2, <4>1
      <4> QED BY <4>1, <4>2
    <3> QED BY <1>1, <2>1, <3>1, <3>2
  <2>2. CASE j \in 1 .. n
    <3>1. i \in 1 .. n
      BY <1>1, <2>2
    <3> QED BY <1>1, <1>3, <2>2, <3>1
  <2> QED BY <1>1, <2>1, <2>2
<1>6. WindowIsLast(u, 1, now)
  BY <1>1, <1>2 DEF WindowIsLast
<1>7. WindowsApart(u, 1, now)
  <2> SUFFICES ASSUME NEW i \in 1 .. n + 1, i + RateLimit <= n + 1
               PROVE  u[i] + Second <= now
    BY <1>1 DEF WindowsApart
  <2>1. i \in 1 .. n /\ i <= n + 1 - c
    BY <1>1, <1>2, <1>3
  <2> QED BY <1>1, <1>4, <2>1
<1>8. Spread(u)
  <2> SUFFICES ASSUME NEW i \in 1 .. n + 1, NEW j \in 1 .. n + 1, j - i >= 2 * RateLimit - 1
               PROVE  u[j] - u[i] >= Second
    BY <1>1 DEF Spread
  <2>1. i \in 1 .. n
    BY <1>1, <1>2
  <2>2. CASE j \in 1 .. n
    BY <1>1, <1>3, <2>1, <2>2
  <2>3. CASE j = n + 1
    <3>1. i <= n + 1 - c
      BY <1>1, <1>2, <1>3, <2>1, <2>3
    <3>2. s[i] + Second <= now
      BY <1>4, <2>1, <3>1
    <3>3. u[j] = now /\ u[i] = s[i] /\ s[i] \in Nat
      BY <1>1, <2>1, <2>3
    <3> QED BY <1>2, <3>2, <3>3
  <2> QED BY <1>1, <2>2, <2>3
<1> QED BY <1>5, <1>6, <1>7, <1>8 DEF Limited, u

(***************************************************************************)
(* A request for which the current window has room: the window before      *)
(* began early enough.                                                     *)
(***************************************************************************)
LEMMA WindowGoesOn ==
    ASSUME now \in Nat, NEW s \in Seq(Nat), NEW c \in Nat, NEW start \in Int,
           Limited(s, c, start), ~ (now - start >= Second), c < RateLimit
    PROVE  Limited(Append(s, now), c + 1, start)
<1> DEFINE n == Len(s)
           u == Append(s, now)
<1>1. /\ Len(u) = n + 1 /\ n \in Nat /\ u[n + 1] = now
      /\ \A i \in 1 .. n : u[i] = s[i] /\ s[i] \in Nat
  BY OneMore
<1>2. RateLimit \in Nat \ {0} /\ Second \in Nat \ {0}
  BY ChainAssumption
<1>3. /\ \A i, j \in 1 .. n : i <= j => s[i] <= s[j] /\ s[j] <= now
      /\ n = 0 => start = -Second
      /\ n > 0 => n + 1 - c \in 1 .. n /\ s[n + 1 - c] = start
      /\ \A i \in 1 .. n : i + RateLimit <= n + 1 - c => s[i] + Second <= start
      /\ \A i, j \in 1 .. n : j - i >= 2 * RateLimit - 1 => s[j] - s[i] >= Second
  BY DEF Limited, InOrder, WindowIsLast, WindowsApart, Spread
<1> HIDE DEF n, u
<1>4. /\ n + 1 - c \in 1 .. n /\ s[n + 1 - c] = start
      /\ start <= now
  <2>1. n # 0
    BY <1>2, <1>3
  <2>2. n + 1 - c \in 1 .. n /\ s[n + 1 - c] = start
    BY <1>1, <1>3, <2>1
  <2> QED BY <1>3, <2>2
<1>5. InOrder(u)
  <2> SUFFICES ASSUME NEW i \in 1 .. n + 1, NEW j \in 1 .. n + 1, i <= j
               PROVE  u[i] <= u[j] /\ u[j] <= now
    BY <1>1 DEF InOrder
  <2>1. CASE j = n + 1
    <3>1. i = n + 1 \/ i \in 1 .. n
      BY <1>1
    <3>2. ASSUME i \in 1 .. n
          PROVE  u[i] <= now
      <4>1. i <= i /\ u[i] = s[i]
        BY <1>1, <3>2
      <4>2. s[i] <= now
        BY <1>3, <3>2, <4>1
      <4> QED BY <4>1, <4>2
    <3> QED BY <1>1, <2>1, <3>1, <3>2
  <2>2. CASE j \in 1 .. n
    <3>1. i \in 1 .. n
      BY <1>1, <2>2
    <3> QED BY <1>1, <1>3, <2>2, <3>1
  <2> QED BY <1>1, <2>1, <2>2
<1>6. WindowIsLast(u, c + 1, start)
  <2>1. Len(u) + 1 - (c + 1) = n + 1 - c
    BY <1>1
  <2>2. u[n + 1 - c] = start /\ n + 1 - c \in 1 .. n + 1
    BY <1>1, <1>4
  <2> QED BY <1>1, <1>2, <2>1, <2>2 DEF WindowIsLast
<1>7. WindowsApart(u, c + 1, start)
  <2> SUFFICES ASSUME NEW i \in 1 .. n + 1, i + RateLimit <= n + 1 - c
               PROVE  u[i] + Second <= start
    BY <1>1 DEF WindowsApart
  <2>1. i \in 1 .. n
    BY <1>1, <1>2
  <2> QED BY <1>1, <1>3, <2>1
<1>8. Spread(u)
  <2> SUFFICES ASSUME NEW i \in 1 .. n + 1, NEW j \in 1 .. n + 1, j - i >= 2 * RateLimit - 1
               PROVE  u[j] - u[i] >= Second
    BY <1>1 DEF Spread
  <2>1. i \in 1 .. n
    BY <1>1, <1>2
  <2>2. CASE j \in 1 .. n
    BY <1>1, <1>3, <2>1, <2>2
  <2>3. CASE j = n + 1
    <3>1. i + RateLimit <= n + 1 - c
      BY <1>1, <1>2, <2>1, <2>3
    <3>2. s[i] + Second <= start
      BY <1>3, <2>1, <3>1
    <3>3. u[j] = now /\ u[i] = s[i] /\ s[i] \in Nat
      BY <1>1, <2>1, <2>3
    <3> QED BY <1>2, <1>4, <3>2, <3>3
  <2> QED BY <1>1, <2>2, <2>3
<1> QED BY <1>5, <1>6, <1>7, <1>8 DEF Limited, u

(* What the limiter says of one enterprise does not touch the others.       *)
LEMMA PassingKeepsRate ==
    ASSUME RateInv, NEW e \in Enterprises, UNCHANGED now,
           Current(window[e]).count < RateLimit,
           passed' = [passed EXCEPT ![e] = Append(@, now)],
           window' = [window EXCEPT ![e] = [Current(window[e]) EXCEPT !.count = @ + 1]]
    PROVE  RateInv'
<1> DEFINE s == passed[e]
           c == window[e].count
           start == window[e].start
<1>1. now \in Nat /\ s \in Seq(Nat) /\ c \in Nat /\ start \in Int /\ Limited(s, c, start)
      /\ window[e] \in [count : Nat, start : Int]
  BY DEF RateInv
<1>2. passed'[e] = Append(s, now) /\ Append(s, now) \in Seq(Nat)
  BY <1>1, OneMore DEF RateInv
<1>3. /\ window'[e] \in [count : Nat, start : Int]
      /\ Limited(Append(s, now), window'[e].count, window'[e].start)
  <2>1. CASE now - start >= Second
    <3>1. window'[e] = [count |-> 1, start |-> now]
      BY <2>1 DEF Current, RateInv
    <3>2. Limited(Append(s, now), 1, now)
      BY <1>1, <2>1, WindowBegins
    <3>3. window'[e].count = 1 /\ window'[e].start = now /\ window'[e] \in [count : Nat, start : Int]
      BY <1>1, <3>1
    <3> QED BY <3>2, <3>3
  <2>2. CASE ~ (now - start >= Second)
    <3>1. window'[e] = [window[e] EXCEPT !.count = @ + 1] /\ c < RateLimit
      BY <2>2 DEF Current, RateInv
    <3>2. Limited(Append(s, now), c + 1, start)
      BY <1>1, <2>2, <3>1, WindowGoesOn
    <3>3. window'[e].count = c + 1 /\ window'[e].start = start /\ window'[e] \in [count : Nat, start : Int]
      BY <1>1, <3>1
    <3> QED BY <3>2, <3>3
  <2> QED BY <2>1, <2>2
<1>4. /\ passed' \in [Enterprises -> Seq(Nat)]
      /\ window' \in [Enterprises -> [count : Nat, start : Int]]
  BY <1>2, <1>3 DEF RateInv
<1>5. \A d \in Enterprises \ {e} : passed'[d] = passed[d] /\ window'[d] = window[d]
  BY DEF RateInv
<1>6. ASSUME NEW d \in Enterprises
      PROVE  Limited(passed'[d], window'[d].count, window'[d].start)
  BY <1>2, <1>3, <1>5, <1>6 DEF RateInv
<1>7. \A d \in Enterprises : Limited(passed[d], window[d].count, window[d].start)'
  BY <1>6 DEF Limited, InOrder, WindowIsLast, WindowsApart, Spread
<1> QED BY <1>1, <1>4, <1>7 DEF RateInv

(* A request that is refused leaves the full window as it is.               *)
LEMMA AllowingKeepsRate ==
    ASSUME RateInv, NEW r \in Requests, Allow(r)
    PROVE  RateInv'
<1> DEFINE e == req[r].ent
           w == Current(window[e])
<1>1. UNCHANGED now
  BY DEF Allow
<1>2. CASE e \in Enterprises /\ w.count < RateLimit
  <2>1. /\ passed' = [passed EXCEPT ![e] = Append(@, now)]
        /\ window' = [window EXCEPT ![e] = [w EXCEPT !.count = @ + 1]]
    BY <1>2 DEF Allow
  <2> QED BY <1>1, <1>2, <2>1, PassingKeepsRate
<1>3. ASSUME UNCHANGED <<passed, window>>
      PROVE  RateInv'
  BY <1>1, <1>3 DEF RateInv, Limited, InOrder, WindowIsLast, WindowsApart, Spread
<1>4. CASE e \in Enterprises /\ ~ (w.count < RateLimit)
  <2>1. UNCHANGED passed /\ window' = [window EXCEPT ![e] = w]
    BY <1>4 DEF Allow
  <2>2. w = window[e]
    BY <1>4, ChainAssumption DEF Current
  <2>3. window' = window
    BY <2>1, <2>2 DEF RateInv
  <2> QED BY <1>3, <2>1, <2>3
<1>5. CASE e \notin Enterprises
  <2>1. UNCHANGED <<passed, window>>
    BY <1>5 DEF Allow, RateInv
  <2> QED BY <1>3, <2>1
<1> QED BY <1>2, <1>4, <1>5

(***************************************************************************)
(* In no second as many requests of an enterprise pass as two windows      *)
(* admit, whatever the limit and the length of a window.                   *)
(***************************************************************************)
THEOREM RateIsKept == Spec => []WithinRate
<1>1. Init => RateInv
  <2> SUFFICES ASSUME Init
               PROVE  RateInv
    OBVIOUS
  <2>1. /\ now = 0
        /\ \A e \in Enterprises : passed[e] = <<>> /\ DOMAIN passed[e] = {} /\ window[e] = NoWindow
    BY DEF Init
  <2>2. <<>> \in Seq(Nat) /\ NoWindow \in [count : Nat, start : Int] /\ NoWindow.count <= RateLimit
    BY ChainAssumption DEF NoWindow
  <2>3. /\ passed \in [Enterprises -> Seq(Nat)]
        /\ window \in [Enterprises -> [count : Nat, start : Int]]
    BY <2>2 DEF Init
  <2>4. \A e \in Enterprises : Limited(passed[e], window[e].count, window[e].start)
    BY <2>1, ChainAssumption DEF Limited, InOrder, WindowIsLast, WindowsApart, Spread, NoWindow
  <2> QED BY <2>1, <2>3, <2>4 DEF RateInv
<1>2. RateInv /\ [Next]_vars => RateInv'
  <2> SUFFICES ASSUME RateInv, [Next]_vars
               PROVE  RateInv'
    OBVIOUS
  <2>1. ASSUME UNCHANGED <<passed, window>>, now' \in Nat, now' >= now
        PROVE  RateInv'
    <3>1. ASSUME NEW e \in Enterprises, NEW i \in 1 .. Len(passed[e]), NEW j \in 1 .. Len(passed[e]), i <= j
          PROVE  passed[e][i] <= passed[e][j] /\ passed[e][j] <= now'
      <4>1. passed[e][i] <= passed[e][j] /\ passed[e][j] <= now
        BY <3>1 DEF RateInv, Limited, InOrder
      <4>2. passed[e][j] \in Nat /\ now \in Nat
        BY ElementOfSeq DEF RateInv
      <4> QED BY <2>1, <4>1, <4>2
    <3>2. \A e \in Enterprises : InOrder(passed[e])'
      BY <2>1, <3>1 DEF InOrder
    <3> QED BY <2>1, <3>2 DEF RateInv, Limited, WindowIsLast, WindowsApart, Spread
  <2>2. now \in Nat
    BY DEF RateInv
  <2>3. ASSUME NEW r \in Requests, Allow(r)
        PROVE  RateInv'
    BY <2>3, AllowingKeepsRate
  <2>4. ASSUME NEW r \in Requests,
               \/ Tenant(r) \/ CheckMFARequired(r) \/ IsMFAVerified(r) \/ ResolveEnterpriseContext(r)
               \/ EnterpriseStatus(r) \/ CaptureBeforeState(r) \/ FindQuota(r) \/ SaveQuota(r)
        PROVE  RateInv'
    <3>1. UNCHANGED <<passed, window, now>>
      BY <2>4 DEF Tenant, CheckMFARequired, IsMFAVerified, ResolveEnterpriseContext, UseSchema,
                  EnterpriseStatus, CaptureBeforeState, FindQuota, SaveQuota, shared
    <3> QED BY <2>1, <2>2, <3>1
  <2>5. ASSUME NEW r \in Requests,
               \/ Handle(r) \/ MarkMFAVerified(r) \/ RecordAudit(r) \/ Leave(r)
               \/ \E kind \in Kinds, e \in Enterprises : Arrive(r, kind, e)
        PROVE  RateInv'
    <3>1. UNCHANGED <<passed, window, now>>
      BY <2>5 DEF Handle, MarkMFAVerified, RecordAudit, Leave, Arrive, shared
    <3> QED BY <2>1, <2>2, <3>1
  <2>6. CASE KeyExpires \/ Tick \/ UNCHANGED vars
    <3>1. UNCHANGED <<passed, window>> /\ now' \in Nat /\ now' >= now
      BY <2>2, <2>6 DEF KeyExpires, Tick, vars
    <3> QED BY <2>1, <3>1
  <2> QED BY <2>3, <2>4, <2>5, <2>6 DEF Next, Step
<1>3. RateInv => WithinRate
  <2>1. RateInv => \A e \in Enterprises : DOMAIN passed[e] = 1 .. Len(passed[e])
    BY LenProperties DEF RateInv
  <2> QED BY <2>1 DEF RateInv, Limited, Spread, WithinRate
<1> QED BY <1>1, <1>2, <1>3, PTL DEF Spec
=============================================================================
