------------------------------ MODULE RedisLock ------------------------------
(***************************************************************************)
(* DistributedLock and LockProvider of src/api/pkg/redis/lock.go, step by  *)
(* step: the bounded retry loop of Acquire (one SETNX per attempt, a sleep *)
(* between attempts), the critical section of the caller, Release, and     *)
(* what the loop does not control: lost replies, failed commands, keys     *)
(* that expire under a slow holder, processes that die holding a key.      *)
(***************************************************************************)
EXTENDS LockTable, Naturals

CONSTANT
  Retries       \* attempts after the first; AcquireInventoryLock passes 3

ASSUME RetriesAssumption == Retries \in Nat
ASSUME LockModeAssumption == LockMode \in LockModes
ASSUME NoHolderAssumption == NoHolder \notin Holder /\ Orphan \notin Holder \cup {NoHolder}

VARIABLES
  phase,      \* idle, trying, holding
  want,       \* the key of the current or last acquisition
  attempt,    \* attempts made by the Acquire loop so far
  expired     \* holders whose key Redis dropped before they released it

lockVars == <<lockKey, phase, want, attempt, expired>>

\* h believes it holds k.
InSection(h, k) == phase[h] = "holding" /\ want[h] = k

LockInit ==
  /\ LockTableInit
  /\ phase = [h \in Holder |-> "idle"]
  /\ want \in [Holder -> Key]
  /\ attempt = [h \in Holder |-> 0]
  /\ expired = {}

\* AcquireInventoryLock builds the lock object for a key and enters Acquire.
AcquireInventoryLock(h, k) ==
  /\ phase[h] = "idle"
  /\ LockMode # "nilprovider"       \* a nil provider panics before this point
  /\ phase' = [phase EXCEPT ![h] = "trying"]
  /\ want' = [want EXCEPT ![h] = k]
  /\ attempt' = [attempt EXCEPT ![h] = 0]
  /\ expired' = expired \ {h}
  /\ UNCHANGED lockKey

\* One turn of the loop: SETNX answers 1, or there is no client to ask.
AttemptSucceeds(h) ==
  /\ phase[h] = "trying"
  /\ Granted(h, want[h])
  /\ phase' = [phase EXCEPT ![h] = "holding"]
  /\ UNCHANGED <<want, attempt, expired>>

\* Defect: a turn that fails is not counted.
AttemptFailsForever(h) ==
  /\ phase[h] = "trying"
  /\ Refused(want[h])
  /\ UNCHANGED <<phase, want, attempt, expired>>

\* One turn of the loop: SETNX answers 0 or fails; after the last turn the
\* loop gives up and Acquire returns false.
AttemptFails(h) ==
  /\ phase[h] = "trying"
  /\ Refused(want[h])
  /\ IF attempt[h] < Retries
     THEN attempt' = [attempt EXCEPT ![h] = @ + 1] /\ UNCHANGED phase
     ELSE phase' = [phase EXCEPT ![h] = "idle"] /\ UNCHANGED attempt
  /\ UNCHANGED <<want, expired>>

\* SETNX succeeded but the reply was lost: the loop counts a failed attempt.
AttemptReplyLost(h) ==
  /\ phase[h] = "trying"
  /\ ReplyLost(want[h])
  /\ IF attempt[h] < Retries
     THEN attempt' = [attempt EXCEPT ![h] = @ + 1] /\ UNCHANGED phase
     ELSE phase' = [phase EXCEPT ![h] = "idle"] /\ UNCHANGED attempt
  /\ UNCHANGED <<want, expired>>

Release(h) ==
  /\ phase[h] = "holding"
  /\ Released(h, want[h])
  /\ phase' = [phase EXCEPT ![h] = "idle"]
  /\ UNCHANGED <<want, attempt, expired>>

\* The ttl of SetNX runs out; a holder of the key does not notice.
TTLExpires(k) ==
  /\ KeyExpires(k)
  /\ expired' = expired \cup {h \in Holder : InSection(h, k) /\ lockKey[k] = h}
  /\ UNCHANGED <<phase, want, attempt>>

\* The process of h dies: nothing releases its key before the ttl does.
HolderDies(h) ==
  /\ phase[h] # "idle"
  /\ phase' = [phase EXCEPT ![h] = "idle"]
  /\ UNCHANGED <<lockKey, want, attempt, expired>>

LockNext ==
  \/ \E h \in Holder :
       \/ \E k \in Key : AcquireInventoryLock(h, k)
       \/ AttemptSucceeds(h)
       \/ AttemptFails(h)
       \/ AttemptReplyLost(h)
       \/ Release(h)
       \/ HolderDies(h)
  \/ \E k \in Key : TTLExpires(k)

\* Fair: the loop keeps taking turns and Redis drops expired keys.  Not fair:
\* callers (they may never release), crashes, faults.
LockFairness ==
  /\ \A h \in Holder : WF_lockVars(AttemptSucceeds(h) \/ AttemptFails(h))
  /\ \A k \in Key : WF_lockVars(TTLExpires(k))

LockSpec == LockInit /\ [][LockNext]_lockVars /\ LockFairness

-----------------------------------------------------------------------------
(***************************************************************************)
(* Every variable keeps its type and the loop never runs past its bound.   *)
(***************************************************************************)
LockTypeOK ==
  /\ LockTableTypeOK
  /\ phase \in [Holder -> {"idle", "trying", "holding"}]
  /\ want \in [Holder -> Key]
  /\ attempt \in [Holder -> 0..Retries]
  /\ expired \in SUBSET Holder

(***************************************************************************)
(* Two callers are in the critical section of one key together only if     *)
(* Redis dropped the key of one of them first: neither a lost reply, nor a *)
(* dead holder, nor the release of an expired holder admits a second one.  *)
(***************************************************************************)
OverlapNeedsExpiry ==
  LockMode = "redis" =>
    \A k \in Key, g, h \in Holder :
      InSection(g, k) /\ InSection(h, k) /\ g \notin expired /\ h \notin expired
        => g = h

(***************************************************************************)
(* A caller that is still in its ttl owns its key: the strengthening of    *)
(* OverlapNeedsExpiry that every step preserves.                           *)
(***************************************************************************)
UnexpiredOwnsKey ==
  LockMode = "redis" =>
    \A h \in Holder :
      phase[h] = "holding" /\ h \notin expired => lockKey[want[h]] = h

(***************************************************************************)
(* The keys implement leases: nobody is let into a section in which a      *)
(* caller within its ttl still is, however keys expire, replies get lost,  *)
(* releases come late and holders die.  Without a client there is no lease.*)
(***************************************************************************)
Leases ==
  INSTANCE LeaseLock
    WITH Section <- Key, Caller <- Holder,
         inside <- {p \in Holder \X Key : InSection(p[1], p[2])},
         overrun <- {h \in expired : phase[h] = "holding"}

KeysAreLeases == Leases!Spec

(***************************************************************************)
(* Acquire returns: no caller spins in the retry loop for ever, whatever   *)
(* other holders, lost replies and failed commands do.                     *)
(***************************************************************************)
AcquireReturns == \A h \in Holder : phase[h] = "trying" ~> phase[h] # "trying"

=============================================================================
