------------------------------ MODULE LockTable ------------------------------
(***************************************************************************)
(* The table of Redis keys that src/api/pkg/redis/lock.go uses as mutual   *)
(* exclusion locks, seen as the rest of the API sees it: one value per     *)
(* key, SET NX EX to take it, a compare-and-delete script to give it back, *)
(* and a time to live after which Redis drops the key whoever holds it.    *)
(*                                                                         *)
(* The random value NewDistributedLock draws is abstracted to the identity *)
(* of the acquisition that wrote it: two acquisitions never share a value. *)
(***************************************************************************)
CONSTANTS
  Key,          \* lock keys: inv_lock:<warehouse>:<material>
  Holder,       \* acquisitions: whoever may own a key
  NoHolder,     \* the key does not exist
  Orphan,       \* the value of an acquisition that lost track of its key
  LockMode,     \* how the process was started: see LockModes
  RedisFaults   \* TRUE: commands may fail or their replies may be lost

VARIABLE lockKey   \* the value stored under each key

(***************************************************************************)
(* "redis"       a client and a provider exist                             *)
(* "nilclient"   a provider around a nil client: Acquire skips the lock    *)
(* "nilprovider" the router started without Redis and built no provider    *)
(***************************************************************************)
LockModes == {"redis", "nilclient", "nilprovider"}

LockTableInit == lockKey = [k \in Key |-> NoHolder]

LockTableTypeOK == lockKey \in [Key -> Holder \cup {NoHolder, Orphan}]

Free(k) == lockKey[k] = NoHolder

\* SET key value NX EX ttl that succeeds.
SetNX(h, k) ==
  /\ Free(k)
  /\ lockKey' = [lockKey EXCEPT ![k] = h]

\* Acquire answers true.
Granted(h, k) ==
  \/ LockMode = "redis" /\ SetNX(h, k)
  \/ LockMode = "nilclient" /\ UNCHANGED lockKey

\* Acquire answers false: its last attempt found the key taken, or failed.
Refused(k) ==
  /\ LockMode = "redis"
  /\ ~ Free(k) \/ RedisFaults
  /\ UNCHANGED lockKey

\* An attempt sets the key but its reply is lost: the caller goes on trying,
\* and is refused by its own key until that expires.
ReplyLost(k) ==
  /\ LockMode = "redis"
  /\ RedisFaults
  /\ SetNX(Orphan, k)

\* Defect: DEL without comparing the value.
UnlockAny(h, k) == lockKey' = [lockKey EXCEPT ![k] = NoHolder]

\* The unlock script: delete the key only while it still holds our value.
Unlock(h, k) ==
  lockKey' = [lockKey EXCEPT ![k] = IF @ = h THEN NoHolder ELSE @]

\* Release: the script, or with faults a call that never reached Redis and
\* leaves a key that nobody will release.
Released(h, k) ==
  \/ Unlock(h, k)
  \/ /\ RedisFaults
     /\ lockKey' = [lockKey EXCEPT ![k] = IF @ = h THEN Orphan ELSE @]

\* The time to live of a key runs out.
KeyExpires(k) ==
  /\ ~ Free(k)
  /\ lockKey' = [lockKey EXCEPT ![k] = NoHolder]

=============================================================================
