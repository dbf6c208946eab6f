----------------------------- MODULE MCRedisLock -----------------------------
(* Model values and symmetry for RedisLock. *)
EXTENDS RedisLock, TLC

Callers == Permutations(Holder)

=============================================================================
