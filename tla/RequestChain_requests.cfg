SPECIFICATION Spec
CONSTANTS
    Requests = {r1, r2}
    PoolSize = 3
    Enterprises = {"north"}
    Kinds = {"write", "enable", "verify", "disable"}
    RateLimit = 1
    QuotaLimit = 2
    Second = 2
    Horizon = 2
    MaxRequests = 3
    MaxFaults = 1
INVARIANTS FreeConnsAreClean WithinRate QuotaHoldsInTurn
PROPERTIES RequestsAnswered
CHECK_DEADLOCK FALSE
