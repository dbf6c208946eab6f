SPECIFICATION Spec
CONSTANTS
    Requests = {r1}
    PoolSize = 3
    Enterprises = {"north"}
    Kinds = {"write", "enable", "verify", "disable"}
    RateLimit = 3
    QuotaLimit = 3
    Second = 2
    Horizon = 2
    MaxRequests = 3
    MaxFaults = 0
INVARIANT VerifyIsOpen
CHECK_DEADLOCK FALSE
