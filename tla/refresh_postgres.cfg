\* PostgreSQL: three requests of one user race over row locks, each scheduled fairly.
CONSTANTS
    Users = {u1}
    Requests = {r1, r2, r3}
    None = None
    RowLocks = TRUE
    TTL = 1
    MaxTime = 1
SPECIFICATION FairSpec
INVARIANTS
    TypeOK
    DeliveredTokenIsCurrentOrSpent
    RejectionHasCause
PROPERTIES
    RevokedRowIsFinal
    ImplementsLifecycle
    EveryRequestIsAnswered
