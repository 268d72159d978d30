\* SQLite: no row locks; three requests of two users, over the whole life of a session.
CONSTANTS
    Users = {u1, u2}
    Requests = {r1, r2, r3}
    None = None
    RowLocks = FALSE
    TTL = 2
    MaxTime = 2
SYMMETRY Symmetry
SPECIFICATION Spec
INVARIANTS
    SingleUse
    OnlyOwnerRevokes
    DoomedNeverSucceeds
