\* SQLite: get_by_token_hash loads a session and does not lock it.
CONSTANTS
    Users = {u1}
    Requests = {r1, r2, r3}
    None = None
    RowLocks = FALSE
    TTL = 1
    MaxTime = 1
SYMMETRY Symmetry
SPECIFICATION Spec
PROPERTY
    LoadedSessionIsLocked
