\* Two tasks, two units each, that share a pool of one connection.
CONSTANTS
    Tasks = {t1, t2}
    Units = 2
    PoolSize = 1
    None = None
SYMMETRY Symmetry
SPECIFICATION Spec
INVARIANTS
    TypeOK
    StatementsStayInOwnSession
    LeavingReleases
PROPERTIES
    ImplementsTransactions
