\* Three requests in two runs of the app, with one outage of the database.
CONSTANTS
    Requests = {r1, r2, r3}
    MaxRuns = 2
    MaxOutages = 1
SYMMETRY Symmetry
SPECIFICATION Spec
INVARIANTS
    TypeOK
    SessionsShareTheRunsEngine
    ShutdownReleases
    FailureHasCause
