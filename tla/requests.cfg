\* Two requests behind the limits, while tokens expire and users change.
CONSTANTS
    u1 = u1
    u2 = u2
    Users = {u1, u2}
    Requests = {r1, r2}
    None = None
    Issued = Issued
    Inputs <- MCInputs
    Canonical <- MCCanonical
    Foreign <- MCForeign
    Trusted = TRUE
    Burst = 1
    AccessTTL = 1
    MaxTime = 1
    MaxChanges = 1
SYMMETRY Symmetry
SPECIFICATION Spec
INVARIANTS
    TypeOK
    QuotaHolds
    LimitedHasCause
    DataOnlyWhenEntitled
    RefusalHasCause
