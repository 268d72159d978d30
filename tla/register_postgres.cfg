\* PostgreSQL: registrations race through the lookup and the unique indexes.
CONSTANTS
    n1 = n1
    n2 = n2
    s1 = s1
    s2 = s2
    s3 = s3
    Requests = {r1, r2, r3}
    Spellings = {s1, s2, s3}
    Names = {n1, n2}
    Emails = {e1, e2}
    None = None
    FileLock = FALSE
    normalize_username <- Normalized
SPECIFICATION FairSpec
INVARIANTS
    TypeOK
    UniqueUsers
    DuplicatesAreTranslated
    RefusedLeavesNothing
PROPERTIES
    ImplementsAccounts
    EveryRegistrationIsAnswered
