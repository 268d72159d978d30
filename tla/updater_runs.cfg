\* Two runs with any options over one dependency and one build requirement.
SPECIFICATION Spec
CONSTANTS
    Locked = {"sqlalchemy"}
    Build = {"uv_build"}
    MaxVersion = 3
    Specifiers <- MCSpecifiers
    FirstRelease = 2
    Runs = 2
    Edits = 1
INVARIANTS
    TypeOK
    CompletedRunLeavesCurrentLock
    BoundsFollowLock
PROPERTIES
    
    NeverLowersDependency
