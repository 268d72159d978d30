\* Two runs over two workflows, with failing requests, publications, edits and aborts.
SPECIFICATION Spec
CONSTANTS
    Actions = {"actions/checkout", "docker/setup-compose-action"}
    SetupCompose = "docker/setup-compose-action"
    Compose = "docker/compose"
    Refs <- MCRefs
    Major <- MCMajor
    None = "none"
    Order <- MCOrder
    Texts <- MCTexts
    Released <- MCReleased
    Newest <- MCNewest
    Upcoming <- MCUpcoming
    Runs = 2
    Edits = 1
INVARIANTS
    TypeOK
    PinsAgree
