\* One run: Compose is set up in the last step of a job.
SPECIFICATION Spec
CONSTANTS
    Actions = {"actions/checkout", "docker/setup-compose-action"}
    SetupCompose = "docker/setup-compose-action"
    Compose = "docker/compose"
    Refs <- MCRefs
    Major <- MCMajor
    None = "none"
    Order <- MCOrder
    Texts <- MCTexts
    Released <- MCReleased
    Newest <- MCNewest
    Upcoming <- MCUpcoming
    Runs = 1
    Edits = 0
INVARIANTS
    OnlyActionPinsChange
