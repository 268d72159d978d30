\* One run whose lookups may miss the page with the current tag.
SPECIFICATION Spec
CONSTANTS
    Tags <- MCTags
    PythonRuntimes = {"python"}
    PythonPrefixes = {"python", "python-"}
    Latest = "latest"
    None = "none"
    Parsed <- MCParsed
    EndsWith <- MCEndsWith
    Surround <- MCSurround
    Repositories <- MCRepositories
    Pathed = {"edoburu/pgbouncer", "valkey/valkey"}
    Skipped <- MCSkipped
    Definitions = {"docker-compose.yaml"}
    Documents = {"README.md", "docker-services.md"}
    Order <- MCOrder
    Longer <- MCLonger
    Published <- MCPublished
    Upcoming <- MCUpcoming
    InitialRefs <- MCInitialRefs
    Runs = 1
    MaxPages = 2
INVARIANTS
    NeverDowngrades
