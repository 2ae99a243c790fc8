\* The loop and the check of the button, up to Steam's third build, with one
\* player.  A boot with an entry, its dependency and an unknown id.
SPECIFICATION AgentSpec
CONSTANTS
    Actors = {"auto", "check"}
    Posts = {}
    AutoUpdate = TRUE
    MaxBuild = 3
    MaxPlayers = 1
    Faults = {"app_info", "app_update", "players", "rcon"}
    Plugins <- TwoPlugins
    Requires <- TwoRequires
    Unknown = {"retired"}
    Asked <- TwoAndUnknown
    Events = {"panel", "uninstall", "repair"}
    Mishaps = {"install", "persist", "kill"}
INVARIANT BadgeIsTrue
PROPERTIES
    UpdatesEnd
    PendingIsServed
    CopiesDoNotUndo
