\* Two ids on two targets; two requests on the whitelist of two players and a
\* typing error.
SPECIFICATION RequestsSpec
CONSTANTS
    Targets = {t1, t2}
    Ids = {i1, i2}
    Steps = {"", "starting", "extracting", "downloading"}
    Reports <- MCReports
    Retain = 1
    Players = {alice, bob, typo}
    Malformed = {typo}
    Clients = {c1, c2}
    Requested = {"append", "remove", "toggle", "install"}
    Lossy = TRUE
SYMMETRY Symmetry
INVARIANTS
    TypeOK
    OneBodyPerTarget
    WorkIsListed
    ProgressIsTrue
    EnforcedNotEmpty
    PluginFollowsFiles
PROPERTIES
    ImplementsKeyedLock
    AppendOnlyAdds
