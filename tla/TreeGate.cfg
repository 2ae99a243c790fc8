SPECIFICATION OverlapSpec
CONSTANTS
    Plugins <- TwoPlugins
    Requires <- TwoRequires
    Handlers = {h1, h2}
    Ops = {"update", "install", "sync", "uninstall"}
    Pending <- TwoPending
    AutoLoop = TRUE
INVARIANT UpdateAloneUnlessCrossed
PROPERTIES
    FlagIsLowered
    LockUnlessCrossed
