\* Two clients who press "update", and nothing else.
SPECIFICATION OverlapSpec
CONSTANTS
    Plugins <- TwoPlugins
    Requires <- TwoRequires
    Handlers = {h1, h2}
    Ops = {"update"}
    Pending <- NoPending
    AutoLoop = FALSE
INVARIANT FlagCoversUpdate
