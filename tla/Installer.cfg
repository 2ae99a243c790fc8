SPECIFICATION Spec
CONSTANTS
    Plugins <- TwoEntries
    Requires <- TheirRequires
    Procs = {p1, p2}
    Ops = {"job", "sync", "uninstall"}
    Faults = {"resolve", "download", "extract", "post", "remove"}
SYMMETRY Alike
INVARIANT RowsAreTrue
PROPERTY DependenciesStayMet
