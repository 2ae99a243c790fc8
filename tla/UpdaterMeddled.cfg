SPECIFICATION Spec
SYMMETRY PostSymmetry
CONSTANTS
    Actors = {"auto", "job", "check"}
    Posts = {p1, p2}
    AutoUpdate = TRUE
    MaxBuild = 2
    MaxPlayers = 1
    Faults = {"app_info", "app_update", "stop", "start", "game", "agent", "operator", "players"}
INVARIANTS
    DownOnlyWhileWriting
    SuccessIsInstalled
    FlagIsHonest
PROPERTY StartsOnlyWhatItStopped
CONSTRAINT FewAtOnce
