\* Two requests on server.cfg with one edit, which may double the whole file, and
\* one boot; two operators with three map changes; two operators with two buttons
\* and five polls.
SPECIFICATION ServerSpec
CONSTANTS
    Clients = {c1, c2}
    Values <- MCValues
    InitialFiles <- MCFiles
    Ops = {"save", "password", "repair"}
    MaxRequests = 2
    MaxEdits = 1
    MaxBoots = 1
    MaxLines = 12
    Installed = {"de_dust2", "de_mirage"}
    Foreign = {"no_such_map"}
    Workshop = {"3070284539"}
    DefaultMap = "de_dust2"
    MaxChanges = 3
    Settle = 2
    Window = 8
    Burst = 3
    LoopRestarts = 2
    RestartDelays = {0, 2}
    MaxTime = 5
    MaxPresses = 2
SYMMETRY Symmetry
INVARIANTS GameFollowsFile MapSurvivesRestart ButtonsAnswerTruly
PROPERTY FileIsKept
CHECK_DEADLOCK FALSE
