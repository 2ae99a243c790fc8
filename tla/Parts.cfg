\* Sessions: two requests, three ticks more than the cap.  Accounts: three ids,
\* two requests.  Throttle: two addresses on one account, two places in the
\* map.  CapsCache: two pages.  Loadout: two tabs, three saves.  A2S: two
\* queries, three replies.  Fetch: two mirrors of three attempts.  PluginFiles:
\* the five shapes of entries.  AtomicFile: two writers of one file.
SPECIFICATION PartsSpec
CONSTANTS
    Requests = {r1, r2}
    Idle = 5
    Touch = 2
    MaxAge = 8
    Horizon = 11
    Users = {u1, u2, u3}
    Changes = {r1, r2}
    Ops = {"role", "delete"}
    Addrs = {a1, a2}
    Usernames = {u1}
    Threshold = 2
    Window = 2
    Forgotten = 3
    MaxKeys = 2
    MaxTime = 5
    MaxInFlight = 2
    Renders = {r1, r2}
    TTL = 2
    Timeout = 1
    Clients = {r1, r2}
    Forms <- SomeForms
    Cosmetics <- SomeCatalog
    Sync = TRUE
    MaxSaves = 3
    Calls <- TwoQueries
    Splits <- SomeSplits
    Losses = {0, 3}
    MaxRows = 1
    MaxReplies = 3
    MaxCopies = 1
    MaxFragments = 2
    Urls = 2
    FetchAttempts = 3
    Sizes = {2, 3}
    Cap = 2
    Entries = {"metamod", "cssharp", "weaponpaints", "deathmatch", "cs2fixes"}
    Wrapped = {"metamod", "cssharp", "cs2fixes"}
    Writers = {w1, w2}
    Meddlings = 1
INVARIANTS
    StaysSignedIn
    GuessesAreBounded
    TabFollowsPlugin
    SavedApplies
    WholeReply
    DownloadIsWhole
    InstalledIsThere
    GameReadsTheFile
PROPERTIES
    SessionEnds
    AccountsHold
    QueriesReturn
    UninstallIsExact
CHECK_DEADLOCK FALSE
