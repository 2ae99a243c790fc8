------------------------------- MODULE MCParts -------------------------------
(***************************************************************************)
(* The components with few states, for TLC.  Of the panel: its sessions,   *)
(* accounts, sign-in throttle, loadouts and what it remembers of plugins;  *)
(* of the agent: a query of the game, a download, what installs leave in   *)
(* the game tree, and the writing of one file.  They share no state: a     *)
(* behaviour moves the component in focus and leaves the others as they    *)
(* are at the start.                                                       *)
(***************************************************************************)
EXTENDS Sessions, TLC

CONSTANTS Users, Changes, Ops
CONSTANTS Addrs, Usernames, Threshold, Window, Forgotten, MaxKeys, MaxTime, MaxInFlight
CONSTANTS Renders, TTL, Timeout
CONSTANTS Clients, Forms, Cosmetics, Sync, MaxSaves
CONSTANTS Calls, Splits, Losses, MaxRows, MaxReplies, MaxCopies, MaxFragments
CONSTANTS Urls, FetchAttempts, Sizes, Cap
CONSTANTS Entries, Wrapped
CONSTANTS Writers, Meddlings

VARIABLES focus
VARIABLES role, token, change
VARIABLES clock, fail, hashing, wrong
VARIABLES plugin, cache, page, click, since
VARIABLES meta, wp, client, saves, applied
VARIABLES pc, call, tries, id, total, got, res, expired, replies, asked, net, copies
VARIABLES at, url, attempt, file, sent, declared, cancelled, size, path, faults
VARIABLES files, dirs, rows, gameinfo, torn
VARIABLES target, step, keep, perm, temp, meddlings, spoiled

accountVars == <<role, token, change>>
throttleVars == <<clock, fail, hashing, wrong>>
capsVars == <<plugin, cache, page, click, since>>
loadoutVars == <<meta, wp, client, saves, applied>>
queryVars == <<pc, call, tries, id, total, got, res, expired, replies, asked, net, copies>>
fetchVars == <<at, url, attempt, file, sent, declared, cancelled, size, path, faults>>
treeVars == <<files, dirs, rows, gameinfo, torn>>
fileVars == <<target, step, keep, perm, temp, meddlings, spoiled>>

A == INSTANCE Accounts WITH Requests <- Changes, req <- change
T == INSTANCE Throttle WITH Users <- Usernames, Idle <- Forgotten, now <- clock
C == INSTANCE CapsCache
L == INSTANCE Loadout WITH Catalog <- Cosmetics
Q == INSTANCE A2S
D == INSTANCE Fetch
P == INSTANCE PluginFiles
W == INSTANCE AtomicFile

ASSUME ConstantsAssumption ==
    /\ A!OpsAssumption /\ T!ThrottleAssumption /\ C!AgesAssumption
    /\ L!FormsAssumption /\ Q!A2SAssumption /\ D!FetchAssumption /\ W!WritersAssumption

\* The two queries of the status page; split replies of two and three
\* fragments, one with an id whose first byte is that of a challenge.
TwoQueries == <<"info", "players">>
SomeSplits == {<<2, "plain">>, <<2, "A">>, <<2, "compressed">>, <<3, "plain">>}

\* A pick of every kind and one that clears it, a skin that is not in the
\* catalog, gloves that are malformed, and a page that got no catalog.
Form(knife, gloves, agent, skinsT, skinsCT) ==
    [knife |-> [t |-> knife, ct |-> "default"], gloves |-> [t |-> gloves, ct |-> <<>>],
     agent |-> [t |-> agent, ct |-> ""], skins |-> [t |-> skinsT, ct |-> skinsCT]]
NoSkinField == [w \in {} |-> ""]
SomeForms ==
    {Form("karambit", <<>>, "", "7" :> "421", "60" :> "77"),
     Form("default", <<>>, "agent", "7" :> "" @@ "60" :> "77", NoSkinField),
     Form("default", <<"5032", "10010">>, "", NoSkinField, NoSkinField),
     [Form("karambit", <<"5030", "0">>, "", "7" :> "9999", "60" :> "")
        EXCEPT !.gloves["ct"] = <<"5032x">>]}
SomeCatalog == {<<"7", "421">>, <<"60", "77">>}

Parts == {"session", "account", "throttle", "caps", "loadout", "query", "fetch", "tree", "write"}

PartsInit ==
    /\ focus \in Parts
    /\ Init /\ A!Init /\ T!Init /\ C!Init /\ L!Init /\ Q!Init /\ D!Init /\ P!Init /\ W!Init
    /\ focus # "caps" => ~plugin.installed
    /\ focus # "fetch" => path = "fine" /\ size = (CHOOSE n \in Sizes : TRUE)
    /\ focus # "write" => keep = {} /\ target = W!Missing

PartsNext ==
    /\ \/ focus = "session" /\ Next
       \/ focus # "session" /\ UNCHANGED <<vars>>
    /\ \/ focus = "account" /\ A!Next
       \/ focus # "account" /\ UNCHANGED accountVars
    /\ \/ focus = "throttle" /\ T!Next
       \/ focus # "throttle" /\ UNCHANGED throttleVars
    /\ \/ focus = "caps" /\ C!Next
       \/ focus # "caps" /\ UNCHANGED capsVars
    /\ \/ focus = "loadout" /\ L!Next
       \/ focus # "loadout" /\ UNCHANGED loadoutVars
    /\ \/ focus = "query" /\ Q!Next
       \/ focus # "query" /\ UNCHANGED queryVars
    /\ \/ focus = "fetch" /\ D!Next
       \/ focus # "fetch" /\ UNCHANGED fetchVars
    /\ \/ focus = "tree" /\ P!Next
       \/ focus # "tree" /\ UNCHANGED treeVars
    /\ \/ focus = "write" /\ W!Next
       \/ focus # "write" /\ UNCHANGED fileVars
    /\ UNCHANGED focus

PartsSpec ==
    /\ PartsInit
    /\ [][PartsNext]_<<focus, vars, accountVars, throttleVars, capsVars, loadoutVars, queryVars,
                       fetchVars, treeVars, fileVars>>
    /\ focus = "query" => Q!Fairness

\* Accounts: an administrator remains, and nobody comes back.
AccountsHold == A!AccountsHold

\* Throttle: wrong passwords are bounded in every stretch of time.
GuessesAreBounded == T!GuessesAreBounded

\* CapsCache: the Loadout tab follows the plugin.
TabFollowsPlugin == C!TabFollowsPlugin

\* Loadout: what was saved is what the game reads.
SavedApplies == L!SavedApplies

\* A2S: an answer is one whole reply of the server.
WholeReply == Q!WholeReply

\* A2S: the queries return.
QueriesReturn == focus = "query" => Q!QueriesReturn

\* Fetch: a download leaves one whole body, also over a path that breaks HTTP/2.
DownloadIsWhole == D!DownloadIsWhole

\* PluginFiles: what is recorded as installed is where it is looked for, and is
\* the game's.
InstalledIsThere == P!InstalledIsThere

\* PluginFiles: an uninstall takes its entry's files, all of them and no other.
UninstallIsExact == P!UninstallIsExact

\* AtomicFile: the game never finds a part of a file, or one that it may not
\* read.
GameReadsTheFile == W!GameReadsTheFile
==============================================================================
