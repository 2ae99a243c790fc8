------------------------------ MODULE Whitelist ------------------------------
(***************************************************************************)
(* The whitelist: who may join, and whether that is enforced.              *)
(*                                                                         *)
(* Both facts are kept twice.  On disk, whitelist.txt holds the list and   *)
(* core.cfg the switch; the running plugin (external) holds a copy of the  *)
(* list, a cvar for the switch and a cache of the decisions it made on     *)
(* this map.  The agent (internal/agent/whitelist.go) writes the files and *)
(* then nudges the plugin over RCON, best effort; the panel                *)
(* (internal/panel/pages.go) edits the list by reading it and putting it   *)
(* back.  Nothing serialises the requests.                                 *)
(***************************************************************************)
EXTENDS Naturals, FiniteSets

CONSTANTS
    Ids,        \* SteamIDs that players have and operators enter
    Malformed,  \* those of them that NormalizeSteamID refuses
    Clients,    \* requests that can be in progress at once
    Ops,        \* what they ask: "append", "remove", "toggle", "install"
    Lossy       \* may an RCON command fail while the game runs?

MalformedAssumption == Malformed \subseteq Ids
OpsAssumption == Ops \subseteq {"append", "remove", "toggle", "install"}
LossyAssumption == Lossy \in BOOLEAN

VARIABLES
    list,       \* whitelist.txt; a missing file reads as empty
    core,       \* the Enable key of core.cfg, which may be missing, or the file
    installed,  \* are the plugin's files in the game tree?
    game,       \* "down", "bare" (up without the plugin) or "plugin"
    cvar,       \* mm_whitelist_enable
    loaded,     \* the list in the plugin's memory
    cache,      \* its decisions on this map
    client,     \* the requests
    missed,     \* history: did a command fail to reach the plugin that runs?
    overlaps    \* history: which requests were in progress at once

vars == <<list, core, installed, game, cvar, loaded, cache, client, missed, overlaps>>
files == <<list, core>>
live == <<game, cvar, loaded, cache, missed>>

RequestSteps == {"idle", "put", "write", "reload", "set", "flip", "push", "clear", "stat", "create"}
Nobody == [i \in Ids |-> "none"]
Idle == [pc |-> "idle", op |-> "none", want |-> {}, on |-> FALSE]

TypeOK ==
    /\ list \subseteq Ids \ Malformed
    /\ core \in {"none", "keyless", "off", "on"}
    /\ installed \in BOOLEAN
    /\ game \in {"down", "bare", "plugin"}
    /\ cvar \in BOOLEAN
    /\ loaded \subseteq Ids
    /\ cache \in [Ids -> {"none", "allow", "reject"}]
    /\ client \in [Clients -> [pc : RequestSteps, op : Ops \union {"none"}, want : SUBSET Ids, on : BOOLEAN]]
    /\ missed \in BOOLEAN
    /\ overlaps \subseteq {"lockout", "switches", "lists"}

\* A server that the whitelist was never used on; core.cfg may be the
\* operator's own, also one without the key.
Init ==
    /\ list = {}
    /\ core \in {"none", "keyless", "off"}
    /\ installed \in BOOLEAN
    /\ game = "down"
    /\ cvar = FALSE
    /\ loaded = {}
    /\ cache = Nobody
    /\ client = [c \in Clients |-> Idle]
    /\ missed = FALSE
    /\ overlaps = {}

At(c, pc) == client[c].pc = pc
Goto(c, pc) == client' = [client EXCEPT ![c].pc = pc] /\ UNCHANGED overlaps
Return(c) == client' = [client EXCEPT ![c] = Idle] /\ UNCHANGED overlaps

\* What two requests in progress at once may do to each other: a removal and a
\* toggle bring about what both refuse, two writers of core.cfg settle it in
\* one order and the cvar in another, an addition overwrites another edit.
Conflicts(op, other) ==
    (IF {op, other} = {"remove", "toggle"} THEN {"lockout"} ELSE {})
    \union (IF {op, other} \subseteq {"toggle", "install"} THEN {"switches"} ELSE {})
    \union (IF {op, other} \subseteq {"append", "remove"} THEN {"lists"} ELSE {})

Begin(c, op, pc, want, on) ==
    /\ op \in Ops
    /\ At(c, "idle")
    /\ client' = [client EXCEPT ![c] = [pc |-> pc, op |-> op, want |-> want, on |-> on]]
    /\ overlaps' = overlaps \union UNION {Conflicts(op, client[d].op) : d \in Clients}

------------------------------------------------------------------------------
(***************************************************************************)
(* Changing the list.                                                      *)
(***************************************************************************)

\* mutant: what was entered is the list, as it once was
AppendReplaces(c, ids) ==
    /\ ids # {}
    /\ ~(ids \subseteq list)
    /\ Begin(c, "append", "put", ids, FALSE)
    /\ UNCHANGED <<files, installed, live>>

\* The panel reads the list and asks the agent to store a larger one ...
Append(c, ids) ==
    /\ ids # {}
    /\ ~(ids \subseteq list)
    /\ Begin(c, "append", "put", list \union ids, FALSE)
    /\ UNCHANGED <<files, installed, live>>

\* ... or a smaller one.
Remove(c, id) ==
    /\ id \in list
    /\ Begin(c, "remove", "put", list \ {id}, FALSE)
    /\ UNCHANGED <<files, installed, live>>

\* mutant: the empty list is not refused
ApplyUnchecked(c) ==
    /\ At(c, "put")
    /\ client[c].want \intersect Malformed = {}
    /\ Goto(c, "write")
    /\ UNCHANGED <<files, installed, live>>

\* Apply: one malformed entry refuses the whole list, and an empty list is
\* refused while the switch in core.cfg is on.
ApplyRefused(c) ==
    /\ At(c, "put")
    /\ \/ client[c].want \intersect Malformed # {}
       \/ client[c].want = {} /\ core = "on"
    /\ Return(c)
    /\ UNCHANGED <<files, installed, live>>

ApplyChecked(c) ==
    /\ At(c, "put")
    /\ client[c].want \intersect Malformed = {}
    /\ client[c].want = {} => core # "on"
    /\ Goto(c, "write")
    /\ UNCHANGED <<files, installed, live>>

ApplyWrites(c) ==
    /\ At(c, "write")
    /\ list' = client[c].want
    /\ Goto(c, "reload")
    /\ UNCHANGED <<core, installed, live>>

\* A command that reaches the plugin; or not, and nobody is told.
Delivered == game = "plugin" /\ UNCHANGED missed
Dropped ==
    /\ Lossy \/ game # "plugin"
    /\ missed' = (missed \/ game = "plugin")

\* ReloadLive, its first command.
Reload(c) ==
    /\ At(c, "reload")
    /\ \/ Delivered /\ loaded' = list
       \/ Dropped /\ UNCHANGED loaded
    /\ Goto(c, "clear")
    /\ UNCHANGED <<files, installed, game, cvar, cache>>

\* The last command of ReloadLive and of PushLive.
ClearCache(c) ==
    /\ At(c, "clear")
    /\ \/ Delivered /\ cache' = Nobody
       \/ Dropped /\ UNCHANGED cache
    /\ Return(c)
    /\ UNCHANGED <<files, installed, game, cvar, loaded>>

------------------------------------------------------------------------------
(***************************************************************************)
(* The switch.                                                             *)
(***************************************************************************)

\* The panel refuses to enforce a list that it reads as empty.
Toggle(c, on) ==
    /\ on => list # {}
    /\ Begin(c, "toggle", "set", {}, on)
    /\ UNCHANGED <<files, installed, live>>

\* SetEnabled: so does the agent, which reads it again.
SetEnabledChecked(c) ==
    /\ At(c, "set")
    /\ client[c].on => list # {}
    /\ Goto(c, "flip")
    /\ UNCHANGED <<files, installed, live>>

SetEnabledRefused(c) ==
    /\ \/ At(c, "set") /\ client[c].on /\ list = {}
       \/ At(c, "flip") /\ core = "keyless"
    /\ Return(c)
    /\ UNCHANGED <<files, installed, live>>

SetEnabledWrites(c) ==
    /\ At(c, "flip")
    /\ core # "keyless"
    /\ core' = IF client[c].on THEN "on" ELSE "off"
    /\ Goto(c, "push")
    /\ UNCHANGED <<list, installed, live>>

\* mutant: switching off is left to the next start
PushOnlyOn(c) ==
    /\ At(c, "push")
    /\ \/ Delivered /\ cvar' = (client[c].on \/ cvar)
       \/ Dropped /\ UNCHANGED cvar
    /\ Goto(c, "clear")
    /\ UNCHANGED <<files, installed, game, loaded, cache>>

\* PushLive, its first command.
Push(c) ==
    /\ At(c, "push")
    /\ \/ Delivered /\ cvar' = client[c].on
       \/ Dropped /\ UNCHANGED cvar
    /\ Goto(c, "clear")
    /\ UNCHANGED <<files, installed, game, loaded, cache>>

------------------------------------------------------------------------------
(***************************************************************************)
(* The plugin's install: its files, then writeWhitelistCoreCFG.            *)
(***************************************************************************)

Extract(c) ==
    /\ Begin(c, "install", "stat", {}, FALSE)
    /\ installed' = TRUE
    /\ UNCHANGED <<files, live>>

ConfigExists(c) ==
    /\ At(c, "stat")
    /\ core # "none"
    /\ Return(c)
    /\ UNCHANGED <<files, installed, live>>

ConfigMissing(c) ==
    /\ At(c, "stat")
    /\ core = "none"
    /\ Goto(c, "create")
    /\ UNCHANGED <<files, installed, live>>

\* Enforcement starts off.
WriteConfig(c) ==
    /\ At(c, "create")
    /\ core' = "off"
    /\ Return(c)
    /\ UNCHANGED <<list, installed, live>>

------------------------------------------------------------------------------
(***************************************************************************)
(* The game server and the plugin, as the comments of whitelist.go have    *)
(* them: core.cfg is read when the plugin loads, the list on every map.    *)
(***************************************************************************)

Boots ==
    /\ game = "down"
    /\ game' = IF installed THEN "plugin" ELSE "bare"
    /\ cvar' = (installed /\ core = "on")
    /\ loaded' = IF installed THEN list ELSE {}
    /\ cache' = Nobody
    /\ missed' = FALSE
    /\ UNCHANGED <<files, installed, client, overlaps>>

Stops ==
    /\ game # "down"
    /\ game' = "down"
    /\ cvar' = FALSE
    /\ loaded' = {}
    /\ cache' = Nobody
    /\ missed' = FALSE
    /\ UNCHANGED <<files, installed, client, overlaps>>

MapChanges ==
    /\ game = "plugin"
    /\ loaded' = list
    /\ cache' = Nobody
    /\ UNCHANGED <<files, installed, game, cvar, client, missed, overlaps>>

Verdict(i) == IF cvar /\ i \notin loaded THEN "reject" ELSE "allow"

\* Somebody connects, and the first answer is remembered.
Connects(i) ==
    /\ game = "plugin"
    /\ cache[i] = "none"
    /\ cache' = [cache EXCEPT ![i] = Verdict(i)]
    /\ UNCHANGED <<files, installed, game, cvar, loaded, client, missed, overlaps>>

------------------------------------------------------------------------------
Agent(c) ==
    \/ ApplyRefused(c) \/ ApplyChecked(c) \/ ApplyWrites(c) \/ Reload(c) \/ ClearCache(c)
    \/ SetEnabledChecked(c) \/ SetEnabledRefused(c) \/ SetEnabledWrites(c) \/ Push(c)
    \/ ConfigExists(c) \/ ConfigMissing(c) \/ WriteConfig(c)

Panel(c) ==
    \/ \E ids \in SUBSET Ids : Append(c, ids)
    \/ \E id \in Ids : Remove(c, id)
    \/ \E on \in BOOLEAN : Toggle(c, on)
    \/ Extract(c)

Game == Boots \/ Stops \/ MapChanges \/ \E i \in Ids \ Malformed : Connects(i)

Next == Game \/ \E c \in Clients : Agent(c) \/ Panel(c)

Spec == Init /\ [][Next]_vars

------------------------------------------------------------------------------
(***************************************************************************)
(* Properties.                                                             *)
(***************************************************************************)

\* core.cfg never enforces an empty whitelist.txt: both Apply and SetEnabled
\* refuse to bring that about, each by reading the other's file first.  The one
\* way around both is a removal while a toggle is in progress.
EnforcedNotEmpty == "lockout" \notin overlaps => (core = "on" => list # {})

AtRest == game = "plugin" /\ \A c \in Clients : At(c, "idle")

\* Once every request is answered the switch in core.cfg and the live one
\* agree, whatever restarts happened on the way, unless RCON lost a command or
\* two requests wrote core.cfg at once.
SwitchesAgree == AtRest /\ ~missed /\ "switches" \notin overlaps => cvar = (core = "on")

\* And the plugin decides by the stored list: it holds that list, and no
\* remembered decision differs from the one it would make now, also when
\* requests ran side by side.
DecisionsAreCurrent ==
    AtRest /\ ~missed =>
        /\ loaded = list
        /\ \A i \in Ids : cache[i] \in {"none", Verdict(i)}

\* Adding players takes nobody off the list ("appending can only add"), unless
\* the list is edited from two places at once.
AppendOnlyAdds ==
    [][\A c \in Clients :
         At(c, "write") /\ client[c].op = "append" /\ list' # list /\ "lists" \notin overlaps
             => list \subseteq list']_vars

\* At rest the plugin that runs follows the files: its switch, its list and
\* what it has decided about players.
PluginFollowsFiles == SwitchesAgree /\ DecisionsAreCurrent

==============================================================================
