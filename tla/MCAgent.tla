------------------------------- MODULE MCAgent -------------------------------
(***************************************************************************)
(* The agent's long work, for TLC, in two parts: the passes of the auto    *)
(* loop beside the checks of the panel's button, and the plugins installed *)
(* at boot.  They share no state here: a behaviour moves the part in focus *)
(* and leaves the other as it is at the start.                             *)
(***************************************************************************)
EXTENDS Badge

CONSTANTS Plugins, Requires, Unknown, Asked, Events, Mishaps

VARIABLES focus
VARIABLES config, main, srv, agent, todo, failed, task, installed, seen, skipped

bootVars == <<config, main, srv, agent, todo, failed, task, installed, seen, skipped>>

\* An entry and its dependency, both asked for at boot, with an id that the
\* catalog no longer has.
TwoPlugins == {"metamod", "cssharp"}
TwoRequires == [metamod |-> {}, cssharp |-> {"metamod"}]
TwoAndUnknown == TwoPlugins \union Unknown

B == INSTANCE PendingPlugins WITH Faults <- Mishaps, file <- config, job <- task

ASSUME BootAssumption ==
    /\ Requires \in [Plugins -> SUBSET Plugins]
    /\ B!AskedAssumption /\ B!EventsAssumption /\ B!FaultsAssumption

AgentInit ==
    /\ focus \in {"update", "boot"}
    /\ BadgeInit /\ B!Init
    /\ focus # "update" => local = 1 /\ unit = "active"

AgentNext ==
    /\ \/ focus = "update" /\ BadgeNext /\ UNCHANGED bootVars
       \/ focus = "boot" /\ B!Next /\ UNCHANGED badgeVars
    /\ UNCHANGED focus

AgentSpec == AgentInit /\ [][AgentNext]_<<focus, badgeVars, bootVars>>

\* Updater: under its fairness, the loop catches up, and the server comes back.
UpdatesEnd == focus = "update" /\ Fairness /\ SteamFairness => CatchesUpAndComesBack

\* PendingPlugins: what was asked for is not lost, and under the fairness of the
\* driver and of its jobs the boot ends.
PendingIsServed == focus = "boot" /\ B!Fairness => B!PendingIsServed

\* PendingPlugins: one copy of the config does not undo the other's changes.
CopiesDoNotUndo == B!CopiesDoNotUndo
==============================================================================
