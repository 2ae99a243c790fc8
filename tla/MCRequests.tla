------------------------------ MODULE MCRequests ------------------------------
(***************************************************************************)
(* Two components that requests race on, for TLC: the job registry and the *)
(* whitelist of one plugin.  They share no state, so nothing is learnt     *)
(* from their interleavings: a behaviour moves the one in focus and leaves *)
(* the other as it is at the start.                                        *)
(*                                                                         *)
(* Of the registry, two targets and two ids: enough for two jobs on one    *)
(* target, one after the other or at once, and for one job on each.  One   *)
(* tick of retention; updates with and without bytes.                      *)
(***************************************************************************)
EXTENDS Jobs, TLC

CONSTANTS Players, Malformed, Clients, Requested, Lossy

VARIABLES focus
VARIABLES list, core, installed, game, cvar, loaded, cache, client, missed, overlaps

whitelistVars == <<list, core, installed, game, cvar, loaded, cache, client, missed, overlaps>>

W == INSTANCE Whitelist WITH Ids <- Players, Ops <- Requested

ASSUME WhitelistAssumption ==
    W!MalformedAssumption /\ W!OpsAssumption /\ W!LossyAssumption

MCReports ==
    {[step |-> "extracting", bytes |-> 0, total |-> 0],
     [step |-> "downloading", bytes |-> 1, total |-> 2],
     [step |-> "downloading", bytes |-> 2, total |-> 2]}

\* The whitelist's requests are interchangeable, and so are players whose ids
\* are well formed.
Symmetry == Permutations(Clients) \union Permutations(Players \ Malformed)

RequestsInit ==
    /\ focus \in {"jobs", "whitelist"}
    /\ Init /\ W!Init
    /\ focus # "whitelist" => core = "none" /\ ~installed

RequestsNext ==
    /\ \/ focus = "jobs" /\ Next /\ UNCHANGED whitelistVars
       \/ focus = "whitelist" /\ W!Next /\ UNCHANGED vars
    /\ UNCHANGED focus

RequestsSpec == RequestsInit /\ [][RequestsNext]_<<focus, vars, whitelistVars>>

\* Whitelist: files that enforce the list never lock everyone out.
EnforcedNotEmpty == W!EnforcedNotEmpty

\* Whitelist: the plugin that runs follows its files.
PluginFollowsFiles == W!PluginFollowsFiles

\* Whitelist: adding players takes nobody off the list.
AppendOnlyAdds == W!AppendOnlyAdds
===============================================================================
