------------------------------ MODULE CapsCache ------------------------------
(***************************************************************************)
(* Whether the panel shows the Loadout tab: the cached answer to "is       *)
(* WeaponPaints installed".  weaponPaints reads the cache, asks the agent  *)
(* without the mutex and stores what it is told; an install that the agent *)
(* accepted and an uninstall that it finished reset the cache.             *)
(***************************************************************************)
EXTENDS Naturals

CONSTANTS
    Renders,    \* pages being rendered, each with its own goroutine
    TTL,        \* capsTTL
    Timeout     \* how long the agent client waits for an answer

AgesAssumption == TTL \in Nat /\ Timeout \in Nat

VARIABLES
    plugin,     \* the agent: is WeaponPaints installed, is a job installing it
    cache,      \* capsCache
    page,       \* the pages between get and put
    click,      \* the operator's request, between the agent's step and reset
    since       \* history: ticks since plugin.installed last changed, capped
vars == <<plugin, cache, page, click, since>>

\* late (history): stored by a fetch that was under way when the plugin was
\* removed or while a job installed it, or the operator's answer was lost.
Empty == [has |-> FALSE, installed |-> FALSE, age |-> 0, late |-> FALSE]
NoPage == [pc |-> "idle", installed |-> FALSE, age |-> 0, old |-> FALSE]

Init ==
    /\ plugin \in [installed : BOOLEAN, job : {FALSE}]
    /\ cache = Empty
    /\ page = [r \in Renders |-> NoPage]
    /\ click = "none"
    /\ since = TTL + Timeout + 1

(***************************************************************************)
(* A page                                                                  *)
(***************************************************************************)

\* get: what the cache answers, if it does.
Hit == cache.has /\ cache.age <= TTL

\* A page that hits shows cache.installed and changes nothing.
Miss(r) ==
    /\ page[r] = NoPage /\ ~Hit
    /\ page' = [page EXCEPT ![r] = [NoPage EXCEPT !.pc = "asking", !.old = plugin.job]]
    /\ UNCHANGED <<plugin, cache, click, since>>

\* The agent reads its plugin table.
Answer(r) ==
    /\ page[r].pc = "asking"
    /\ page' = [page EXCEPT ![r].pc = "answered", ![r].installed = plugin.installed]
    /\ UNCHANGED <<plugin, cache, click, since>>

put(r) ==
    /\ page[r].pc = "answered"
    /\ cache' = [has |-> TRUE, installed |-> page[r].installed, age |-> 0, late |-> page[r].old]
    /\ page' = [page EXCEPT ![r] = NoPage]
    /\ UNCHANGED <<plugin, click, since>>

\* The page has no tab, and nothing is stored.
FetchFails(r) ==
    /\ page[r].pc # "idle"
    /\ page' = [page EXCEPT ![r] = NoPage]
    /\ UNCHANGED <<plugin, cache, click, since>>

(***************************************************************************)
(* The operator and the agent's job                                        *)
(***************************************************************************)

\* Every fetch under way may be told of the plugin as it was before.
Outdated == [r \in Renders |-> [page[r] EXCEPT !.old = page[r].pc # "idle"]]

\* The job has begun when the panel hears of it, and ends some time later.
handlePluginInstall ==
    /\ click = "none" /\ ~plugin.job
    /\ plugin' = [plugin EXCEPT !.job = TRUE]
    /\ page' = Outdated
    /\ click' = "done"
    /\ UNCHANGED <<cache, since>>

JobEnds(ok) ==
    /\ plugin.job
    /\ plugin' = [installed |-> plugin.installed \/ ok, job |-> FALSE]
    /\ since' = IF plugin'.installed # plugin.installed THEN 0 ELSE since
    /\ UNCHANGED <<cache, page, click>>

\* The agent refuses while a job runs.
handlePluginUninstall ==
    /\ click = "none" /\ plugin.installed /\ ~plugin.job
    /\ plugin' = [plugin EXCEPT !.installed = FALSE]
    /\ page' = Outdated
    /\ click' = "done"
    /\ since' = 0
    /\ UNCHANGED cache

\* Mutant: the cache stays.
resetNothing ==
    /\ click = "done"
    /\ click' = "none"
    /\ UNCHANGED <<plugin, cache, page, since>>

reset ==
    /\ click = "done"
    /\ cache' = [cache EXCEPT !.has = FALSE]
    /\ click' = "none"
    /\ UNCHANGED <<plugin, page, since>>

\* The agent's answer does not reach the panel: no reset.
AnswerLost ==
    /\ click = "done"
    /\ cache' = [cache EXCEPT !.late = TRUE]
    /\ click' = "none"
    /\ UNCHANGED <<plugin, page, since>>

\* A fetch that has lasted Timeout has ended before the clock moves on, and so
\* has a click.
Tick ==
    /\ \A r \in Renders : page[r].age < Timeout
    /\ click = "none"
    /\ cache' = [cache EXCEPT !.age = IF @ > TTL THEN @ ELSE @ + 1]
    /\ page' = [r \in Renders |->
                  IF page[r].pc = "idle" THEN NoPage ELSE [page[r] EXCEPT !.age = @ + 1]]
    /\ since' = IF since > TTL + Timeout THEN since ELSE since + 1
    /\ UNCHANGED <<plugin, click>>

Next ==
    \/ Tick \/ handlePluginInstall \/ handlePluginUninstall \/ reset \/ AnswerLost
    \/ \E ok \in BOOLEAN : JobEnds(ok)
    \/ \E r \in Renders : Miss(r) \/ Answer(r) \/ put(r) \/ FetchFails(r)

Spec == Init /\ [][Next]_vars

(***************************************************************************)
(* Properties                                                              *)
(***************************************************************************)

\* A page that trusts the cache shows what the agent has, or had until less
\* than TTL and one fetch ago: a fetch may begin before a change and be stored
\* after it, with its age counted from there (capsTTL, get and put).
StaleOnlyBriefly ==
    Hit /\ cache.installed # plugin.installed => since <= TTL + Timeout

\* Once the operator's click is answered, the tab follows the plugin: it is gone
\* after an uninstall, and there after an install ("dropping the caps cache now
\* means the tab follows the finished job instead of a stale answer",
\* handlePluginInstall).  But what is dropped is dropped when the job begins: a
\* page that asks while the job runs stores "not installed" again, and then all
\* that holds is StaleOnlyBriefly.
ResetIsFollowed ==
    Hit /\ cache.installed # plugin.installed /\ click = "none" => cache.late

\* The Loadout tab follows the plugin, in both senses.
TabFollowsPlugin == StaleOnlyBriefly /\ ResetIsFollowed

==============================================================================
