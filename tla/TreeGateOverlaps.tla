-------------------------- MODULE TreeGateOverlaps --------------------------
(***************************************************************************)
(* TreeGate with a history variable, which the code does not have: have    *)
(* two parties that do not look out for each other been under way at once  *)
(* since the last time that nothing was?  What the guards promise, they    *)
(* promise of every run in which that has not happened.                    *)
(***************************************************************************)
EXTENDS TreeGate

VARIABLE crossed

\* Two requests between their guards and their work, one of them an update: a
\* guard reads before the other request has done what the guard looks for.
RequestsCross ==
    \E g, h \in Handlers :
        /\ g # h
        /\ handler[g].pc \in {"read_jobs", "raise", "start", "lower"}
        /\ handler[h].pc # "idle"

\* The driver starts its jobs without reading the flag.
DriverCrosses ==
    /\ driver.todo # << >> \/ driver.waits # {}
    /\ updating \/ \E h \in Handlers : handler[h].pc \in {"read_jobs", "raise", "start", "lower"}

\* The loop reads the flag before its check, and no registry at all.
AutoCrosses ==
    /\ auto # "asleep"
    /\ RunningTargets # {} \/ \E h \in Handlers : handler[h].pc # "idle"

AtRest ==
    /\ RunningTargets = {} /\ auto = "asleep"
    /\ \A h \in Handlers : handler[h].pc = "idle"

Crossing == RequestsCross \/ DriverCrosses \/ AutoCrosses

OverlapInit == crossed = FALSE /\ Init

OverlapNext == Next /\ crossed' = (Crossing' \/ (crossed /\ ~AtRest'))

OverlapSpec == OverlapInit /\ [][OverlapNext]_<<vars, crossed>> /\ Fairness

Related(i, j) == i = j \/ <<i, j>> \in DependsOn \/ <<j, i>> \in DependsOn

\* Work that a request does itself is in no registry: nobody who is about to
\* begin sees it, be it another request, the driver, or the guard before a
\* synchronous install, which reads the flag alone.
RequestsTangle ==
    \E g, h \in Handlers :
        /\ g # h
        /\ handler[g].pc \in AtWork
        /\ handler[h].pc \in AtWork \union {"start_install", "read_targets"}
        /\ Related(handler[g].id, handler[h].id)

DriverTangles ==
    \E h \in Handlers, n \in DOMAIN driver.todo :
        handler[h].pc \in AtWork /\ Related(handler[h].id, driver.todo[n])

SyncTangles == \E h \in Handlers : handler[h].pc = "sync" /\ job[handler[h].id] # "none"

Tangled == RequestsTangle \/ DriverTangles \/ SyncTangles

Lock == INSTANCE TreeLock WITH
            Ids <- Targets, Workers <- Handlers \union {"job", "auto"},
            Needs <- DependsOn, writing <- Writing

\* With several requests, the boot driver and the loop, the guards act as the
\* tree lock does: whoever begins to write finds nobody in its way ("An
\* uninstall while an install is in flight deletes files the extraction is still
\* writing", handlePluginUninstall; ErrBusy, jobs.go; the two guards of updates),
\* and one at a time stops.  The exceptions are parties that crossed, and work
\* that is in no registry.
LockUnlessCrossed ==
    [][crossed' \/ Tangled \/ Tangled' \/ Lock!Next \/ Writing' = Writing]_<<vars, crossed>>

\* "A server update rewrites the game tree the installer extracts into; letting
\* both run leaves the winner's files half-written by the loser"
\* (handlePluginInstall): with several requests, the boot driver and the loop,
\* an update writes alone and under the flag, and does so again once parties
\* that crossed are done.  The crossings are real exceptions, all three.
UpdateAloneUnlessCrossed == ~crossed => UpdateWritesAlone /\ FlagCoversUpdate
=============================================================================
