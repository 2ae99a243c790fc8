------------------------------ MODULE TreeGate -------------------------------
(***************************************************************************)
(* Who writes to the game tree, and the guards that keep them apart: the   *)
(* update, install and uninstall handlers of internal/agent/api.go, the    *)
(* boot driver InstallPending, and the auto-update loop, over the job      *)
(* registry (Jobs, seen here as the keyed lock it implements) and the      *)
(* Updater's updating flag.                                                *)
(*                                                                         *)
(* Each guard is one read of the flag or of the registry under its own     *)
(* mutex; no lock is held from a guard to the work it guards.  So a read   *)
(* is a step, and what it allows is another.                               *)
(***************************************************************************)
EXTENDS Catalog, Naturals, Sequences

CONSTANTS
    Handlers,   \* HTTP requests that can be in progress at once
    Ops,        \* what clients ask: "update", "install", "sync", "uninstall"
    Pending,    \* the boot driver's list (a sequence of plugins)
    AutoLoop    \* does the auto-update loop apply updates?

CS2 == "cs2"    \* the target of the update job
Targets == Plugins \union {CS2}

ASSUME PluginsAssumption == CS2 \notin Plugins
ASSUME HandlersAssumption == Handlers \intersect {"job", "auto"} = {}
ASSUME OpsAssumption == Ops \subseteq {"update", "install", "sync", "uninstall"}
ASSUME PendingAssumption == Pending \in Seq(Plugins)
ASSUME AutoLoopAssumption == AutoLoop \in BOOLEAN

VARIABLES
    updating,   \* Updater.updating
    job,        \* the registry, by target: is there a running job, and its body
    handler,    \* the requests in progress
    auto,       \* the auto-update loop
    driver      \* InstallPending's goroutine: what is left, what it waits for

vars == <<updating, job, handler, auto, driver>>

\* A body is "working" in its fn, has "worked" when the update's fn has still
\* to lower the flag (defer), and has "ended" until its outcome is recorded.
JobStates == {"none", "working", "worked", "ended"}

HandlerPCs == {"idle", "read_jobs", "raise", "start", "lower",
               "start_install", "sync", "read_targets", "uninstall"}

Free(id) == [pc |-> "idle", id |-> id]

TypeOK ==
    /\ updating \in BOOLEAN
    /\ job \in [Targets -> JobStates]
    /\ handler \in [Handlers -> [pc : HandlerPCs, id : Targets]]
    /\ auto \in {"asleep", "checked", "running", "ran"}
    /\ driver \in [todo : Seq(Plugins), waits : SUBSET Plugins]

Init ==
    /\ updating = FALSE
    /\ job = [t \in Targets |-> "none"]
    /\ handler = [h \in Handlers |-> Free(CS2)]
    /\ auto = "asleep"
    /\ driver = [todo |-> Pending, waits |-> {}]

RunningTargets == {t \in Targets : job[t] # "none"}

Begin(t) == job' = [job EXCEPT ![t] = "working"]

At(h, pc) == handler' = [handler EXCEPT ![h].pc = pc]

------------------------------------------------------------------------------
(***************************************************************************)
(* The handlers.                                                           *)
(***************************************************************************)

\* Every one of the handlers begins with Updating(), and answers 409 when it is
\* set.  A "sync" install is at work from here on.
Receive(h, op, id) ==
    /\ op \in Ops
    /\ handler[h].pc = "idle"
    /\ op = "update" <=> id = CS2
    /\ ~updating
    /\ handler' = [handler EXCEPT ![h] =
                     [id |-> id,
                      pc |-> CASE op = "update"    -> "read_jobs"
                               [] op = "install"   -> "start_install"
                               [] op = "sync"      -> "sync"
                               [] op = "uninstall" -> "read_targets"]]
    /\ UNCHANGED <<updating, job, auto, driver>>

\* The 409 of a handler that found the flag set.
Refuse(h) ==
    /\ handler[h].pc = "idle"
    /\ updating
    /\ UNCHANGED vars

\* mutant: running plugin jobs do not stop an update
UpdateIgnoringJobs(h) ==
    /\ handler[h].pc = "read_jobs"
    /\ At(h, "raise")
    /\ UNCHANGED <<updating, job, auto, driver>>

\* handleServerUpdate refuses while any job runs.
UpdateReadsJobs(h) ==
    /\ handler[h].pc = "read_jobs"
    /\ At(h, IF RunningTargets = {} THEN "raise" ELSE "idle")
    /\ UNCHANGED <<updating, job, auto, driver>>

UpdateRaisesFlag(h) ==
    /\ handler[h].pc = "raise"
    /\ updating' = TRUE
    /\ At(h, "start")
    /\ UNCHANGED <<job, auto, driver>>

UpdateStarts(h) ==
    /\ handler[h].pc = "start"
    /\ IF job[CS2] = "none"
       THEN Begin(CS2) /\ At(h, "idle")
       ELSE At(h, "lower") /\ UNCHANGED job
    /\ UNCHANGED <<updating, auto, driver>>

\* mutant: a refused update leaves the flag as it found it: up
UpdateRefusedFlagUp(h) ==
    /\ handler[h].pc = "lower"
    /\ At(h, "idle")
    /\ UNCHANGED <<updating, job, auto, driver>>

\* ErrBusy: SetUpdating(false), then 409.
UpdateRefused(h) ==
    /\ handler[h].pc = "lower"
    /\ updating' = FALSE
    /\ At(h, "idle")
    /\ UNCHANGED <<job, auto, driver>>

\* handlePluginInstall, async: a job, or 409 when one runs for this plugin.
InstallStarts(h) ==
    /\ handler[h].pc = "start_install"
    /\ IF job[handler[h].id] = "none" THEN Begin(handler[h].id) ELSE UNCHANGED job
    /\ At(h, "idle")
    /\ UNCHANGED <<updating, auto, driver>>

\* handlePluginInstall, sync: the work is done in the request.
SyncInstallEnds(h) ==
    /\ handler[h].pc = "sync"
    /\ At(h, "idle")
    /\ UNCHANGED <<updating, job, auto, driver>>

\* mutant: only the plugin itself is protected, not what an install needs
UninstallReadsOwn(h) ==
    /\ handler[h].pc = "read_targets"
    /\ At(h, IF handler[h].id \in RunningTargets THEN "idle" ELSE "uninstall")
    /\ UNCHANGED <<updating, job, auto, driver>>

\* handlePluginUninstall refuses while the plugin, or one that depends on it,
\* is being installed.  The update's target is in no catalog: it depends on
\* nothing.
UninstallReadsTargets(h) ==
    /\ handler[h].pc = "read_targets"
    /\ LET id == handler[h].id
           blocked == \E t \in RunningTargets :
                        t = id \/ <<t, id>> \in DependsOn
       IN  At(h, IF blocked THEN "idle" ELSE "uninstall")
    /\ UNCHANGED <<updating, job, auto, driver>>

UninstallEnds(h) ==
    /\ handler[h].pc = "uninstall"
    /\ At(h, "idle")
    /\ UNCHANGED <<updating, job, auto, driver>>

------------------------------------------------------------------------------
(***************************************************************************)
(* The jobs' bodies.                                                       *)
(***************************************************************************)

\* A body stops writing: an install's fn returns, the update's Run returns.
BodyEnds(t) ==
    /\ job[t] = "working"
    /\ job' = [job EXCEPT ![t] = IF t = CS2 THEN "worked" ELSE "ended"]
    /\ UNCHANGED <<updating, handler, auto, driver>>

\* The update job's deferred SetUpdating(false).
FlagFalls ==
    /\ job[CS2] = "worked"
    /\ updating' = FALSE
    /\ job' = [job EXCEPT ![CS2] = "ended"]
    /\ UNCHANGED <<handler, auto, driver>>

\* The registry records the outcome; the driver, which polls it, may go on.
Settle(t) ==
    /\ job[t] = "ended"
    /\ job' = [job EXCEPT ![t] = "none"]
    /\ driver' = [driver EXCEPT !.waits = @ \ {t}]
    /\ UNCHANGED <<updating, handler, auto>>

------------------------------------------------------------------------------
(***************************************************************************)
(* The boot driver and the auto-update loop.                               *)
(***************************************************************************)

\* The next id of the list: a job, and the driver waits for it; or the target
\* is busy, and the driver goes to the next one.  The flag is not read.
DriverStarts ==
    /\ driver.todo # << >>
    /\ driver.waits = {}
    /\ LET id == Head(driver.todo)
           free == job[id] = "none"
       IN  /\ IF free THEN Begin(id) ELSE UNCHANGED job
           /\ driver' = [todo |-> Tail(driver.todo),
                         waits |-> IF free THEN {id} ELSE {}]
    /\ UNCHANGED <<updating, handler, auto>>

\* autoPass reads the flag, then checks for an update: steamcmd takes its time.
AutoReadsFlag ==
    /\ AutoLoop
    /\ auto = "asleep"
    /\ ~updating
    /\ auto' = "checked"
    /\ UNCHANGED <<updating, job, handler, driver>>

\* Nothing to install, or players on the server.
AutoLets ==
    /\ auto = "checked"
    /\ auto' = "asleep"
    /\ UNCHANGED <<updating, job, handler, driver>>

\* SetUpdating(true) and Run, in the loop's own goroutine.
AutoRuns ==
    /\ auto = "checked"
    /\ updating' = TRUE
    /\ auto' = "running"
    /\ UNCHANGED <<job, handler, driver>>

AutoEnds ==
    /\ auto = "running"
    /\ auto' = "ran"
    /\ UNCHANGED <<updating, job, handler, driver>>

AutoLowersFlag ==
    /\ auto = "ran"
    /\ updating' = FALSE
    /\ auto' = "asleep"
    /\ UNCHANGED <<job, handler, driver>>

------------------------------------------------------------------------------
HandlerStep(h) ==
    \/ UpdateReadsJobs(h) \/ UpdateRaisesFlag(h) \/ UpdateStarts(h)
    \/ UpdateRefused(h) \/ InstallStarts(h) \/ SyncInstallEnds(h)
    \/ UninstallReadsTargets(h) \/ UninstallEnds(h)

JobStep(t) == BodyEnds(t) \/ Settle(t)

AutoStep == AutoLets \/ AutoRuns \/ AutoEnds \/ AutoLowersFlag

Next ==
    \/ \E h \in Handlers :
         \/ \E op \in Ops, id \in Targets : Receive(h, op, id)
         \/ Refuse(h)
         \/ HandlerStep(h)
    \/ \E t \in Targets : JobStep(t)
    \/ FlagFalls
    \/ DriverStarts
    \/ AutoReadsFlag \/ AutoStep

Spec == Init /\ [][Next]_vars

\* What has begun goes on: requests, bodies (a job's context ends after 30
\* minutes) and the loop's pass.  Nothing makes a client ask or the timer fire.
Fairness ==
    /\ \A h \in Handlers : WF_vars(HandlerStep(h))
    /\ \A t \in Targets : WF_vars(JobStep(t))
    /\ WF_vars(FlagFalls)
    /\ WF_vars(DriverStarts)
    /\ WF_vars(AutoStep)

FairSpec == Spec /\ Fairness

------------------------------------------------------------------------------
(***************************************************************************)
(* Properties.                                                             *)
(***************************************************************************)
Activity(kind, id, by) == [kind |-> kind, id |-> id, by |-> by]

AtWork == {"sync", "uninstall"}

\* Who writes to the tree: bodies at work, requests that do the work themselves,
\* and the loop's own Run.
Writing ==
    {Activity(IF t = CS2 THEN "update" ELSE "install", t, "job") :
        t \in {u \in Targets : job[u] = "working"}}
    \union {Activity("update", CS2, a) : a \in {b \in {"auto"} : auto = "running"}}
    \union {Activity(IF handler[h].pc = "sync" THEN "install" ELSE "uninstall", handler[h].id, h) :
               h \in {g \in Handlers : handler[g].pc \in AtWork}}

\* "A server update rewrites the game tree the installer extracts into; letting
\* both run leaves the winner's files half-written by the loser"
\* (handlePluginInstall): an update writes alone.
UpdateWritesAlone ==
    \A a, b \in Writing : a.kind = "update" => a = b

\* "updating is true while an update job runs (set by the API layer)"
\* (Updater): the flag is up for as long as an update writes, so that the
\* guards that read it see the update.
FlagCoversUpdate == (\E a \in Writing : a.kind = "update") => updating

\* Whoever raised the flag lowers it: refused, failed or done, updates and
\* installs are possible again some time.
FlagIsLowered == updating ~> ~updating
==============================================================================
