--------------------------- MODULE PendingPlugins ---------------------------
(***************************************************************************)
(* The plugins that the bootstrap asked for, and the config file that      *)
(* remembers them (cmd/cs2a-agent/main.go, API.InstallPending, config.go). *)
(*                                                                         *)
(* Every boot of the agent reads pending_plugins, installs what is missing *)
(* as background jobs, and at the end writes the ids that failed back, for *)
(* the next boot.  The file is rewritten whole, from memory, and there are *)
(* two copies in memory: main's own, and the one that Server was given,    *)
(* which "repair RCON" corrects and writes.  The agent may be killed at    *)
(* any moment.  What the jobs do to the tree, and their order, are the     *)
(* subject of Installer and TreeGate.                                      *)
(***************************************************************************)
EXTENDS Catalog, FiniteSets

CONSTANTS
    Unknown,    \* ids that an older bootstrap wrote and the catalog lacks
    Asked,      \* what the bootstrap wrote to the file
    Events,     \* what else happens: "panel" installs, "uninstall", "repair"
    Faults      \* what can go wrong: "install", "persist", "kill"

AskedAssumption ==
    /\ Unknown \intersect Plugins = {}
    /\ IsFiniteSet(Asked)
    /\ Asked \subseteq Plugins \union Unknown
EventsAssumption == Events \subseteq {"panel", "uninstall", "repair"}
FaultsAssumption == Faults \subseteq {"install", "persist", "kill"}

VARIABLES
    file,       \* agent.json: the pending ids, and the RCON address
    main,       \* main's copy
    srv,        \* Server's copy
    agent,      \* "down", "installing" (the boot driver is at work) or "up"
    todo,       \* ids whose turn is still to come
    failed,     \* ids whose job failed in this boot
    job,        \* who started an id's running job
    installed,  \* ids with a row in plugin_state
    seen,       \* history: ids that were installed at some time
    skipped     \* history: ids whose turn came while the panel installed them

vars == <<file, main, srv, agent, todo, failed, job, installed, seen, skipped>>
configs == <<file, main, srv>>
driver == <<agent, todo, failed>>

Config == [pending : SUBSET (Plugins \union Unknown), addr : {"guessed", "corrected"}]
NoJobs == [i \in Plugins |-> "none"]

TypeOK ==
    /\ file \in Config /\ main \in Config /\ srv \in Config
    /\ agent \in {"down", "installing", "up"}
    /\ todo \subseteq Plugins /\ failed \subseteq Plugins
    /\ job \in [Plugins -> {"none", "driver", "panel"}]
    /\ installed \subseteq seen /\ seen \subseteq Plugins
    /\ skipped \subseteq Plugins

Init ==
    /\ file = [pending |-> Asked, addr |-> "guessed"]
    /\ main = file /\ srv = file
    /\ agent = "down"
    /\ todo = {} /\ failed = {} /\ job = NoJobs
    /\ installed = {} /\ seen = {} /\ skipped = {}

\* Persist replaces the whole file; main only logs that it failed.
Persist(copy) ==
    \/ file' = copy
    \/ "persist" \in Faults /\ UNCHANGED file

------------------------------------------------------------------------------
(***************************************************************************)
(* The boot.                                                               *)
(***************************************************************************)

LoadConfig == main' = file /\ srv' = file

Missing == (file.pending \intersect Plugins) \ installed

\* Unknown and installed ids are dropped; the driver takes the others.
BootInstalls ==
    /\ agent = "down"
    /\ Missing # {}
    /\ LoadConfig
    /\ agent' = "installing"
    /\ todo' = Missing
    /\ UNCHANGED <<file, failed, job, installed, seen, skipped>>

\* mutant: what is written back is what the bootstrap guessed
BootClearsAll ==
    /\ agent = "down"
    /\ file.pending # {} /\ Missing = {}
    /\ srv' = file
    /\ main' = [pending |-> {}, addr |-> "guessed"]
    /\ Persist(main')
    /\ agent' = "up"
    /\ UNCHANGED <<todo, failed, job, installed, seen, skipped>>

\* No others: the list is cleared at once.
BootClears ==
    /\ agent = "down"
    /\ file.pending # {} /\ Missing = {}
    /\ srv' = file
    /\ main' = [file EXCEPT !.pending = {}]
    /\ Persist(main')
    /\ agent' = "up"
    /\ UNCHANGED <<todo, failed, job, installed, seen, skipped>>

\* No list: the file is not touched.
BootPlain ==
    /\ agent = "down"
    /\ file.pending = {}
    /\ LoadConfig
    /\ agent' = "up"
    /\ UNCHANGED <<file, todo, failed, job, installed, seen, skipped>>

\* The driver waits for its job to end before it looks at the next id.
MyTurn(id) ==
    /\ agent = "installing"
    /\ \A i \in Plugins : job[i] # "driver"
    /\ id \in todo

DriverStarts(id) ==
    /\ MyTurn(id)
    /\ job[id] = "none"
    /\ job' = [job EXCEPT ![id] = "driver"]
    /\ todo' = todo \ {id}
    /\ UNCHANGED <<configs, agent, failed, installed, seen, skipped>>

\* ErrBusy: an install from the panel is taken for done, whatever its end.
DriverSkips(id) ==
    /\ MyTurn(id)
    /\ job[id] # "none"
    /\ todo' = todo \ {id}
    /\ skipped' = skipped \union {id}
    /\ UNCHANGED <<configs, agent, failed, job, installed, seen>>

Drained == agent = "installing" /\ todo = {} /\ \A i \in Plugins : job[i] # "driver"

\* mutant: the list is cleared whatever failed
DriverForgets ==
    /\ Drained
    /\ main' = [main EXCEPT !.pending = {}]
    /\ Persist(main')
    /\ agent' = "up"
    /\ failed' = {}
    /\ UNCHANGED <<srv, todo, job, installed, seen, skipped>>

\* done(failed).  A list of which nothing succeeded is left as it is.
DriverDone ==
    /\ Drained
    /\ IF failed # {} /\ Cardinality(failed) = Cardinality(main.pending)
         THEN UNCHANGED <<file, main>>
         ELSE /\ main' = [main EXCEPT !.pending = failed]
              /\ Persist(main')
    /\ agent' = "up"
    /\ failed' = {}
    /\ UNCHANGED <<srv, todo, job, installed, seen, skipped>>

------------------------------------------------------------------------------
(***************************************************************************)
(* Jobs, requests and the end of the process.                              *)
(***************************************************************************)

\* An install job ends well: with the entry, what it requires is recorded.
JobSucceeds(id) ==
    /\ job[id] # "none"
    /\ installed' = installed \union {id} \union {d \in Plugins : <<id, d>> \in DependsOn}
    /\ seen' = seen \union installed'
    /\ job' = [job EXCEPT ![id] = "none"]
    /\ UNCHANGED <<configs, driver, skipped>>

\* Or not: some of the dependencies may be recorded all the same.
JobFails(id) ==
    /\ "install" \in Faults
    /\ job[id] # "none" /\ id \notin installed
    /\ \E some \in SUBSET {d \in Plugins : <<id, d>> \in DependsOn} :
         installed' = installed \union some
    /\ seen' = seen \union installed'
    /\ failed' = IF job[id] = "driver" THEN failed \union {id} ELSE failed
    /\ job' = [job EXCEPT ![id] = "none"]
    /\ UNCHANGED <<configs, agent, todo, skipped>>

PanelInstalls(id) ==
    /\ "panel" \in Events
    /\ agent # "down"
    /\ job[id] = "none"
    /\ job' = [job EXCEPT ![id] = "panel"]
    /\ UNCHANGED <<configs, driver, installed, seen, skipped>>

\* Uninstall takes an entry that no other needs and no running job touches.
PanelUninstalls(id) ==
    /\ "uninstall" \in Events
    /\ agent # "down"
    /\ id \in installed
    /\ \A d \in installed : id \notin Requires[d]
    /\ \A i \in Plugins : job[i] # "none" => i # id /\ <<i, id>> \notin DependsOn
    /\ installed' = installed \ {id}
    /\ UNCHANGED <<configs, driver, job, seen, skipped>>

\* setRCONAddr writes Server's copy.  A failure is reported, and the copy
\* keeps the address.
RepairRCON ==
    /\ "repair" \in Events
    /\ agent # "down"
    /\ srv.addr = "guessed"
    /\ srv' = [srv EXCEPT !.addr = "corrected"]
    /\ Persist(srv')
    /\ UNCHANGED <<main, driver, job, installed, seen, skipped>>

\* A kill ends the jobs with the process; half of an install leaves no row,
\* but its dependencies may have theirs.
Kill ==
    /\ "kill" \in Faults
    /\ agent # "down"
    /\ agent' = "down"
    /\ todo' = {} /\ failed' = {} /\ job' = NoJobs
    /\ \E some \in SUBSET {d \in Plugins : \E i \in Plugins : job[i] # "none" /\ <<i, d>> \in DependsOn} :
         installed' = installed \union some
    /\ seen' = seen \union installed'
    /\ UNCHANGED <<configs, skipped>>

------------------------------------------------------------------------------
Driver ==
    \/ BootInstalls \/ BootClears \/ BootPlain \/ DriverDone
    \/ \E id \in Plugins : DriverStarts(id) \/ DriverSkips(id)

JobEnds(id) == JobSucceeds(id) \/ JobFails(id)

Next ==
    \/ Driver
    \/ \E id \in Plugins : JobEnds(id) \/ PanelInstalls(id) \/ PanelUninstalls(id)
    \/ RepairRCON
    \/ Kill

Spec == Init /\ [][Next]_vars

\* systemd starts the agent again, the driver's loop runs on, and every job
\* ends: its context has a deadline.
Fairness == WF_vars(Driver) /\ \A id \in Plugins : WF_vars(JobEnds(id))

FairSpec == Spec /\ Fairness

------------------------------------------------------------------------------
(***************************************************************************)
(* Properties.                                                             *)
(***************************************************************************)

\* What the bootstrap asked for was installed, is being installed, or stays in
\* the file: a failure, a kill or a config that could not be written loses no
\* id.  One that the panel was installing when its turn came is not kept.
NothingForgotten ==
    \A id \in Asked \intersect Plugins :
        id \in seen \union file.pending \union skipped \/ job[id] # "none"

\* A boot gets through its list, or the agent is killed.
BootEnds == agent = "installing" ~> agent # "installing"

\* An id that a boot has cleared from the file does not come back to it, other
\* than by a write of Server's copy, which a repair of RCON makes.
ClearedStaysCleared == [][srv' = srv \/ agent = "down" => file'.pending \subseteq file.pending]_vars

\* A corrected RCON address, once written, survives every restart, and all of a
\* boot but the end of its installs, which writes main's copy.
CorrectionSurvives ==
    [][file.addr = "corrected" /\ agent # "installing" => file'.addr = "corrected"]_vars

\* What the bootstrap asked for is not lost, and no boot works on it for ever.
PendingIsServed == []NothingForgotten /\ BootEnds

\* No write of one copy of the config undoes what the other has written, but
\* for the two writes named above.
CopiesDoNotUndo == ClearedStaysCleared /\ CorrectionSurvives

==============================================================================
