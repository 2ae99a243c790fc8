--------------------------- MODULE TreeGateProofs ----------------------------
(***************************************************************************)
(* Any number of requests, the boot driver and the loop at once, over any  *)
(* catalog.  The guards are reads, so they promise something only while no *)
(* two parties that do not look out for each other are under way: Apart is *)
(* what holds from the state at rest on until they cross.  From it follow  *)
(* that an update writes alone and under the flag, and that the guards act *)
(* as the tree lock does.                                                  *)
(***************************************************************************)
EXTENDS TreeGateOverlaps, TLAPS

\* From the moment it has seen no job until it starts its own, an update finds
\* the registry empty.
NoJobAhead ==
    \A h \in Handlers : handler[h].pc \in {"raise", "start"} => \A t \in Targets : job[t] = "none"

\* An update has raised the flag before it starts its job.
FlagUp == \A h \in Handlers : handler[h].pc = "start" => updating

\* While the update's body runs, nobody else is doing anything.
UpdateAlone ==
    job[CS2] \in {"working", "worked"} =>
        /\ updating
        /\ \A h \in Handlers : handler[h].pc = "idle"
        /\ \A p \in Plugins : job[p] = "none"

\* Records of a request, in terms that do not mention EXCEPT.
LEMMA HandlerAt ==
    ASSUME TypeOK, NEW h \in Handlers, NEW pc \in HandlerPCs, At(h, pc)
    PROVE  /\ handler' \in [Handlers -> [pc : HandlerPCs, id : Targets]]
           /\ handler'[h].pc = pc
           /\ handler'[h].id = handler[h].id
           /\ \A g \in Handlers : g # h => handler'[g] = handler[g]
BY DEF TypeOK, At

LEMMA JobBegin ==
    ASSUME TypeOK, NEW t \in Targets, Begin(t)
    PROVE  /\ job' \in [Targets -> JobStates]
           /\ job'[t] = "working"
           /\ \A u \in Targets : u # t => job'[u] = job[u]
BY DEF TypeOK, Begin, JobStates
------------------------------------------------------------------------------
LEMMA InitType == ASSUME Init PROVE TypeOK
BY PendingAssumption DEF Init, TypeOK, Targets, JobStates, HandlerPCs, Free

\* Every variable keeps its type in every step of every party.
LEMMA NextType == TypeOK /\ [Next]_vars => TypeOK'
<1> SUFFICES ASSUME TypeOK, [Next]_vars PROVE TypeOK'
  OBVIOUS
<1>1. CASE UNCHANGED vars \/ \E h \in Handlers : Refuse(h)
  BY <1>1 DEF Refuse, vars, TypeOK
<1>2. ASSUME NEW h \in Handlers, NEW op \in Ops, NEW id \in Targets, Receive(h, op, id)
      PROVE  TypeOK'
  <2> DEFINE pc == CASE op = "update"    -> "read_jobs"
                     [] op = "install"   -> "start_install"
                     [] op = "sync"      -> "sync"
                     [] op = "uninstall" -> "read_targets"
  <2>1. pc \in HandlerPCs
    <3>1. op \in {"update", "install", "sync", "uninstall"}
      BY OpsAssumption
    <3> QED
      BY <3>1 DEF HandlerPCs
  <2>2. handler' = [handler EXCEPT ![h] = [id |-> id, pc |-> pc]]
    BY <1>2 DEF Receive
  <2> HIDE DEF pc
  <2>3. UNCHANGED <<updating, job, auto, driver>>
    BY <1>2 DEF Receive
  <2>4. handler' \in [Handlers -> [pc : HandlerPCs, id : Targets]]
    BY <2>1, <2>2 DEF TypeOK
  <2> QED
    BY <2>3, <2>4 DEF TypeOK
<1>3. ASSUME NEW h \in Handlers, HandlerStep(h) PROVE TypeOK'
  <2>1. {"raise", "idle", "start", "lower", "uninstall"} \subseteq HandlerPCs /\ CS2 \in Targets
    BY DEF HandlerPCs, Targets
  <2>2. /\ \E pc \in HandlerPCs : At(h, pc)
        /\ job' = job \/ \E t \in Targets : Begin(t)
        /\ updating' \in BOOLEAN /\ UNCHANGED <<auto, driver>>
    BY <1>3, <2>1
    DEF HandlerStep, UpdateReadsJobs, UpdateRaisesFlag, UpdateStarts, UpdateRefused,
        InstallStarts, SyncInstallEnds, UninstallReadsTargets, UninstallEnds, TypeOK
  <2>3. handler' \in [Handlers -> [pc : HandlerPCs, id : Targets]]
    BY <2>2, HandlerAt
  <2>4. job' \in [Targets -> JobStates]
    BY <2>2, JobBegin DEF TypeOK
  <2> QED
    BY <2>2, <2>3, <2>4 DEF TypeOK
<1>4. ASSUME NEW t \in Targets, JobStep(t) PROVE TypeOK'
  BY <1>4 DEF JobStep, BodyEnds, Settle, TypeOK, JobStates
<1>5. CASE FlagFalls
  BY <1>5 DEF FlagFalls, TypeOK, JobStates
<1>6. CASE DriverStarts
  <2>1. Head(driver.todo) \in Plugins /\ Tail(driver.todo) \in Seq(Plugins)
    BY <1>6 DEF DriverStarts, TypeOK
  <2>2. job' = job \/ Begin(Head(driver.todo))
    BY <1>6 DEF DriverStarts
  <2>3. job' \in [Targets -> JobStates]
    BY <2>1, <2>2, JobBegin DEF TypeOK, Targets
  <2>4. driver' \in [todo : Seq(Plugins), waits : SUBSET Plugins]
    BY <1>6, <2>1 DEF DriverStarts
  <2> QED
    BY <1>6, <2>3, <2>4 DEF DriverStarts, TypeOK
<1>7. CASE AutoReadsFlag \/ AutoStep
  BY <1>7 DEF AutoReadsFlag, AutoStep, AutoLets, AutoRuns, AutoEnds, AutoLowersFlag, TypeOK
<1> QED
  BY <1>1, <1>2, <1>3, <1>4, <1>5, <1>6, <1>7 DEF Next

\* The loop's Run is under the flag.
LoopFlagUp == auto \in {"running", "ran"} => updating

\* An update that was not crossed found its target free, and was not refused.
NotRefused == \A h \in Handlers : handler[h].pc # "lower"

\* What is installed or uninstalled is a plugin: no job of an install is the
\* update's.
OnPlugins ==
    \A h \in Handlers :
        handler[h].pc \in AtWork \union {"start_install", "read_targets"} => handler[h].id \in Plugins

\* What holds since the last time everybody was at rest.
Apart ==
    /\ ~Crossing
    /\ NoJobAhead
    /\ FlagUp
    /\ UpdateAlone
    /\ LoopFlagUp
    /\ NotRefused

OverlapInv ==
    /\ TypeOK
    /\ OnPlugins
    /\ crossed \in BOOLEAN
    /\ ~crossed => Apart

\* At rest there is nothing to be apart.
LEMMA RestIsApart == ASSUME AtRest, ~Crossing PROVE Apart
<1>1. \A t \in Targets : job[t] = "none"
  BY DEF AtRest, RunningTargets
<1>2. CS2 \in Targets
  BY DEF Targets
<1> QED
  BY <1>1, <1>2
  DEF Apart, AtRest, NoJobAhead, FlagUp, UpdateAlone, LoopFlagUp, NotRefused

LEMMA InitOverlap == OverlapInit => OverlapInv
<1> SUFFICES ASSUME OverlapInit PROVE OverlapInv
  OBVIOUS
<1>1. TypeOK /\ OnPlugins /\ crossed = FALSE
  BY InitType DEF OverlapInit, Init, Free, OnPlugins, AtWork
<1>2. AtRest /\ ~Crossing
  BY DEF OverlapInit, Init, AtRest, RunningTargets, Crossing, RequestsCross,
         DriverCrosses, AutoCrosses, Free
<1> QED
  BY <1>1, <1>2, RestIsApart DEF OverlapInv

\* A request that is on its way is alone when an update is on its way.
LEMMA UpdateOnItsWay ==
    ASSUME ~Crossing, NEW h \in Handlers,
           handler[h].pc \in {"read_jobs", "raise", "start", "lower"}
    PROVE  /\ \A g \in Handlers \ {h} : handler[g].pc = "idle"
           /\ driver.todo = << >> /\ driver.waits = {}
           /\ auto = "asleep"
BY DEF Crossing, RequestsCross, DriverCrosses, AutoCrosses

\* The loop on its way is alone too.
LEMMA LoopOnItsWay ==
    ASSUME ~Crossing, auto # "asleep"
    PROVE  /\ \A t \in Targets : job[t] = "none"
           /\ \A h \in Handlers : handler[h].pc = "idle"
BY DEF Crossing, AutoCrosses, RunningTargets

\* A request that moves between pcs that no part of Apart speaks of.
LEMMA PlainMove ==
    ASSUME TypeOK, Apart, ~Crossing', NEW h \in Handlers,
           handler[h].pc # "idle",
           handler'[h].pc \notin {"raise", "start", "lower", "start_install"},
           \A g \in Handlers : g # h => handler'[g] = handler[g],
           UNCHANGED <<updating, auto, driver>>,
           \/ job' = job
           \/ /\ handler[h].pc = "start_install"
              /\ \A t \in Targets : job'[t] # job[t] => t # CS2
    PROVE  Apart'
<1>1. CS2 \in Targets /\ CS2 \notin Plugins /\ Plugins \subseteq Targets
  BY PluginsAssumption DEF Targets
<1>2. job[CS2] \notin {"working", "worked"}
  BY DEF Apart, UpdateAlone
<1>3. job'[CS2] = job[CS2]
  BY <1>1
<1>4. NoJobAhead'
  <2> SUFFICES ASSUME NEW g \in Handlers, handler'[g].pc \in {"raise", "start"}
               PROVE  \A t \in Targets : job'[t] = "none"
    BY DEF NoJobAhead
  <2>1. g # h /\ handler[g].pc \in {"raise", "start"}
    OBVIOUS
  <2>2. handler[h].pc = "idle"
    BY <2>1, UpdateOnItsWay DEF Apart
  <2> QED
    BY <2>2
<1>5. FlagUp' /\ NotRefused' /\ LoopFlagUp'
  BY DEF Apart, FlagUp, NotRefused, LoopFlagUp
<1> QED
  BY <1>2, <1>3, <1>4, <1>5 DEF Apart, UpdateAlone

LEMMA HandlerStepApart ==
    ASSUME TypeOK, OnPlugins, Apart, ~Crossing', NEW h \in Handlers, HandlerStep(h)
    PROVE  Apart'
<1>1. {"raise", "idle", "start", "lower", "uninstall"} \subseteq HandlerPCs /\ CS2 \in Targets
      /\ CS2 \notin Plugins /\ Plugins \subseteq Targets
  BY PluginsAssumption DEF HandlerPCs, Targets
<1>2. CASE UpdateReadsJobs(h)
  <2> DEFINE pc == IF RunningTargets = {} THEN "raise" ELSE "idle"
  <2>1. pc \in {"raise", "idle"} /\ (pc = "raise" => \A t \in Targets : job[t] = "none")
    BY DEF RunningTargets
  <2>2. At(h, pc) /\ handler[h].pc = "read_jobs" /\ UNCHANGED <<updating, job, auto, driver>>
    BY <1>2 DEF UpdateReadsJobs
  <2> HIDE DEF pc
  <2>3. handler'[h].pc = pc /\ \A g \in Handlers : g # h => handler'[g] = handler[g]
    BY <1>1, <2>1, <2>2, HandlerAt
  <2>4. \A g \in Handlers \ {h} : handler[g].pc = "idle"
    BY <2>2, UpdateOnItsWay DEF Apart
  <2>5. NoJobAhead' /\ FlagUp' /\ NotRefused'
    BY <2>1, <2>2, <2>3, <2>4 DEF NoJobAhead, FlagUp, NotRefused
  <2>6. UpdateAlone' /\ LoopFlagUp'
    BY <2>2 DEF Apart, UpdateAlone, LoopFlagUp
  <2> QED
    BY <2>5, <2>6 DEF Apart
<1>3. CASE UpdateRaisesFlag(h)
  <2>1. /\ At(h, "start") /\ handler[h].pc = "raise" /\ updating' = TRUE
        /\ UNCHANGED <<job, auto, driver>>
    BY <1>3 DEF UpdateRaisesFlag
  <2>2. handler'[h].pc = "start" /\ \A g \in Handlers : g # h => handler'[g] = handler[g]
    BY <1>1, <2>1, HandlerAt
  <2>3. \A t \in Targets : job'[t] = "none"
    BY <2>1 DEF Apart, NoJobAhead
  <2>4. NotRefused'
    BY <2>2 DEF Apart, NotRefused
  <2> QED
    BY <1>1, <2>1, <2>3, <2>4 DEF Apart, NoJobAhead, FlagUp, UpdateAlone, LoopFlagUp
<1>4. CASE UpdateStarts(h)
  <2>1. \A t \in Targets : job[t] = "none"
    BY <1>4 DEF UpdateStarts, Apart, NoJobAhead
  <2>2. Begin(CS2) /\ At(h, "idle") /\ UNCHANGED <<updating, auto, driver>>
    BY <1>1, <1>4, <2>1 DEF UpdateStarts
  <2>3. handler'[h].pc = "idle" /\ \A g \in Handlers : g # h => handler'[g] = handler[g]
    BY <1>1, <2>2, HandlerAt
  <2>4. handler[h].pc = "start"
    BY <1>4 DEF UpdateStarts
  <2>5. \A g \in Handlers : handler'[g].pc = "idle"
    BY <2>3, <2>4, UpdateOnItsWay DEF Apart
  <2>6. \A t \in Targets : t # CS2 => job'[t] = "none"
    BY <1>1, <2>1, <2>2, JobBegin
  <2>7. updating'
    BY <2>2, <2>4 DEF Apart, FlagUp
  <2> QED
    BY <1>1, <2>2, <2>5, <2>6, <2>7
    DEF Apart, NoJobAhead, FlagUp, NotRefused, UpdateAlone, LoopFlagUp
<1>5. ~UpdateRefused(h)
  BY DEF UpdateRefused, Apart, NotRefused
<1>6. CASE InstallStarts(h)
  <2>1. /\ At(h, "idle") /\ UNCHANGED <<updating, auto, driver>>
        /\ handler[h].pc = "start_install"
        /\ job' = job \/ Begin(handler[h].id)
    BY <1>6 DEF InstallStarts
  <2>2. handler'[h].pc = "idle" /\ \A g \in Handlers : g # h => handler'[g] = handler[g]
    BY <1>1, <2>1, HandlerAt
  <2>3. handler[h].id \in Targets /\ handler[h].id # CS2
    BY <1>1, <2>1, PluginsAssumption DEF OnPlugins
  <2>4. \A t \in Targets : job'[t] # job[t] => t # CS2
    BY <2>1, <2>3, JobBegin
  <2> QED
    BY <2>1, <2>2, <2>4, PlainMove
<1>7. CASE SyncInstallEnds(h) \/ UninstallEnds(h)
  <2>1. /\ At(h, "idle") /\ UNCHANGED <<updating, job, auto, driver>>
        /\ handler[h].pc \in {"sync", "uninstall"}
    BY <1>7 DEF SyncInstallEnds, UninstallEnds
  <2>2. handler'[h].pc = "idle" /\ \A g \in Handlers : g # h => handler'[g] = handler[g]
    BY <1>1, <2>1, HandlerAt
  <2> QED
    BY <2>1, <2>2, PlainMove
<1>8. CASE UninstallReadsTargets(h)
  <2>1. PICK pc \in {"idle", "uninstall"} : At(h, pc)
    BY <1>8 DEF UninstallReadsTargets
  <2>2. UNCHANGED <<updating, job, auto, driver>> /\ handler[h].pc = "read_targets"
    BY <1>8 DEF UninstallReadsTargets
  <2>3. handler'[h].pc = pc /\ \A g \in Handlers : g # h => handler'[g] = handler[g]
    BY <1>1, <2>1, HandlerAt
  <2> QED
    BY <2>2, <2>3, PlainMove
<1> QED
  BY <1>2, <1>3, <1>4, <1>5, <1>6, <1>7, <1>8 DEF HandlerStep

LEMMA ReceiveApart ==
    ASSUME TypeOK, Apart, ~Crossing', NEW h \in Handlers, NEW op \in Ops,
           NEW id \in Targets, Receive(h, op, id)
    PROVE  Apart'
<1> DEFINE pc == CASE op = "update"    -> "read_jobs"
                   [] op = "install"   -> "start_install"
                   [] op = "sync"      -> "sync"
                   [] op = "uninstall" -> "read_targets"
<1>1. op \in {"update", "install", "sync", "uninstall"}
  BY OpsAssumption
<1>2. pc \in {"read_jobs", "start_install", "sync", "read_targets"}
  BY <1>1
<1>4. handler' = [handler EXCEPT ![h] = [id |-> id, pc |-> pc]]
  BY DEF Receive
<1> HIDE DEF pc
<1>5. /\ handler'[h].pc = pc /\ handler'[h].id = id
      /\ \A g \in Handlers : g # h => handler'[g] = handler[g]
  BY <1>4 DEF TypeOK
<1>6. ~updating /\ UNCHANGED <<updating, job, auto, driver>>
  BY DEF Receive
<1>7. NoJobAhead' /\ FlagUp' /\ NotRefused'
  BY <1>2, <1>5, <1>6 DEF Apart, NoJobAhead, FlagUp, NotRefused
<1>9. UpdateAlone' /\ LoopFlagUp'
  BY <1>6 DEF Apart, UpdateAlone, LoopFlagUp
<1> QED
  BY <1>7, <1>9 DEF Apart

LEMMA JobStepApart ==
    ASSUME TypeOK, Apart, ~Crossing', NEW t \in Targets,
           JobStep(t) \/ (t = CS2 /\ FlagFalls)
    PROVE  Apart'
<1>1. /\ UNCHANGED <<handler, auto>>
      /\ job[t] # "none" /\ \A u \in Targets : u # t => job'[u] = job[u]
  BY DEF JobStep, BodyEnds, Settle, FlagFalls, TypeOK
<1>2. CS2 \in Targets /\ CS2 \notin Plugins /\ Plugins \subseteq Targets
  BY PluginsAssumption DEF Targets
<1>3. auto = "asleep"
  BY <1>1, LoopOnItsWay DEF Apart
<1>4. \A h \in Handlers : handler[h].pc \notin {"raise", "start"}
  BY <1>1 DEF Apart, NoJobAhead
<1>5. \A p \in Plugins : job[p] = "none" => job'[p] = "none"
  BY <1>1, <1>2
<1>6. job'[CS2] \in {"working", "worked"} =>
        job[CS2] \in {"working", "worked"} /\ updating' = updating
  BY <1>1, <1>2 DEF JobStep, BodyEnds, Settle, FlagFalls, TypeOK
<1>7. UpdateAlone'
  BY <1>1, <1>5, <1>6 DEF Apart, UpdateAlone
<1> QED
  BY <1>1, <1>3, <1>4, <1>7
  DEF Apart, NoJobAhead, FlagUp, NotRefused, LoopFlagUp

\* The driver starts its job in a state that no update is on its way in.
LEMMA DriverApart ==
    ASSUME TypeOK, Apart, ~Crossing', DriverStarts
    PROVE  Apart'
<1>1. /\ driver.todo # << >> /\ UNCHANGED <<updating, handler, auto>>
      /\ Head(driver.todo) \in Plugins
      /\ job' = job \/ Begin(Head(driver.todo))
  BY DEF DriverStarts, TypeOK
<1>2. CS2 \in Targets /\ CS2 \notin Plugins /\ Plugins \subseteq Targets
  BY PluginsAssumption DEF Targets
<1>3. ~updating
  BY <1>1 DEF Apart, Crossing, DriverCrosses
<1>4. \A h \in Handlers : handler[h].pc \notin {"raise", "start"}
  BY <1>1, UpdateOnItsWay DEF Apart
<1>5. job'[CS2] = job[CS2]
  BY <1>1, <1>2, JobBegin
<1> QED
  BY <1>1, <1>3, <1>4, <1>5
  DEF Apart, NoJobAhead, FlagUp, UpdateAlone, LoopFlagUp, NotRefused

LEMMA LoopApart ==
    ASSUME TypeOK, Apart, ~Crossing', AutoReadsFlag \/ AutoStep
    PROVE  Apart'
<1>1. /\ UNCHANGED <<job, handler>>
      /\ auto' \in {"running", "ran"} => updating'
      /\ updating' = updating \/ auto # "asleep"
  BY DEF AutoReadsFlag, AutoStep, AutoLets, AutoRuns, AutoEnds, AutoLowersFlag,
         Apart, LoopFlagUp
<1>2. CS2 \in Targets
  BY DEF Targets
<1>3. auto # "asleep" => /\ \A h \in Handlers : handler[h].pc = "idle"
                         /\ job[CS2] = "none"
  BY <1>2, LoopOnItsWay DEF Apart
<1> QED
  BY <1>1, <1>3
  DEF Apart, NoJobAhead, FlagUp, UpdateAlone, LoopFlagUp, NotRefused

LEMMA NextApart ==
    ASSUME TypeOK, OnPlugins, Apart, ~Crossing', [Next]_vars
    PROVE  Apart'
<1>1. CASE UNCHANGED vars \/ \E h \in Handlers : Refuse(h)
  BY <1>1
  DEF Refuse, vars, Apart, NoJobAhead, FlagUp, UpdateAlone, LoopFlagUp, NotRefused
<1>2. CS2 \in Targets
  BY DEF Targets
<1> QED
  BY <1>1, <1>2, ReceiveApart, HandlerStepApart, JobStepApart, DriverApart, LoopApart
  DEF Next

LEMMA NextOnPlugins == TypeOK /\ OnPlugins /\ [Next]_vars => OnPlugins'
<1> SUFFICES ASSUME TypeOK, OnPlugins, [Next]_vars PROVE OnPlugins'
  OBVIOUS
<1>1. ASSUME UNCHANGED handler PROVE OnPlugins'
  BY <1>1 DEF OnPlugins
<1>2. ASSUME NEW h \in Handlers, NEW op \in Ops, NEW id \in Targets, Receive(h, op, id)
      PROVE  OnPlugins'
  <2>1. PICK pc : /\ handler' = [handler EXCEPT ![h] = [id |-> id, pc |-> pc]]
                  /\ op = "update" => pc = "read_jobs"
    BY <1>2 DEF Receive
  <2>2. op # "update" => id \in Plugins
    BY <1>2 DEF Receive, Targets
  <2> QED
    BY <2>1, <2>2 DEF OnPlugins, TypeOK, AtWork
<1>3. ASSUME NEW h \in Handlers, HandlerStep(h) PROVE OnPlugins'
  <2>1. PICK pc \in HandlerPCs : At(h, pc) /\ (pc = "uninstall" => handler[h].pc = "read_targets")
                                /\ pc \notin {"start_install", "read_targets", "sync"}
    <3>1. {"raise", "idle", "start", "lower", "uninstall"} \subseteq HandlerPCs
      BY DEF HandlerPCs
    <3> QED
      BY <1>3, <3>1
      DEF HandlerStep, UpdateReadsJobs, UpdateRaisesFlag, UpdateStarts, UpdateRefused,
          InstallStarts, SyncInstallEnds, UninstallReadsTargets, UninstallEnds
  <2> QED
    BY <2>1, HandlerAt DEF OnPlugins, AtWork
<1> QED
  BY <1>1, <1>2, <1>3
  DEF Next, vars, Refuse, JobStep, BodyEnds, Settle, FlagFalls, DriverStarts, AutoReadsFlag,
      AutoStep, AutoLets, AutoRuns, AutoEnds, AutoLowersFlag

LEMMA NextOverlap == OverlapInv /\ [OverlapNext]_<<vars, crossed>> => OverlapInv'
<1> SUFFICES ASSUME OverlapInv, [OverlapNext]_<<vars, crossed>> PROVE OverlapInv'
  OBVIOUS
<1>1. TypeOK' /\ OnPlugins'
  BY NextType, NextOnPlugins DEF OverlapInv, OverlapNext, vars
<1>2. CASE UNCHANGED <<vars, crossed>>
  <2>1. ~crossed => Apart'
    BY <1>2
    DEF OverlapInv, vars, Apart, NoJobAhead, FlagUp, UpdateAlone, LoopFlagUp, NotRefused, Crossing, RequestsCross, DriverCrosses, AutoCrosses, RunningTargets
  <2> QED
    BY <1>1, <1>2, <2>1 DEF OverlapInv
<1>3. CASE OverlapNext
  <2>1. crossed' = (Crossing' \/ (crossed /\ ~AtRest')) /\ [Next]_vars
    BY <1>3 DEF OverlapNext
  <2>2. crossed' \in BOOLEAN
    BY <2>1
  <2>3. ASSUME ~crossed' PROVE Apart'
    <3>1. ~Crossing' /\ (~crossed \/ AtRest')
      BY <2>1, <2>3 DEF OverlapInv
    <3>2. CASE AtRest'
      BY <3>1, <3>2, RestIsApart, PTL
    <3>3. CASE ~crossed
      BY <2>1, <3>1, <3>3, NextApart DEF OverlapInv
    <3> QED
      BY <3>1, <3>2, <3>3
  <2> QED
    BY <1>1, <2>2, <2>3 DEF OverlapInv
<1> QED
  BY <1>2, <1>3

THEOREM OverlapInvariance == OverlapSpec => []OverlapInv
BY InitOverlap, NextOverlap, PTL DEF OverlapSpec

\* With any number of clients, the boot driver and the loop at once, every
\* variable keeps its type.
THEOREM Typing == OverlapSpec => []TypeOK
<1>1. OverlapInv => TypeOK
  BY DEF OverlapInv
<1> QED
  BY <1>1, OverlapInvariance, PTL

\* What is at work in the registry jb, in the loop at au, and in the requests hd.
JobWork(t) == Activity(IF t = CS2 THEN "update" ELSE "install", t, "job")
LoopWork == Activity("update", CS2, "auto")
RequestWork(hd, h) == Activity(IF hd[h].pc = "sync" THEN "install" ELSE "uninstall", hd[h].id, h)

ByJobs(jb, a) == \E t \in Targets : jb[t] = "working" /\ a = JobWork(t)
ByLoop(au, a) == au = "running" /\ a = LoopWork
ByRequests(hd, a) == \E h \in Handlers : hd[h].pc \in AtWork /\ a = RequestWork(hd, h)

LEMMA AtWorkIs ==
    ASSUME NEW a
    PROVE  a \in Writing <=> ByJobs(job, a) \/ ByLoop(auto, a) \/ ByRequests(handler, a)
BY DEF Writing, ByJobs, ByLoop, ByRequests, JobWork, LoopWork, RequestWork

LEMMA AtWorkWillBe ==
    ASSUME NEW a
    PROVE  a \in Writing' <=> ByJobs(job', a) \/ ByLoop(auto', a) \/ ByRequests(handler', a)
BY DEF Writing, ByJobs, ByLoop, ByRequests, JobWork, LoopWork, RequestWork

\* While nobody crossed, an update's work is the only work.
LEMMA ApartAtWork ==
    ASSUME TypeOK, Apart
    PROVE  UpdateWritesAlone /\ FlagCoversUpdate
<1>1. CS2 \in Targets /\ CS2 \notin Plugins /\ Plugins \subseteq Targets
  BY PluginsAssumption DEF Targets
<1>2. CASE job[CS2] = "working"
  <2>1. /\ updating /\ \A h \in Handlers : handler[h].pc = "idle"
        /\ \A p \in Plugins : job[p] = "none"
    BY <1>2 DEF Apart, UpdateAlone
  <2>2. auto = "asleep"
    BY <1>1, <1>2, LoopOnItsWay DEF Apart
  <2>3. \A a \in Writing : a = Activity("update", CS2, "job")
    BY <2>1, <2>2, AtWorkIs DEF Targets, AtWork, ByJobs, ByLoop, ByRequests, JobWork
  <2> QED
    BY <2>1, <2>3 DEF UpdateWritesAlone, FlagCoversUpdate
<1>3. CASE auto = "running"
  <2>1. /\ \A h \in Handlers : handler[h].pc = "idle"
        /\ \A t \in Targets : job[t] = "none"
    BY <1>1, <1>3, LoopOnItsWay DEF Apart
  <2>2. updating
    BY <1>3 DEF Apart, LoopFlagUp
  <2>3. \A a \in Writing : a = Activity("update", CS2, "auto")
    BY <2>1, AtWorkIs DEF AtWork, ByJobs, ByLoop, ByRequests, LoopWork
  <2> QED
    BY <2>2, <2>3 DEF UpdateWritesAlone, FlagCoversUpdate
<1>4. CASE job[CS2] # "working" /\ auto # "running"
  <2>1. \A a \in Writing : a.kind # "update"
    <3>1. \A k, i, b : Activity(k, i, b).kind = k
      BY DEF Activity
    <3> QED
      BY <1>4, <3>1, AtWorkIs DEF ByJobs, ByLoop, ByRequests, JobWork, RequestWork
  <2> QED
    BY <2>1 DEF UpdateWritesAlone, FlagCoversUpdate
<1> QED
  BY <1>2, <1>3, <1>4

\* With any number of clients, the boot driver and the loop, an update writes
\* alone and under the flag unless two parties that do not look out for each
\* other crossed since everybody was last at rest (api.go's three guards).
THEOREM UpdateIsAloneUnlessCrossed == OverlapSpec => []UpdateAloneUnlessCrossed
<1>1. OverlapInv => UpdateAloneUnlessCrossed
  BY ApartAtWork DEF OverlapInv, UpdateAloneUnlessCrossed
<1> QED
  BY <1>1, OverlapInvariance, PTL

------------------------------------------------------------------------------
(***************************************************************************)
(* The guards as a lock.  What begins to write is set apart from every     *)
(* update by the theorem above, from jobs by the registry, and from what   *)
(* requests do themselves by nothing: the tangles.                         *)
(***************************************************************************)
LockStep == Lock!Next \/ Writing' = Writing

LEMMA Begins ==
    ASSUME UpdateWritesAlone', NEW a \in Lock!Activity, Writing' = Writing \union {a},
           \A b \in Writing : a.kind # "update" /\ b.kind # "update" /\ b # a => ~Lock!Clash(a, b)
    PROVE  LockStep
<1>1. CASE a \in Writing
  BY <1>1 DEF LockStep
<1>2. CASE a \notin Writing
  <2>1. \A b \in Writing : b # a /\ a.kind # "update" /\ b.kind # "update"
    BY <1>2 DEF UpdateWritesAlone
  <2>2. Lock!Begin(a)
    BY <2>1 DEF Lock!Begin
  <2> QED
    BY <2>2 DEF LockStep, Lock!Next
<1> QED
  BY <1>1, <1>2

LEMMA Ends ==
    ASSUME NEW a \in Lock!Activity, Writing' = Writing \ {a}
    PROVE  LockStep
BY DEF LockStep, Lock!Next, Lock!End

\* Activities that no two parties share.
LEMMA Fields ==
    ASSUME NEW kind, NEW id, NEW by
    PROVE  /\ Activity(kind, id, by).kind = kind /\ Activity(kind, id, by).id = id
           /\ Activity(kind, id, by).by = by
BY DEF Activity

LEMMA JobFields ==
    ASSUME NEW t \in Targets
    PROVE  /\ JobWork(t) \in Lock!Activity /\ JobWork(t).id = t /\ JobWork(t).by = "job"
           /\ JobWork(t).kind = IF t = CS2 THEN "update" ELSE "install"
BY DEF JobWork, Activity, Lock!Activity

LEMMA RequestFields ==
    ASSUME NEW h \in Handlers, NEW hd, hd[h].id \in Targets
    PROVE  /\ RequestWork(hd, h) \in Lock!Activity
           /\ RequestWork(hd, h).id = hd[h].id /\ RequestWork(hd, h).by = h
           /\ RequestWork(hd, h).kind = IF hd[h].pc = "sync" THEN "install" ELSE "uninstall"
BY DEF RequestWork, Activity, Lock!Activity

\* Requests that are not at work come and go without a trace.
LEMMA SameRequests ==
    ASSUME NEW h \in Handlers, \A g \in Handlers : g # h => handler'[g] = handler[g],
           handler[h].pc \notin AtWork, handler'[h].pc \notin AtWork, NEW a
    PROVE  ByRequests(handler', a) <=> ByRequests(handler, a)
BY DEF ByRequests, RequestWork

LEMMA SameJobs ==
    ASSUME \A t \in Targets : job'[t] = "working" <=> job[t] = "working", NEW a
    PROVE  ByJobs(job', a) <=> ByJobs(job, a)
BY DEF ByJobs

\* A job begins while it is in nobody's way.
LEMMA JobBegins ==
    ASSUME TypeOK, OnPlugins, UpdateWritesAlone', NEW t \in Targets, job[t] = "none", Begin(t),
           UNCHANGED auto, \A a : ByRequests(handler', a) <=> ByRequests(handler, a),
           \/ t = CS2
           \/ \A g \in Handlers : handler[g].pc \in AtWork => ~Related(handler[g].id, t)
    PROVE  LockStep
<1>1. JobWork(t) \in Lock!Activity
  BY JobFields
<1>2. /\ job'[t] = "working"
      /\ \A u \in Targets : u # t => job'[u] = job[u]
  BY JobBegin
<1>3. \A a : ByJobs(job', a) <=> ByJobs(job, a) \/ a = JobWork(t)
  BY <1>2 DEF ByJobs
<1>4. Writing' = Writing \union {JobWork(t)}
  BY <1>3, AtWorkIs, AtWorkWillBe DEF ByLoop
<1>5. ASSUME NEW b \in Writing, JobWork(t).kind # "update", b.kind # "update", b # JobWork(t)
      PROVE  ~Lock!Clash(JobWork(t), b)
  <2>1. t # CS2 /\ JobWork(t).kind = "install" /\ JobWork(t).id = t
    BY <1>5, JobFields
  <2>2. ASSUME NEW u \in Targets, job[u] = "working", b = JobWork(u)
        PROVE  b.id # t /\ b.kind = "install"
    BY <1>5, <2>2, JobFields
  <2>3. ASSUME NEW g \in Handlers, handler[g].pc \in AtWork, b = RequestWork(handler, g)
        PROVE  ~Related(b.id, t)
    <3>1. handler[g].id \in Targets
      BY DEF TypeOK
    <3> QED
      BY <2>1, <2>3, <3>1, RequestFields
  <2>4. ~ByLoop(auto, b)
    BY <1>5, Fields DEF ByLoop, LoopWork
  <2>5. ByJobs(job, b) \/ ByRequests(handler, b)
    BY <1>5, <2>4, AtWorkIs
  <2>6. (b.id # t /\ b.kind = "install") \/ ~Related(b.id, t)
    BY <2>2, <2>3, <2>5 DEF ByJobs, ByRequests
  <2> QED
    BY <1>5, <2>1, <2>6 DEF Lock!Clash, Related
<1> QED
  BY <1>1, <1>4, <1>5, Begins

\* A request begins to install or to uninstall while it is in nobody's way.
LEMMA RequestBegins ==
    ASSUME TypeOK, UpdateWritesAlone', NEW h \in Handlers, UNCHANGED <<job, auto>>,
           \A g \in Handlers : g # h => handler'[g] = handler[g],
           handler[h].pc \notin AtWork, handler'[h].pc \in AtWork, handler'[h].id \in Plugins,
           \A g \in Handlers : g # h /\ handler[g].pc \in AtWork =>
               ~Related(handler[g].id, handler'[h].id),
           \A t \in Targets : job[t] = "working" =>
               /\ t # handler'[h].id
               /\ handler'[h].pc = "uninstall" => <<t, handler'[h].id>> \notin DependsOn
    PROVE  LockStep
<1> DEFINE me == RequestWork(handler', h)
<1>1. /\ me \in Lock!Activity /\ me.id = handler'[h].id
      /\ me.kind = IF handler'[h].pc = "sync" THEN "install" ELSE "uninstall"
  <2>1. handler'[h].id \in Targets
    BY DEF Targets
  <2> QED
    BY <2>1, RequestFields
<1>2. \A a : ByRequests(handler', a) <=> ByRequests(handler, a) \/ a = me
  BY DEF ByRequests, RequestWork
<1> HIDE DEF me
<1>3. Writing' = Writing \union {me}
  BY <1>2, AtWorkIs, AtWorkWillBe DEF ByLoop
<1>4. ASSUME NEW b \in Writing, b.kind # "update" PROVE ~Lock!Clash(me, b)
  <2>1. ASSUME NEW t \in Targets, job[t] = "working", b = JobWork(t)
        PROVE  /\ b.id # me.id /\ b.kind = "install"
               /\ me.kind = "uninstall" => <<b.id, me.id>> \notin DependsOn
    <3>1. b.id = t /\ b.kind = "install"
      BY <1>4, <2>1, JobFields
    <3>2. me.kind = "uninstall" => handler'[h].pc = "uninstall"
      BY <1>1 DEF AtWork
    <3> QED
      BY <1>1, <2>1, <3>1, <3>2
  <2>2. ASSUME NEW g \in Handlers, handler[g].pc \in AtWork, b = RequestWork(handler, g)
        PROVE  ~Related(b.id, me.id)
    <3>1. handler[g].id \in Targets /\ g # h
      BY <2>2 DEF TypeOK
    <3> QED
      BY <1>1, <2>2, <3>1, RequestFields
  <2>3. ~ByLoop(auto, b)
    BY <1>4, Fields DEF ByLoop, LoopWork
  <2>4. ByJobs(job, b) \/ ByRequests(handler, b)
    BY <2>3, AtWorkIs
  <2>5. \/ /\ b.id # me.id /\ b.kind = "install"
           /\ me.kind = "uninstall" => <<b.id, me.id>> \notin DependsOn
        \/ ~Related(b.id, me.id)
    BY <2>1, <2>2, <2>4 DEF ByJobs, ByRequests
  <2>6. me.kind \in {"install", "uninstall"}
    BY <1>1
  <2> QED
    BY <1>4, <2>5, <2>6 DEF Lock!Clash, Related
<1> QED
  BY <1>1, <1>3, <1>4, Begins

\* A request that was at work is done.
LEMMA RequestEnds ==
    ASSUME TypeOK, NEW h \in Handlers, handler[h].pc \in AtWork, At(h, "idle"),
           UNCHANGED <<job, auto>>
    PROVE  LockStep
<1> DEFINE me == RequestWork(handler, h)
<1>1. handler'[h].pc \notin AtWork /\ \A g \in Handlers : g # h => handler'[g] = handler[g]
  BY HandlerAt DEF AtWork, HandlerPCs
<1>2. \A g \in Handlers : handler[g].id \in Targets
  BY DEF TypeOK
<1>3. /\ me \in Lock!Activity
      /\ \A g \in Handlers : g # h => RequestWork(handler, g) # me
  BY <1>2, RequestFields
<1>4. \A t \in Targets : JobWork(t) # me
  BY <1>2, RequestFields, JobFields, HandlersAssumption
<1>5. LoopWork # me
  BY <1>2, RequestFields, Fields, HandlersAssumption DEF LoopWork
<1>6. \A a : ByRequests(handler', a) <=> ByRequests(handler, a) /\ a # me
  BY <1>1, <1>3 DEF ByRequests, RequestWork
<1> HIDE DEF me
<1>7. Writing' = Writing \ {me}
  BY <1>4, <1>5, <1>6, AtWorkIs, AtWorkWillBe DEF ByJobs, ByLoop
<1> QED
  BY <1>3, <1>7, Ends

\* A job's body is done.
LEMMA JobEnds ==
    ASSUME TypeOK, NEW t \in Targets, BodyEnds(t)
    PROVE  LockStep
<1>1. /\ job[t] = "working" /\ job'[t] # "working" /\ UNCHANGED <<handler, auto>>
      /\ \A u \in Targets : u # t => job'[u] = job[u]
  BY DEF BodyEnds, TypeOK
<1>2. \A u \in Targets : u # t => JobWork(u) # JobWork(t)
  BY JobFields
<1>3. \A a : ByJobs(job', a) <=> ByJobs(job, a) /\ a # JobWork(t)
  BY <1>1, <1>2 DEF ByJobs
<1>4. \A h \in Handlers : RequestWork(handler, h) # JobWork(t)
  <2>1. \A g \in Handlers : handler[g].id \in Targets
    BY DEF TypeOK
  <2> QED
    BY <2>1, RequestFields, JobFields, HandlersAssumption
<1>5. LoopWork # JobWork(t)
  BY JobFields, Fields DEF LoopWork
<1>6. Writing' = Writing \ {JobWork(t)}
  BY <1>1, <1>3, <1>4, <1>5, AtWorkIs, AtWorkWillBe DEF ByLoop, ByRequests
<1> QED
  BY <1>6, JobFields, Ends

\* The loop begins its Run, or ends it.
LEMMA LoopWorks ==
    ASSUME TypeOK, UpdateWritesAlone', AutoReadsFlag \/ AutoStep
    PROVE  LockStep
<1>1. UNCHANGED <<job, handler>>
  BY DEF AutoReadsFlag, AutoStep, AutoLets, AutoRuns, AutoEnds, AutoLowersFlag
<1>2. LoopWork \in Lock!Activity /\ LoopWork.kind = "update"
  BY DEF LoopWork, Activity, Lock!Activity, Targets
<1>3. CASE auto' = "running"
  <2>1. Writing' = Writing \union {LoopWork}
    BY <1>1, <1>3, AtWorkIs, AtWorkWillBe DEF ByLoop
  <2> QED
    BY <1>2, <2>1, Begins
<1>4. CASE auto' # "running"
  <2>1. \A t \in Targets : JobWork(t) # LoopWork
    BY JobFields, Fields DEF LoopWork
  <2>2. \A h \in Handlers : RequestWork(handler, h) # LoopWork
    <3>1. \A g \in Handlers : handler[g].id \in Targets
      BY DEF TypeOK
    <3> QED
      BY <3>1, RequestFields, Fields, HandlersAssumption DEF LoopWork
  <2>3. Writing' = Writing \ {LoopWork}
    BY <1>1, <1>4, <2>1, <2>2, AtWorkIs, AtWorkWillBe DEF ByJobs, ByLoop, ByRequests
  <2> QED
    BY <1>2, <2>3, Ends
<1> QED
  BY <1>3, <1>4

\* Nobody begins and nobody ends.
LEMMA NobodyWorks ==
    ASSUME UNCHANGED <<auto>>, \A t \in Targets : job'[t] = "working" <=> job[t] = "working",
           \A a : ByRequests(handler', a) <=> ByRequests(handler, a)
    PROVE  LockStep
<1>1. Writing' = Writing
  BY SameJobs, AtWorkIs, AtWorkWillBe DEF ByLoop
<1> QED
  BY <1>1 DEF LockStep

LEMMA ReceiveLocks ==
    ASSUME TypeOK, OnPlugins', UpdateWritesAlone', ~Tangled', NEW h \in Handlers,
           NEW op \in Ops, NEW id \in Targets, Receive(h, op, id)
    PROVE  LockStep
<1> DEFINE pc == CASE op = "update"    -> "read_jobs"
                   [] op = "install"   -> "start_install"
                   [] op = "sync"      -> "sync"
                   [] op = "uninstall" -> "read_targets"
<1>1. pc \in {"read_jobs", "start_install", "sync", "read_targets"}
  BY OpsAssumption
<1>2. handler' = [handler EXCEPT ![h] = [id |-> id, pc |-> pc]] /\ handler[h].pc = "idle"
      /\ UNCHANGED <<updating, job, auto, driver>>
  BY DEF Receive
<1> HIDE DEF pc
<1>3. /\ handler'[h].pc = pc /\ handler'[h].id = id /\ handler[h].pc \notin AtWork
      /\ \A g \in Handlers : g # h => handler'[g] = handler[g]
  BY <1>2 DEF TypeOK, AtWork
<1>4. CASE pc # "sync"
  <2>1. handler'[h].pc \notin AtWork
    BY <1>1, <1>3, <1>4 DEF AtWork
  <2> QED
    BY <1>2, <1>3, <2>1, SameRequests, NobodyWorks
<1>5. CASE pc = "sync"
  <2>1. handler'[h].pc \in AtWork /\ id \in Plugins
    BY <1>3, <1>5 DEF AtWork, OnPlugins
  <2>2. \A g \in Handlers : g # h /\ handler[g].pc \in AtWork =>
            ~Related(handler[g].id, handler'[h].id)
    BY <1>3, <2>1 DEF Tangled, RequestsTangle
  <2>3. job[id] = "none"
    BY <1>2, <1>3, <1>5 DEF Tangled, SyncTangles
  <2>4. \A t \in Targets : job[t] = "working" =>
            t # handler'[h].id /\ handler'[h].pc # "uninstall"
    BY <1>3, <1>5, <2>3
  <2> QED
    BY <1>2, <1>3, <2>1, <2>2, <2>4, RequestBegins
<1> QED
  BY <1>4, <1>5

LEMMA HandlerLocks ==
    ASSUME TypeOK, OnPlugins, UpdateWritesAlone', ~Tangled, NEW h \in Handlers, HandlerStep(h)
    PROVE  LockStep
<1>1. {"raise", "idle", "start", "lower", "uninstall"} \subseteq HandlerPCs /\ CS2 \in Targets
  BY DEF HandlerPCs, Targets
<1>2. ASSUME NEW pc \in {"raise", "idle", "start", "lower"}, At(h, pc), handler[h].pc \notin AtWork
      PROVE  \A a : ByRequests(handler', a) <=> ByRequests(handler, a)
  BY <1>1, <1>2, HandlerAt, SameRequests DEF AtWork
<1>3. CASE UpdateReadsJobs(h) \/ UpdateRaisesFlag(h) \/ UpdateRefused(h)
  <2>1. PICK pc \in {"raise", "idle", "start"} : At(h, pc)
    BY <1>3 DEF UpdateReadsJobs, UpdateRaisesFlag, UpdateRefused
  <2>2. handler[h].pc \notin AtWork /\ UNCHANGED <<job, auto>>
    BY <1>3 DEF UpdateReadsJobs, UpdateRaisesFlag, UpdateRefused, AtWork
  <2> QED
    BY <1>2, <2>1, <2>2, NobodyWorks
<1>4. CASE UpdateStarts(h)
  <2>1. PICK pc \in {"idle", "lower"} : At(h, pc)
    BY <1>4 DEF UpdateStarts
  <2>2. handler[h].pc \notin AtWork /\ UNCHANGED auto
        /\ IF job[CS2] = "none" THEN Begin(CS2) ELSE UNCHANGED job
    BY <1>4 DEF UpdateStarts, AtWork
  <2>3. \A a : ByRequests(handler', a) <=> ByRequests(handler, a)
    BY <1>2, <2>1, <2>2
  <2> QED
    BY <1>1, <2>2, <2>3, JobBegins, NobodyWorks
<1>5. CASE InstallStarts(h)
  <2>1. /\ At(h, "idle") /\ handler[h].pc = "start_install" /\ UNCHANGED auto
        /\ IF job[handler[h].id] = "none" THEN Begin(handler[h].id) ELSE UNCHANGED job
    BY <1>5 DEF InstallStarts
  <2>2. handler[h].pc \notin AtWork /\ handler[h].id \in Targets
    BY <2>1 DEF AtWork, TypeOK
  <2>3. \A a : ByRequests(handler', a) <=> ByRequests(handler, a)
    BY <1>2, <2>1, <2>2
  <2>4. \A g \in Handlers : handler[g].pc \in AtWork => ~Related(handler[g].id, handler[h].id)
    BY <2>1, <2>2 DEF Tangled, RequestsTangle
  <2> QED
    BY <2>1, <2>2, <2>3, <2>4, JobBegins, NobodyWorks
<1>6. CASE SyncInstallEnds(h) \/ UninstallEnds(h)
  BY <1>6, RequestEnds DEF SyncInstallEnds, UninstallEnds, AtWork
<1>7. CASE UninstallReadsTargets(h)
  <2> DEFINE id == handler[h].id
  <2> DEFINE blocked == \E t \in RunningTargets : t = id \/ <<t, id>> \in DependsOn
  <2>1. /\ handler[h].pc = "read_targets" /\ UNCHANGED <<job, auto>>
        /\ At(h, IF blocked THEN "idle" ELSE "uninstall")
    BY <1>7 DEF UninstallReadsTargets
  <2>2. handler[h].pc \notin AtWork /\ id \in Plugins
    BY <2>1 DEF AtWork, OnPlugins
  <2>3. CASE blocked
    BY <1>2, <2>1, <2>2, <2>3, NobodyWorks
  <2>4. CASE ~blocked
    <3>1. /\ handler'[h].pc = "uninstall" /\ handler'[h].id = id
          /\ \A g \in Handlers : g # h => handler'[g] = handler[g]
      BY <1>1, <2>1, <2>4, HandlerAt
    <3>2. \A t \in Targets : job[t] = "working" => t # id /\ <<t, id>> \notin DependsOn
      BY <2>4 DEF RunningTargets
    <3>3. \A g \in Handlers : g # h /\ handler[g].pc \in AtWork => ~Related(handler[g].id, id)
      BY <2>1 DEF Tangled, RequestsTangle
    <3>4. handler'[h].pc \in AtWork
      BY <3>1 DEF AtWork
    <3> HIDE DEF blocked
    <3> QED
      BY <2>1, <2>2, <3>1, <3>2, <3>3, <3>4, RequestBegins
  <2> QED
    BY <2>3, <2>4
<1> QED
  BY <1>3, <1>4, <1>5, <1>6, <1>7 DEF HandlerStep

LEMMA DriverLocks ==
    ASSUME TypeOK, OnPlugins, UpdateWritesAlone', ~Tangled, DriverStarts
    PROVE  LockStep
<1> DEFINE id == Head(driver.todo)
<1>1. /\ driver.todo # << >> /\ UNCHANGED <<handler, auto>>
      /\ IF job[id] = "none" THEN Begin(id) ELSE UNCHANGED job
  BY DEF DriverStarts
<1>2. driver.todo \in Seq(Plugins)
  BY DEF TypeOK
<1>3. 1 \in DOMAIN driver.todo /\ driver.todo[1] = id /\ id \in Plugins
  BY <1>1, <1>2
<1>4. id \in Targets
  BY <1>3 DEF Targets
<1>5. \A g \in Handlers : handler[g].pc \in AtWork => ~Related(handler[g].id, id)
  BY <1>3 DEF Tangled, DriverTangles
<1> HIDE DEF id
<1>6. \A a : ByRequests(handler', a) <=> ByRequests(handler, a)
  BY <1>1 DEF ByRequests, RequestWork
<1> QED
  BY <1>1, <1>4, <1>5, <1>6, JobBegins, NobodyWorks

LEMMA NextLocks ==
    ASSUME OverlapInv, [OverlapNext]_<<vars, crossed>>, OverlapInv', ~crossed', ~Tangled, ~Tangled'
    PROVE  LockStep
<1>1. TypeOK /\ OnPlugins /\ OnPlugins' /\ UpdateWritesAlone'
  <2>1. TypeOK' /\ Apart'
    BY DEF OverlapInv
  <2>2. UpdateWritesAlone'
    BY <2>1, ApartAtWork, PTL
  <2> QED
    BY <2>2 DEF OverlapInv
<1>2. CASE UNCHANGED vars \/ \E h \in Handlers : Refuse(h)
  BY <1>2 DEF LockStep, Refuse, vars, Writing
<1>3. ASSUME NEW t \in Targets, Settle(t) \/ FlagFalls PROVE LockStep
  <2>1. UNCHANGED <<handler, auto>>
    BY <1>3 DEF Settle, FlagFalls
  <2>2. \A u \in Targets : job'[u] = "working" <=> job[u] = "working"
    BY <1>1, <1>3 DEF Settle, FlagFalls, TypeOK
  <2>3. \A a : ByRequests(handler', a) <=> ByRequests(handler, a)
    BY <2>1 DEF ByRequests, RequestWork
  <2> QED
    BY <2>1, <2>2, <2>3, NobodyWorks
<1>4. CS2 \in Targets
  BY DEF Targets
<1> QED
  BY <1>1, <1>2, <1>3, <1>4, ReceiveLocks, HandlerLocks, JobEnds, DriverLocks, LoopWorks
  DEF OverlapNext, Next, JobStep, vars

\* Whoever begins to write to the tree finds nobody in its way: no update, no
\* writer of the same plugin, and for an uninstall no install that needs the
\* plugin, directly or not (the guards of api.go's three handlers and ErrBusy of
\* jobs.go), but for parties that crossed and for work that is in no registry.
THEOREM GuardsActAsLock == OverlapSpec => LockUnlessCrossed
<1>1. OverlapInv /\ [OverlapNext]_<<vars, crossed>> /\ OverlapInv' =>
        [crossed' \/ Tangled \/ Tangled' \/ Lock!Next \/ Writing' = Writing]_<<vars, crossed>>
  BY NextLocks DEF LockStep
<1> QED
  BY <1>1, OverlapInvariance, PTL DEF OverlapSpec, LockUnlessCrossed
==============================================================================
