------------------------------- MODULE Updater -------------------------------
(***************************************************************************)
(* Keeping the CS2 install at Steam's build (internal/agent/updater.go).   *)
(* Three goroutines use one Updater:                                       *)
(*                                                                         *)
(*   "auto"   RunAutoLoop: a timer wakes autoPass, which checks and, with  *)
(*            auto_update, applies the update itself;                      *)
(*   "job"    the background job of POST /server/update, which runs Run;   *)
(*   "check"  POST /server/update/check, which runs Check(force).          *)
(*                                                                         *)
(* The requests that POST /server/update are goroutines of their own: they *)
(* read the flag, read the registry, raise the flag and start the job, and *)
(* one that finds the job started by another lowers the flag again.        *)
(*                                                                         *)
(* The Updater's mutex guards single fields, never a whole Check or Run:   *)
(* what a goroutine read before a steamcmd call may be old after it.  An   *)
(* action is what happens between two points where another goroutine,      *)
(* Steam, systemd or a player can get in.                                  *)
(***************************************************************************)
EXTENDS Naturals

CONSTANTS
    Actors,       \* which of "auto", "job" and "check" the instance has
    Posts,        \* POSTs of /server/update that can be in progress at once
    AutoUpdate,   \* cfg.AutoUpdate
    MaxBuild,     \* bound: how far Steam's build number goes
    MaxPlayers,   \* bound: humans on the server
    Faults        \* what the environment may do, see below

\* app_info, app_update: steamcmd fails to answer, or to install
\* stop, start:          systemctl stop times out, systemctl start fails
\* game:                 the game process dies and systemd restarts it
\* agent:                the agent dies and is restarted
\* operator:             the panel's Start and Stop buttons
\* players:              humans join and leave
\* rcon:                 the game runs but does not answer RCON
AllFaults == {"app_info", "app_update", "stop", "start", "game", "agent",
              "operator", "players", "rcon"}

ASSUME ActorsAssumption == Actors \subseteq {"auto", "job", "check"}
ASSUME PostsAssumption == Posts # {} => "job" \in Actors
ASSUME AutoUpdateAssumption == AutoUpdate \in BOOLEAN
ASSUME BoundsAssumption == MaxBuild \in Nat \ {0} /\ MaxPlayers \in Nat
ASSUME FaultsAssumption == Faults \subseteq AllFaults

VARIABLES
    steam,      \* Steam's build of the public branch
    local,      \* buildid in appmanifest_730.acf; 0: no manifest
    unit,       \* the game server's systemd unit
    players,    \* humans connected to it
    cache,      \* remoteBuild (0: none) and whether it is younger than the TTL
    avail,      \* availableSince # zero, shown as Available
    pending,    \* pendingPlayers
    check,      \* lastErr # "", and what kind of comparison set lastCheck
    updating,   \* the flag the API's guards read
    at,         \* where each goroutine is, and its local variables
    post        \* where each POST is

world == <<steam, local, unit, players>>
known == <<cache, avail, pending, check>>
vars  == <<steam, local, unit, players, cache, avail, pending, check, updating, at, post>>

Builds == 1..MaxBuild

Checking == {"asking", "told", "answered"}
Running  == {"run", "run_asking", "run_told", "uptodate", "probe", "stop",
             "steamcmd", "verify", "giveup", "clear", "restart", "finish"}
PCs == {"idle", "decide", "go", "report", "settle"} \union Checking \union Running
PostPCs == {"idle", "read_jobs", "raise", "start", "lower"}

Idle == [pc |-> "idle", seen |-> 0, got |-> 0, was |-> FALSE,
         stopped |-> FALSE, beside |-> FALSE, disturbed |-> FALSE,
         raced |-> FALSE, res |-> "none"]

NoPost == [pc |-> "idle", beside |-> FALSE]

TypeOK ==
    /\ steam \in Builds
    /\ local \in 0..MaxBuild
    /\ unit \in {"active", "inactive", "stopping", "restarting"}
    /\ players \in 0..MaxPlayers
    /\ cache \in [build : 0..MaxBuild, fresh : BOOLEAN]
    /\ avail \in BOOLEAN
    /\ pending \in BOOLEAN
    /\ check \in [err : BOOLEAN, last : {"never", "success", "failure"}]
    /\ updating \in BOOLEAN
    /\ at \in [Actors -> [pc : PCs,
                          seen : 0..MaxBuild,   \* the local build it read
                          got  : 0..MaxBuild,   \* the remote build it was told
                          was  : BOOLEAN,       \* wasActive
                          stopped : BOOLEAN,    \* history: this Run stopped the unit
                          beside  : BOOLEAN,    \* history: another Run overlapped it
                          disturbed : BOOLEAN,  \* history: somebody else changed the
                                                \* unit's state during this Run
                          raced : BOOLEAN,      \* history: a POST was in progress when
                                                \* this Run began, other than its own,
                                                \* or its own was not alone
                          res  : {"none", "ok", "error", "unstopped", "unstarted"}]]
    /\ post \in [Posts -> [pc : PostPCs,
                           beside : BOOLEAN]]   \* history: a Run or another POST
                                                \* overlapped it

\* What an agent process knows when it starts.
FreshMemory ==
    /\ cache = [build |-> 0, fresh |-> FALSE]
    /\ avail = FALSE
    /\ pending = FALSE
    /\ check = [err |-> FALSE, last |-> "never"]
    /\ updating = FALSE
    /\ at = [a \in Actors |-> Idle]
    /\ post = [p \in Posts |-> NoPost]

Init ==
    /\ steam = 1
    /\ local \in {0, 1}
    /\ unit \in {"active", "inactive"}
    /\ players = 0
    /\ FreshMemory

Goto(a, pc) == at' = [at EXCEPT ![a].pc = pc]

InRun(a) == at[a].pc \in Running

InProgress(p) == post[p].pc # "idle"

\* A Run begins, perhaps while another one is in progress.
BeginRun(a, raced) ==
    LET others == {b \in Actors \ {a} : InRun(b)} IN
    at' = [b \in Actors |->
             IF b = a THEN [at[a] EXCEPT !.pc = "run", !.beside = others # {}, !.raced = raced]
             ELSE [at[b] EXCEPT !.beside = @ \/ b \in others]]

Finish(a, res) == at' = [at EXCEPT ![a].pc = "finish", ![a].res = res]

------------------------------------------------------------------------------
(***************************************************************************)
(* Asking Steam: RemoteBuildID.  steamcmd runs with the mutex released, so *)
(* the answer is a moment old when it is stored.                           *)
(***************************************************************************)

\* The pc that follows while asking, after the answer, and after a failure.
Told == [asking |-> "told", run_asking |-> "run_told"]

\* mutant: the cached answer never expires
UsesCacheForever(a) == a = "auto" /\ at[a].pc = "asking" /\ cache.build # 0

\* Only the loop's Check is content with a cached answer; the "check" endpoint
\* and Run force a fresh one.
UsesCache(a) == a = "auto" /\ at[a].pc = "asking" /\ cache.build # 0 /\ cache.fresh

AnswerFromCache(a) ==
    /\ UsesCache(a)
    /\ at' = [at EXCEPT ![a].pc = "answered", ![a].got = cache.build]
    /\ UNCHANGED <<world, known, updating, post>>

SteamAnswers(a) ==
    /\ at[a].pc \in DOMAIN Told
    /\ ~UsesCache(a)
    /\ at' = [at EXCEPT ![a].pc = Told[@], ![a].got = steam]
    /\ UNCHANGED <<world, known, updating, post>>

\* steamcmd fails, times out, or prints no buildid.
SteamIsSilent(a) ==
    /\ "app_info" \in Faults
    /\ at[a].pc \in DOMAIN Told
    /\ ~UsesCache(a)
    /\ IF at[a].pc = "asking"
       THEN at' = [at EXCEPT ![a].pc = "answered", ![a].got = 0]
       ELSE Finish(a, "error")
    /\ UNCHANGED <<world, known, updating, post>>

\* The answer goes into the cache.  Run then compares it with what it read
\* before it asked.
StoreAnswer(a) ==
    /\ at[a].pc \in {"told", "run_told"}
    /\ cache' = [build |-> at[a].got, fresh |-> TRUE]
    /\ Goto(a, IF at[a].pc = "told" THEN "answered"
               ELSE IF at[a].got = at[a].seen THEN "uptodate" ELSE "probe")
    /\ UNCHANGED <<world, avail, pending, check, updating, post>>

------------------------------------------------------------------------------
(***************************************************************************)
(* Check, and the loop around it.                                          *)
(***************************************************************************)

\* POST /server/update/check: read the manifest, then ask.
CheckBegin ==
    /\ "check" \in Actors
    /\ at["check"].pc = "idle"
    /\ at' = [at EXCEPT !["check"].pc = "asking", !["check"].seen = local]
    /\ UNCHANGED <<world, known, updating, post>>

\* The timer wakes autoPass: nothing to do while an update is running, else
\* read the manifest, then ask.
Wake ==
    /\ "auto" \in Actors
    /\ at["auto"].pc = "idle"
    /\ ~updating
    /\ at' = [at EXCEPT !["auto"].pc = "asking", !["auto"].seen = local]
    /\ UNCHANGED <<world, known, updating, post>>

Outdated(a) == at[a].seen # at[a].got

\* mutant: an answer that says "current" leaves the badge up
RecordOnlyDifference(a) ==
    /\ at[a].pc = "answered"
    /\ LET failed == at[a].seen = 0 \/ at[a].got = 0
           available == avail \/ (~failed /\ Outdated(a))
       IN  /\ check' = [err |-> failed, last |-> IF failed THEN "failure" ELSE "success"]
           /\ avail' = available
           /\ UNCHANGED pending
           /\ at' = [at EXCEPT ![a] = IF a = "auto" /\ available /\ AutoUpdate
                                      THEN [Idle EXCEPT !.pc = "decide"] ELSE Idle]
    /\ UNCHANGED <<world, cache, updating, post>>

\* Check takes the mutex again and records the comparison of what it read.  A
\* failed one leaves the badge as it was.  autoPass goes on when the snapshot
\* says Available and the config lets it.
Record(a) ==
    /\ at[a].pc = "answered"
    /\ LET failed == at[a].seen = 0 \/ at[a].got = 0
           available == IF failed THEN avail ELSE Outdated(a)
       IN  /\ check' = [err |-> failed, last |-> IF failed THEN "failure" ELSE "success"]
           /\ avail' = available
           /\ pending' = (pending /\ (failed \/ available))
           /\ at' = [at EXCEPT ![a] = IF a = "auto" /\ available /\ AutoUpdate
                                      THEN [Idle EXCEPT !.pc = "decide"] ELSE Idle]
    /\ UNCHANGED <<world, cache, updating, post>>

\* humanPlayers: the RCON view's count, and zero when there is no such view.
Counts == {players} \union (IF "rcon" \in Faults THEN {0} ELSE {})

CountPlayers ==
    /\ "auto" \in Actors
    /\ at["auto"].pc = "decide"
    /\ \E n \in Counts :
         IF n > 0
         THEN pending' = TRUE /\ Goto("auto", "idle")
         ELSE pending' = FALSE /\ Goto("auto", "go")
    /\ UNCHANGED <<world, cache, avail, check, updating, post>>

AutoBegin ==
    /\ "auto" \in Actors
    /\ at["auto"].pc = "go"
    /\ updating' = TRUE
    /\ BeginRun("auto", \E p \in Posts : InProgress(p))
    /\ post' = [p \in Posts |-> [post[p] EXCEPT !.beside = InProgress(p)]]
    /\ UNCHANGED <<world, known>>

------------------------------------------------------------------------------
(***************************************************************************)
(* POST /server/update.  (TreeGate has the requests and jobs of plugins    *)
(* that stand in its way.)                                                 *)
(***************************************************************************)

\* Refused with 409 while the flag is up.
PostReadsFlag(p) ==
    /\ post[p].pc = "idle"
    /\ ~updating
    /\ LET others == {q \in Posts \ {p} : InProgress(q)}
           alone == others = {} /\ \A a \in Actors : ~InRun(a)
       IN  post' = [q \in Posts |->
                      IF q = p THEN [pc |-> "read_jobs", beside |-> ~alone]
                      ELSE [post[q] EXCEPT !.beside = @ \/ q \in others]]
    /\ UNCHANGED <<world, known, updating, at>>

PostGoto(p, pc) == post' = [post EXCEPT ![p].pc = pc]

\* RunningTargets, of which the update's own job is one until the registry has
\* settled it: 409.
PostReadsJobs(p) ==
    /\ post[p].pc = "read_jobs"
    /\ IF at["job"].pc = "idle" THEN PostGoto(p, "raise")
                                ELSE post' = [post EXCEPT ![p] = NoPost]
    /\ UNCHANGED <<world, known, updating, at>>

PostRaisesFlag(p) ==
    /\ post[p].pc = "raise"
    /\ updating' = TRUE
    /\ PostGoto(p, "start")
    /\ UNCHANGED <<world, known, at>>

PostStarts(p) ==
    /\ post[p].pc = "start"
    /\ IF at["job"].pc = "idle"
       THEN BeginRun("job", post[p].beside) /\ post' = [post EXCEPT ![p] = NoPost]
       ELSE PostGoto(p, "lower") /\ UNCHANGED at
    /\ UNCHANGED <<world, known, updating>>

\* ErrBusy: the flag is lowered, whoever else has raised it.
PostRefused(p) ==
    /\ post[p].pc = "lower"
    /\ updating' = FALSE
    /\ post' = [post EXCEPT ![p] = NoPost]
    /\ UNCHANGED <<world, known, at>>

------------------------------------------------------------------------------
(***************************************************************************)
(* Run.                                                                    *)
(***************************************************************************)

RunBegin(a) ==
    /\ at[a].pc = "run"
    /\ IF local = 0
       THEN Finish(a, "error")
       ELSE at' = [at EXCEPT ![a].pc = "run_asking", ![a].seen = local]
    /\ UNCHANGED <<world, known, updating, post>>

\* What is installed is, as far as the agent knows, what Steam has.
ClearAvailable ==
    /\ avail' = FALSE
    /\ pending' = FALSE
    /\ cache' = [build |-> local, fresh |-> TRUE]
    /\ check' = [check EXCEPT !.err = FALSE]

AlreadyCurrent(a) ==
    /\ at[a].pc = "uptodate"
    /\ ClearAvailable
    /\ Finish(a, "ok")
    /\ UNCHANGED <<world, updating, post>>

\* mutant: an update leaves every server running
ProbeAssumingActive(a) ==
    /\ at[a].pc = "probe"
    /\ at' = [at EXCEPT ![a].was = TRUE,
                        ![a].pc = IF unit = "active" THEN "stop" ELSE "steamcmd"]
    /\ UNCHANGED <<world, known, updating, post>>

\* IsActive: "activating" (between a crash and systemd's restart) and
\* "deactivating" are not "active".
Probe(a) ==
    /\ at[a].pc = "probe"
    /\ at' = [at EXCEPT ![a].was = (unit = "active"),
                        ![a].pc = IF unit = "active" THEN "stop" ELSE "steamcmd"]
    /\ UNCHANGED <<world, known, updating, post>>

\* mutant: the game server is left running under steamcmd
StopNothing(a) ==
    /\ at[a].pc = "stop"
    /\ Goto(a, "steamcmd")
    /\ UNCHANGED <<world, known, updating, post>>

StopUnit(a) ==
    /\ at[a].pc = "stop"
    /\ unit' = "inactive"
    /\ players' = 0
    /\ at' = [at EXCEPT ![a].pc = "steamcmd", ![a].stopped = TRUE]
    /\ UNCHANGED <<steam, local, known, updating, post>>

\* systemctl is killed after 60 s; systemd goes on stopping the unit.
StopTimesOut(a) ==
    /\ "stop" \in Faults
    /\ at[a].pc = "stop"
    /\ unit' = IF unit = "active" THEN "stopping" ELSE unit
    /\ Finish(a, "unstopped")
    /\ UNCHANGED <<steam, local, players, known, updating, post>>

\* steamcmd app_update ends, after writing to the game tree all the while: it
\* has brought the install to Steam's build, or it has not, whatever it said.
SteamcmdInstalls(a) ==
    /\ at[a].pc = "steamcmd"
    /\ local' = steam
    /\ Goto(a, "verify")
    /\ UNCHANGED <<steam, unit, players, known, updating, post>>

SteamcmdFails(a) ==
    /\ "app_update" \in Faults
    /\ at[a].pc = "steamcmd"
    /\ Goto(a, "verify")
    /\ UNCHANGED <<world, known, updating, post>>

\* mutant: steamcmd's word is taken for it
VerifyNothing(a) ==
    /\ at[a].pc = "verify"
    /\ Goto(a, "clear")
    /\ UNCHANGED <<world, known, updating, post>>

\* "trust the manifest over the log line"
Verify(a) ==
    /\ at[a].pc = "verify"
    /\ Goto(a, IF local = at[a].got THEN "clear" ELSE "giveup")
    /\ UNCHANGED <<world, known, updating, post>>

\* systemctl start, which waits for a stop in progress and does nothing to an
\* active unit.  The outcomes: the unit is up, or it is not.
StartUnit(up) ==
    /\ up \/ ("start" \in Faults /\ unit # "active")
    /\ unit' = IF up THEN "active" ELSE "inactive"
    /\ players' = IF up THEN players ELSE 0

\* The install is not what was asked for: put the server back up and report
\* steamcmd's error.  Start's own is dropped; that it failed is history here.
GiveUp(a) ==
    /\ at[a].pc = "giveup"
    /\ IF at[a].was
       THEN \E up \in BOOLEAN : StartUnit(up) /\ Finish(a, IF up THEN "error" ELSE "unstarted")
       ELSE UNCHANGED <<unit, players>> /\ Finish(a, "error")
    /\ UNCHANGED <<steam, local, known, updating, post>>

Installed(a) ==
    /\ at[a].pc = "clear"
    /\ ClearAvailable
    /\ IF at[a].was THEN Goto(a, "restart") ELSE Finish(a, "ok")
    /\ UNCHANGED <<world, updating, post>>

RestartUnit(a) ==
    /\ at[a].pc = "restart"
    /\ \E up \in BOOLEAN : /\ StartUnit(up)
                           /\ Finish(a, IF up THEN "ok" ELSE "unstarted")
    /\ UNCHANGED <<steam, local, known, updating, post>>

After(a) == CASE a = "job" -> [Idle EXCEPT !.pc = "settle"]
              [] a = "auto" /\ at[a].res # "ok" -> [Idle EXCEPT !.pc = "report"]
              [] OTHER -> Idle

\* mutant: the job forgets to lower the flag
EndWithFlagUp(a) ==
    /\ at[a].pc = "finish"
    /\ at' = [at EXCEPT ![a] = After(a)]
    /\ UNCHANGED <<world, known, updating, post>>

\* Run has returned: the job's defer, or autoPass, lowers the flag.
End(a) ==
    /\ at[a].pc = "finish"
    /\ updating' = FALSE
    /\ at' = [at EXCEPT ![a] = After(a)]
    /\ UNCHANGED <<world, known, post>>

\* The registry records the job's outcome: its target is free again.
JobSettles(a) ==
    /\ at[a].pc = "settle"
    /\ Goto(a, "idle")
    /\ UNCHANGED <<world, known, updating, post>>

\* recordCheckError: the loop shows the error of the Run it made itself.
ReportError ==
    /\ "auto" \in Actors
    /\ at["auto"].pc = "report"
    /\ check' = [err |-> TRUE, last |-> "failure"]
    /\ Goto("auto", "idle")
    /\ UNCHANGED <<world, cache, avail, pending, updating, post>>

------------------------------------------------------------------------------
(***************************************************************************)
(* Steam, time, systemd, players, the operator, and the agent's own death. *)
(***************************************************************************)
SteamPublishes ==
    /\ steam < MaxBuild
    /\ steam' = steam + 1
    /\ UNCHANGED <<local, unit, players, known, updating, at, post>>

CacheExpires ==
    /\ cache.fresh
    /\ cache' = [cache EXCEPT !.fresh = FALSE]
    /\ UNCHANGED <<world, avail, pending, check, updating, at, post>>

SetUnit(from, to) ==
    /\ unit = from
    /\ unit' = to
    /\ players' = IF to = "active" THEN players ELSE 0
    /\ at' = [a \in Actors |-> [at[a] EXCEPT !.disturbed = @ \/ InRun(a)]]
    /\ UNCHANGED <<steam, local, known, updating, post>>

UnitStopped == SetUnit("stopping", "inactive")

\* Restart=on-failure: the game dies, and is back some seconds later.
GameDies == "game" \in Faults /\ SetUnit("active", "restarting")

GameBack == SetUnit("restarting", "active")

\* The panel's buttons; the API does not look at the updating flag for them.
OperatorStarts == "operator" \in Faults /\ SetUnit("inactive", "active")
OperatorStops  == "operator" \in Faults /\ SetUnit("active", "inactive")

PlayersMove ==
    /\ "players" \in Faults
    /\ unit = "active"
    /\ players' \in 0..MaxPlayers
    /\ UNCHANGED <<steam, local, unit, known, updating, at, post>>

\* The agent dies and systemd starts it again.  Its steamcmd dies with it (they
\* share a control group); the game server is a unit of its own.
AgentRestarts ==
    /\ "agent" \in Faults
    /\ cache' = [build |-> 0, fresh |-> FALSE]
    /\ avail' = FALSE
    /\ pending' = FALSE
    /\ check' = [err |-> FALSE, last |-> "never"]
    /\ updating' = FALSE
    /\ at' = [a \in Actors |-> Idle]
    /\ post' = [p \in Posts |-> NoPost]
    /\ UNCHANGED world

------------------------------------------------------------------------------
\* One goroutine's next step, once it has begun.
Step(a) ==
    \/ AnswerFromCache(a) \/ SteamAnswers(a) \/ SteamIsSilent(a) \/ StoreAnswer(a)
    \/ Record(a)
    \/ RunBegin(a) \/ AlreadyCurrent(a) \/ Probe(a) \/ StopUnit(a) \/ StopTimesOut(a)
    \/ SteamcmdInstalls(a) \/ SteamcmdFails(a) \/ Verify(a) \/ GiveUp(a)
    \/ Installed(a) \/ RestartUnit(a) \/ End(a) \/ JobSettles(a)

PostStep(p) == PostReadsJobs(p) \/ PostRaisesFlag(p) \/ PostStarts(p) \/ PostRefused(p)

AutoStep == CountPlayers \/ AutoBegin \/ ReportError

Environment ==
    \/ SteamPublishes \/ CacheExpires \/ UnitStopped \/ GameDies \/ GameBack
    \/ OperatorStarts \/ OperatorStops \/ PlayersMove \/ AgentRestarts

Next ==
    \/ \E a \in Actors : Step(a)
    \/ \E p \in Posts : PostReadsFlag(p) \/ PostStep(p)
    \/ AutoStep
    \/ Wake \/ CheckBegin
    \/ Environment

Spec == Init /\ [][Next]_vars

\* The goroutines never stop by themselves (every systemctl and steamcmd call
\* has a timeout), the timer keeps firing, time passes, and systemd finishes
\* what it began.  Nothing makes an operator, a player or Steam act.
Fairness ==
    /\ \A a \in Actors : WF_vars(Step(a))
    /\ \A p \in Posts : WF_vars(PostStep(p))
    /\ WF_vars(AutoStep)
    /\ WF_vars(Wake)
    /\ WF_vars(CacheExpires)
    /\ WF_vars(UnitStopped)
    /\ WF_vars(GameBack)

\* Steam does not fail every single time: the question that the loop asks again
\* and again is answered some time, and so is its download.
SteamFairness ==
    "auto" \in Actors =>
        /\ \A pc \in DOMAIN Told : SF_vars(at["auto"].pc = pc /\ SteamAnswers("auto"))
        /\ SF_vars(SteamcmdInstalls("auto"))

FairSpec == Spec /\ Fairness /\ SteamFairness

------------------------------------------------------------------------------
(***************************************************************************)
(* Properties.                                                             *)
(***************************************************************************)
\* What else meddles with the unit during a Run: another Run, a button of the
\* panel, systemd's restart of a game that died or its completion of a stop that
\* was given up.  No guard keeps any of these away.
Undisturbed(a) == ~at[a].beside /\ ~at[a].disturbed

\* The game does not run while steamcmd rewrites its files: an update is
\* applied "with the game server stopped first, because steamcmd replaces files
\* the server has open" (updater.go, Updater), unless somebody else starts it.
StoppedWhileWriting ==
    \A a \in Actors : at[a].pc = "steamcmd" /\ Undisturbed(a) => unit # "active"

\* A Run that stopped the server has it running again when it returns ("then
\* restore the server to the state it was found in", updater.go, Run), after
\* success and after failure, unless the stop or the start is what failed, or
\* somebody else meddled with the unit.
RestoresServer ==
    \A a \in Actors :
        at[a].pc = "finish" /\ at[a].res \in {"ok", "error"} /\ at[a].was /\ Undisturbed(a)
            => unit = "active"

\* "updating an offline server leaves it offline": the agent starts no unit but
\* one that the same Run stopped, whatever else goes on.
StartsOnlyWhatItStopped ==
    [][unit # "active" /\ unit' = "active" =>
         \/ \E a \in Actors : at[a].stopped /\ at[a].pc \in {"giveup", "restart"}
         \/ \A a \in Actors : at'[a].pc = at[a].pc]_vars

\* A Run that reports success has the build it asked for on disk, or a newer one
\* that an overlapping Run put there, however steamcmd's exit code and log lines
\* looked: "trust the manifest over the log line" (Run).
SuccessIsInstalled ==
    \A a \in Actors : at[a].pc = "finish" /\ at[a].res = "ok" => local >= at[a].got

\* The flag the API's guards read is up only while a Run is in progress or the
\* POST that raised it is about to start one, and it is up all through a Run
\* that no other one overlaps and whose POST was the only one.  Both exceptions
\* are real.  autoPass reads the flag before its Check and sets it after: of two
\* overlapping Runs the first to return lowers the flag of the other.  And a
\* POST whose job is refused lowers the flag of the POST that was not.
FlagIsHonest ==
    /\ updating => \/ \E a \in Actors : InRun(a)
                   \/ \E p \in Posts : post[p].pc \in {"start", "lower"}
    /\ \A a \in Actors : InRun(a) /\ ~at[a].beside /\ ~at[a].raced => updating

\* A server found running is running again some time after the update began.
EventuallyBack ==
    \A a \in Actors : at[a].pc = "stop" /\ unit = "active" ~> unit = "active" /\ ~InRun(a)

\* With auto_update, on a server that stays empty, the install catches up with
\* Steam and stays there, through failures of steamcmd.
EventuallyCurrent ==
    <>[](players = 0) /\ [](local # 0) => <>[](local = steam)

\* A server that was up when an update began is down while steamcmd writes, and
\* up again when the update has ended either way.
DownOnlyWhileWriting == StoppedWhileWriting /\ RestoresServer

\* The loop neither falls behind for good nor leaves the server down for good.
CatchesUpAndComesBack == EventuallyCurrent /\ EventuallyBack

==============================================================================
