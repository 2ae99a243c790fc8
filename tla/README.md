# cs2a, specified

TLA+ specifications of cs2a, the panel and agent that run a Counter-Strike 2
server, with the TLC runs that check them and the proofs that TLAPS checks.
Every definition is translated from the Go source under `src/`; `PROJECT.json`
names, for each one, the lines it stands for.

Contents

1. The system
2. The modules, and how they correspond to the code
3. The runs, their bounds, and what they show
4. Fairness
5. The theorems
6. What the code does not promise
7. What is only model-checked, and what is not modelled
8. The plan

## 1. The system

    browser --HTTP--> cs2a-panel --HTTP, bearer--> cs2a-agent --+-- systemd (the game unit)
                      sessions,                    root,        +-- steamcmd (the game tree)
                      accounts,                    one process  +-- RCON, A2S (the game)
                      SQLite                                    +-- files: server.cfg, whitelist.txt,
                                                                |   core.cfg, agent.json
                                                                +-- SQLite (plugins), MySQL (loadouts)

Both programs serve each request in a goroutine of its own. The agent has more
goroutines: one per background job, the auto-update loop, and at boot the
driver that installs what the bootstrap asked for. There is no lock around a
whole request. Single fields have a mutex (the `Updater`, the `Jobs` registry);
what a handler reads before a steamcmd call, an RCON command or another read
may be old when it acts on it. That is the main theme of these specifications.

| Part | State | Operations | Meets | Hard behaviours | What makes it correct |
|---|---|---|---|---|---|
| Job registry (`internal/agent/jobs.go`) | a map of jobs by id, in memory | `Start`, progress reports, settling, `Get`, `List`, `RunningTargets`, reaping | update and plugin handlers, boot driver | starts that race, reports after the end, reaping by age | one body per target; work in flight is listed; a settled job is quiet |
| Updater (`updater.go`) | the manifest on disk; a cached remote build, the badge, the flag, in memory | `Check`, `Run`, `autoPass`, `RunAutoLoop` | steamcmd, systemd, the gate below | long calls without the mutex, failing and hanging systemctl, an agent that dies in between, players who come and go | the game is down while its files are written and up again after; success means installed; the badge is true; the server catches up |
| Update and install gate (`api.go`) | the flag and the registry | three handlers' guards, the boot driver, the auto loop | all of the above | guard and work are separate steps | an update writes alone; the flag covers it and comes down |
| Plugin installer (`plugins.go`) | files in the game tree, archives in a cache, rows in SQLite | `install` with its dependencies, `Uninstall` | job registry, catalog | every step fails, installs share dependencies | requirements of what is installed are installed; rows describe the disk |
| Pending plugins (`main.go`, `InstallPending`, `config.go`) | `agent.json` and two copies of it in memory | boot, the driver's jobs, the callback that writes the file | RCON repair, panel installs | kills, failing writes, two writers with old copies | nothing asked for is forgotten; nothing cleared comes back |
| Whitelist (`whitelist.go`, `pages.go`) | `whitelist.txt`, `core.cfg`; a list, a cvar and a cache in the plugin | replace the list, toggle, install; panel read-modify-write | RCON, the game | lost commands, two switches, two requests | never an enforced empty list; file and plugin agree |
| RCON client (`internal/rcon`) | one TCP connection | `Dial`, `ExecContext`, `Fire` | the game | split answers, pauses, late packets, hang-ups | an answer is whole and one's own, or there is an error |
| Sessions (`panel/store.go`, `server.go`) | a row, the cookie, a map in memory | login, sliding refresh, logout, sweep | browser | requests side by side, restarts | idle sessions die, used ones live, ended ones stay ended |
| Accounts (`panel/pages.go`, `store.go`) | the users table, the setup token | setup, create, change role, delete | sessions | checks and writes are separate statements | an administrator remains |
| Lifecycle actions (`control.go`, `systemd.go`) | the unit's state, restart count and times, kept by systemd | start, stop, restart; status | systemd, two operators | automatic restarts underneath, start limits, polling | what a button answers is true; a loop is told as one |
| Settings and password (`server.go`, `cs2/cfg.go`) | a block of `server.cfg`; the cvars of the game | save, set password, repair RCON, live push, reload | RCON, the operator's editor | three writers without a lock, pushes cut short | the operator's text and the rows of others survive; the game plays by the file |
| Map change and map env (`mapenv.go`, `server.go`) | the map in an environment file, the map played | change, record, reload | RCON, the game | record after command, commands lost, two requests | the next start plays what was chosen |
| Login throttle (`panel/throttle.go`) | failures per address and account | `retryAfter`, `failed`, `succeeded`, `sweep` | sign-in | a slow hash between check and count, a full map | guesses are bounded |
| Capability cache (`panel/caps.go`) | one cached answer | get, fetch, put, reset | the agent | late answers, lost answers | the tab follows the plugin |
| Loadouts (`loadout.go`, `panel/pages.go`) | a row in the agent's store, rows in the plugin's tables | validate, save, synchronise | MySQL | several tabs, failing statements | what was saved is what the game reads |
| Downloads (`fetch.go`) | a file on disk | attempts, mirrors, protocols | upstream | truncated bodies, broken paths | a download is one whole body |
| Files of plugins (`extract.go`, `patch.go`, `ownership.go`) | the game tree | extract, patch, hand over, remove | installer | wrappers, failures part of the way | what is recorded is there; an uninstall is exact |
| Atomic files (`internal/fsatomic`) | a file and its temporaries | write | the game, the operator | deaths and writers between the steps | never a part of a file, never one the game cannot read |
| A2S client (`internal/a2s`) | one socket | Info, Players | the game | lost, late, doubled and reordered datagrams | an answer is one whole reply; queries return |

`PROJECT.json` lists the components with their sources, and under `hazards`
what in this code is hard to test, at its line, with the properties that would
catch it going wrong.

## 2. The modules, and how they correspond to the code

A variable is a field, a file, a row or the position of a goroutine; an action
is everything one goroutine does between two points at which another one can
get in (a mutex taken or released, a file or database call, an RCON or steamcmd
call). Variables that the code does not have are called *history* where they
are declared: they record what happened, and no guard reads them. They let a
property name the exact circumstances in which the code keeps it.

**KeyedLock** is what the job registry promises: at most one holder per key,
taken and released. **Jobs** is the registry: entries with status, step, bytes
and age; `Start` (or `StartBusy`), the body's goroutine from `Return` to
`Settle`, `Report` with its 100 ms rule, `reapLocked` inside `Start`. The
goroutine of a job outlives what the registry shows of it, so `body` is a
variable of its own. `Jobs` implements `KeyedLock` with the goroutines at work
as holders.

**Updater** has one record per goroutine (`at`): where it is, and its locals
(`seen`, `got`, `was`). `RemoteBuildID` is asking, being told, and storing the
answer: three steps, as the mutex is free while steamcmd runs. `Run` is
`RunBegin`, `Probe` (IsActive), `StopUnit`, `steamcmd`, `Verify` (the manifest
decides), `GiveUp` or `Installed`, `RestartUnit`, `End`. The environment is
Steam publishing, systemd finishing a stop or restarting a crashed game,
players, the operator's buttons, and the agent's death, which loses all that is
kept in memory. The constant `Faults` says which of these an instance has. The
requests that POST an update are goroutines of their own (`post`): reading the
flag, reading the registry, raising the flag and starting the job are one step
each, and a POST that finds the job started lowers the flag again
(`PostRefused`). The job's target is busy from the start of its body until the
registry has settled it (`JobSettles`).

**Badge** adds two history variables to `Updater`: which goroutines another one
has been under way beside (`mixed`), and whether the badge may be wrong since
such a pair, or since a job that failed after it had asked Steam (`muddled`).
`SetsRight` names the steps that end this: a comparison of two known builds, or
an install, by a goroutine that nobody came between.

**Catalog** holds the entries and what each requires. **TreeLock** is what the
guards of the API promise: updates exclude everything, and an uninstall
excludes installs that need what it removes. **TreeGate** has the guards as
single reads: `Receive` reads the flag, `UpdateReadsJobs` the registry,
`UpdateRaisesFlag` and `UpdateStarts` are steps of their own, and so are the
boot driver's `DriverStarts` and the loop's `AutoReadsFlag` and `AutoRuns`. A
job is seen here as the keyed lock that `Jobs` is proved to implement.
**TreeGateOverlaps** adds a history variable, `crossed`: whether two parties that
do not look out for each other have been under way at once since the last time
that nothing was. It names three such crossings: two requests of which one is
an update, the driver beside an update, the loop beside a job or a request.
`Tangled` is the other thing that the guards do not see: work that a request
does itself (a synchronous install, an uninstall) is in no registry. Up to
these, `LockUnlessCrossed` says that every step of the gate is one of `TreeLock`
or leaves alone who writes.

**Installer** refines what an install is. A process is a stack of calls of
`install()`, because it calls itself for a missing dependency; an error unwinds
the stack. Disk, cache and database are changed one by one: the archive is
downloaded under a name that only depends on entry and version (`tmp`), the
files are extracted (`disk`: absent, part, whole), the row is written
(`recorded`). `Uninstall` checks, removes and forgets.

**PendingPlugins** composes the boot sequence of `main`, the driver of
`InstallPending`, its jobs, and the two in-memory copies of the config: `main`'s
and the one that `Server` was given, which `setRCONAddr` corrects and writes.
Each write of the file is the whole copy of its writer.

**Whitelist** has the two files, the plugin's three copies, and the requests
as steps: the panel's read and PUT, the agent's check and write, the two RCON
commands. The plugin and the game are external: they are modelled from what
the comments and commands of `whitelist.go` rely on.

**Rcon** has both ends of a connection and the wire between them. A packet is a
frame with the call it answers, the kind of id, a size class and its place in
the answer; a full-size packet promises another. The client's `readPacket` is
`Whole`, `Late`, `HangUpSeen`, `BadSize` or `Misread`, and every loop of the
client takes one of them. A deadline in the middle of a frame leaves the rest
of it on the wire, as `Garbage`.

**Sessions** follows one session with its row, cookie and entry in the
`touched` map; the middleware's read, refresh, mark, check and unmark are steps.
**Accounts** has the roles and the requests; the panel's reads and the
database's statements are steps. Neither has passwords or names.

**Settings** has `server.cfg` as a sequence of lines with the two markers, the
cvars of the game that runs, and three kinds of request. Each reads the block,
works out new rows, reads the file again, writes it, and pushes the rows one
RCON command at a time; a save that sets the quota to zero kicks the bots, a
password reloads the map. The splitting of the file at its markers
(`internal/cs2/cfg.go`) is written as operators on sequences. The operator
edits the file by hand, markers included.

**MapEnv** has the map of the environment file and the map that is played; a
change fires the command and then records, a password asks for the map and then
reloads it. **Control** has a unit as systemd keeps it (restart count, start
times, start limit), the three buttons with `ResetFailed`, the call and the
settle loop, and what the code concludes.

**A2S** has the client's states for one socket, the server's replies as
sequences of fields tagged with the reply they belong to, and a network that is
a set of datagrams. The fields let a property see a value that was put together
from two replies. **Fetch** numbers the attempts over all mirrors and has the
file as the sequence of chunks, each with its attempt. **PluginFiles** has the
game tree as a function from paths to the entry and owner of the file, for one
catalog entry of each shape (own directories, files inside another's, prefix to
strip, post-install files). **AtomicFile** has the steps of `write` for several
writers.

**Throttle** counts failures per key with attempts in flight between
`retryAfter` and `failed`. **CapsCache** has the cached answer with its age, the
pages that are fetching one, and the requests that reset it: an uninstall when it
is done, an install when its job has begun (`pages.go:571`). **Loadout** has
the two stores and the statements of a save in every order that Go's maps give.

Most modules have a type invariant. Those of `Jobs`, `Updater`, `TreeGate` and
`Installer` are theorems; every other proof has its own as the first conjunct of
its inductive invariant. The run `requests` checks that of `Jobs`. The others hold
in the runs of their modules too; they document the state and are not listed
among the runs' properties.

The modules that begin with `MC` give the constants their values. Most of them
hold several components that share no state (**MCAgent**, **MCRequests**,
**MCServer**, **MCParts**). Interleaving those would multiply their
states and show nothing new, so a variable `focus`, chosen at the start, says
which of them a behaviour moves; the others stay as they are at the start. The
properties of a component are then its own, and those that must make something
happen are stated for the behaviours that have it in focus. Assumptions of an
instanced module are assumed again in its `MC` module, where TLC evaluates them.
**MCUpdater**, **MCInstaller**, **MCTreeGate** and **MCRcon** hold one component each.
The theorems are in **UpdaterProofs**, **TreeGateProofs**, **InstallerProofs** and
**RconProofs**, each about the component of its name, and in **RequestsProofs**,
**AgentProofs**, **PartsProofs** and **ServerProofs**, about the components that the
`MC` module of that name puts beside each other.

A definition whose comment says *mutant* is not part of a specification: it is
a plausible bug in the definition that follows it, and the run of the property
named in `PROJECT.json` fails with it.

## 3. The runs, their bounds, and what they show

| Run | Configuration | Components | Bounds | Distinct states |
|---|---|---|---|---|
| `requests` | `Requests` | Jobs; Whitelist | 2 ids, 2 targets, 3 reports, 1 tick of retention; 2 players, 1 malformed id, 2 requests; symmetry | 881,790 |
| `agent` | `Agent` | Updater with Badge; PendingPlugins | loop and check; 3 builds, 1 player; 2 plugins and an id the catalog lost, every event and fault | 80,388 |
| `updater_meddled` | `UpdaterMeddled` | Updater | loop, job, check, 2 POSTs; 2 builds, 1 player; every fault but RCON's; `FewAtOnce`; symmetry | 969,184 |
| `gate_many` | `TreeGate` | TreeGate, TreeGateOverlaps, TreeLock | 2 requests, driver, loop; 2 plugins | 207,948 |
| `installer` | `Installer` | Installer | 2 processes, 2 entries, every fault; symmetry | 1.1 million |
| `server` | `Server` | Settings; MapEnv; Control | 2 requests, 1 edit, 1 boot, 2 values, 12 lines; 2 operators, 3 changes, 4 maps; 2 presses, 5 ticks; symmetry | 1.3 million |
| `rcon` | `Rcon` | Rcon | scripts exec-exec and fire; answers of up to 3 packets, limit 2; 1 foreign frame | 4.6 million |
| `parts` | `Parts` | Sessions, Accounts, Throttle, CapsCache, Loadout, A2S, Fetch, PluginFiles, AtomicFile | see below | 295,956 |
| `sessions_map` | `SessionsMap` | Sessions | 2 requests | violation |
| `update_flag` | `UpdateFlag` | TreeGate | 2 requests, updates only | violation |
| `crash_loop` | `CrashLoop` | Control | 1 operator, a unit restarted two polls after each death | violation |
| `root_config` | `RootConfig` | PluginFiles | the five shapes of entries | violation |

Some properties of a run are conjunctions of two or three that are stated and
explained by name in the module; the names in parentheses are their parts. What
the runs check, and why the bounds are enough:

* **requests.** Of the registry, two jobs can be on one target at once or one
  after the other, and one on each. A third id only repeats this. One tick tells
  "finished long ago" from "just finished". `OneBodyPerTarget`; `WorkIsListed` (no reaping of work in
  flight, whose zero finish time reads as long ago); `ProgressIsTrue`
  (`QuietWhenSettled` and `FreshestBytes`: no progress after the end, and the
  100 ms rule never shows an old count); `ImplementsKeyedLock`. Of the whitelist,
  two players and two requests: a removal can empty a list or not, and any two
  requests can overlap. `EnforcedNotEmpty`, `PluginFollowsFiles` (`SwitchesAgree`
  and `DecisionsAreCurrent`), `AppendOnlyAdds`; the histories `overlaps` and
  `missed` are their only exceptions.
* **agent.** Of updates, the loop beside the check of the panel's button, which
  is how a stale comparison comes to be recorded last. `BadgeIsTrue` (at rest,
  unless `muddled`); `UpdatesEnd` (`EventuallyCurrent` and `EventuallyBack`) under
  fairness, with steamcmd failing in both of its uses, players and RCON. Three
  builds let Steam publish during a Run and again after it; that is what a stale
  cache or a badge that is not cleared needs to show. The job of the button is
  left to the theorem: with it too the run is beyond TLC's time. At boot an id, its
  dependency, and one that no catalog has, over any number of boots:
  `PendingIsServed` (`NothingForgotten` and `BootEnds`) and `CopiesDoNotUndo`
  (`ClearedStaysCleared` and `CorrectionSurvives`).
* **updater_meddled.** All goroutines, and two POSTs of an update, so that one can be
  refused by the other at each of its steps, with systemctl and steamcmd
  failing, a game that dies, an agent that dies, and an operator.
  `StartsOnlyWhatItStopped` and `SuccessIsInstalled` survive all of it without an
  exception. `DownOnlyWhileWriting` (`StoppedWhileWriting` and `RestoresServer`) says
  what a Run promises for the server, unless another Run overlaps it (the history
  `beside`) or somebody else changes the unit during the Run (`disturbed`).
  `FlagIsHonest` says that the flag is up for a reason, and that it is up all
  through a Run that no other Run overlaps and whose POST was the only one
  (`raced` is the history of the second; the run `update_flag` shows that it is
  needed). Two builds are enough for an update; a second job cannot exist; a third
  POST meets what the second does; one player decides whether the loop begins a Run.
  The constraint `FewAtOnce` keeps the run short: the check of the button, which
  touches neither unit nor manifest nor flag, is followed up only where nothing
  else is at work (beside the loop it is in the run `agent`), a player only where no
  POST and no job is, and two POSTs at once only between the passes of the loop. A
  POST beside a pass, and two POSTs beside a job, are all there; the theorems know
  no such bound.
* **gate_many.** Two requests, the boot driver and the loop at once.
  `UpdateAloneUnlessCrossed` says that an update writes alone and under the flag
  except while two requests are between guard and work, while the driver has
  a list, or while the loop is in a pass; and that the guards hold again once
  all are done. `LockUnlessCrossed` says the same of installs and uninstalls as an
  action property: who begins to write, in the whole of the gate, finds nobody in
  its way, unless by a crossing or by work that no registry has. Two plugins, one
  of which requires the other, are all that the uninstall guard tells apart; the
  theorem is about any catalog. `FlagIsLowered` says that the flag never sticks.
* **installer.** Two processes suffice for every pair of operations to overlap,
  two entries for a nested install, a shared dependency and an entry that is
  required; longer chains only nest deeper. `DependenciesStayMet` holds for any
  overlap of installs and any failure; `RowsAreTrue` (`RecordedOnDisk`,
  `ArchiveIsWhole`, `DependenciesOnDisk`) names its exceptions (`spoiled`,
  `beside`).
* **server.** Two requests on a file that has an orphan marker and an overridden
  row from the start, so that the splitting at the markers matters; one edit by
  the operator deletes any line, doubles the file (which makes twelve lines of the
  first six), or adds a row inside or below the block. Two of the requests are
  enough for each to lose the other's rows. `FileIsKept` (`OperatorTextKept` and
  `RowsKept`) and `GameFollowsFile` (`LiveFollowsFile` and `PasswordLocks`). Three
  map changes by two operators let a change overlap a reload and be followed by
  another: `MapSurvivesRestart`. Two presses and five polls, with a settle window of
  2, a loop of 2 restarts and a limit of 3 starts in 8 polls, keep the order of the
  real windows (6 s, 4 restarts, 5 starts in 60 s), let a unit be restarted within
  and beyond the settle window, and let systemd give it up in both cases:
  `ButtonsAnswerTruly` (`VerdictIsTrue` and `GivenUpIsTold`).
* **rcon.** Two commands on a connection, so that what is late of the first can
  meet the second. Answers of one packet, of several and of more than the limit
  allows occur. `OwnAnswer` and `AnswersAreTrue` (`WholeAnswer` and
  `HungUpIsReported`).
* **parts.** *Sessions:* two requests; the clocks keep the order of the real
  ones (touch < idle < cap) and are all different, and the horizon goes past the
  cap by more than an idle window less one; time passes only between requests, as
  a request is short against a tick. `StaysSignedIn`, `SessionEnds`
  (`DiesWhenIdle` and `EndedStaysEnded`). *Accounts:* three accounts and two
  requests are two administrators and another who act on each other.
  `AccountsHold` (`AdminRemains`, with overlapping requests as the exception, and
  `GoneStaysGone`). *Throttle:* two addresses on one account in a map of two
  places, so that a third key finds it full; a lock falls, ends and is swept in
  five ticks. `GuessesAreBounded`. *CapsCache:* two pages around an install and
  an uninstall. `TabFollowsPlugin` (`StaleOnlyBriefly`, and `ResetIsFollowed`: after an
  answered click the cache is right, but for a fetch from before an uninstall or
  from during an install's job).
  *Loadout:* two tabs and three saves, so that a crossed pair of saves can be
  followed by one that is alone. `SavedApplies`. *A2S:* an Info and a Players on
  one socket, three replies of up to three fragments, one doubled datagram,
  fields cut off at the end, a split reply whose id looks like a challenge.
  `WholeReply`, `QueriesReturn`. *Fetch:* two mirrors with three attempts each,
  two sizes, a cap of two chunks. `DownloadIsWhole` (`FileIsOneBody` and
  `PathIsSurvived`). *PluginFiles:* one entry of each shape of the catalog, with
  and without wrappers, failing anywhere. `InstalledIsThere`,
  `UninstallIsExact`. *AtomicFile:* two writers, every mode and owner, one
  change by the operator, a death between any two steps. `GameReadsTheFile`.

Four runs end with a violation; each shows that a comment of the code says what
the code does not do (`findings` quotes them):

* **sessions_map**: two goroutines in the unguarded map `Store.touched` at once.
* **update_flag**: of two clients who press "update", the one that is refused lowers
  the flag of the other, whose Run then writes to the game tree without it.
* **crash_loop**: between two restarts a looping unit is shown as running.
* **root_config**: the config that the WeaponPaints install writes stays root's.

`CHECK_DEADLOCK FALSE` stands where the system may really stop: `server` and
`crash_loop` (the bounds on requests, edits and boots are used up and the game is
down), `rcon` (a connection's script ends), `parts` (a download, a query or a
write is over; a session is gone), and `sessions_map` (a session is gone).

## 4. Fairness

Only four modules state any. In the runs `agent` and `parts`, which hold several
components, the fairness of a component is the premise of its liveness property
(`UpdatesEnd`, `PendingIsServed`, `QueriesReturn`); in `gate_many` it is part of the
specification.

* `Updater!Fairness` and `SteamFairness`: every goroutine goes on, because each systemctl and
  steamcmd call has a timeout; the timer of `RunAutoLoop` fires; a cached answer
  gets old; systemd finishes a stop and a restart. Strong fairness for Steam's
  answers to the loop, and for the loop's download, says that Steam does not fail
  every single time. Nothing makes
  players leave, an operator act, or Steam publish.
* `TreeGate!Fairness`: what has begun goes on: handlers, the bodies of jobs
  (whose context ends after 30 minutes), the driver's polling, the loop's pass.
  Nothing makes a client ask.
* `PendingPlugins!Fairness`: the driver's loop goes on and each job ends.
* `A2S!Fairness`: the deadline of the query passes (`setDeadline` gives every
  read one), a read behind it fails, and a client that has all fragments goes
  on. Nothing is asked of the server or the network.

## 5. The theorems

A run checks a property on a small instance. A theorem states it for every value
of the constants, with no bound on the number of goroutines, requests, entries or
steps. Where a property of a run is proved, the theorem is about the same
definition, and where that lives in an `MC` module, about the specification that
the run checks. Each safety theorem has an inductive invariant, checked by TLC
before it was proved; below is why the property alone would not do.

**UpdaterProofs** (any subset of the three goroutines, any number of POSTs, any faults,
builds, players)

* `ServerIsRestored` (`DownOnlyWhileWriting`), `SuccessInstalls`
  (`SuccessIsInstalled`), `HonestFlag` (`FlagIsHonest`), `Typing`, and the action
  property `StartsOnlyItsOwn` (`StartsOnlyWhatItStopped`). All speak of a goroutine
  in the middle of a `Run`, while unit, manifest and flag are shared. The invariant
  says what each goroutine still knows of them: `wasActive` is set by the probe
  alone and means that the unit was stopped (`WasIsWhatItStopped`); the manifest
  only grows past what was read of it (`ReadsStayBelow`); a Run that nobody meddled
  with finds the unit as it left it (`UnitIsAsLeft`); two Runs in progress are both
  marked (`OverlapsAreMarked`).
* `HonestFlag` holds with POSTs that refuse one another at any step. For it, the
  invariant says what a POST that nothing overlapped knows: nobody runs, and the
  flag and the registry are as it found or left them (`PostIsAlone`); that of a Run
  that such a POST began the flag is up and keeps further POSTs out
  (`RunIsCovered`); and that a raised flag has somebody who will lower it
  (`FlagHasReason`).

**TreeGateProofs** (any catalog, dependency relation and boot list; any number of
requests, with driver and loop)

* `UpdateIsAloneUnlessCrossed` (`UpdateAloneUnlessCrossed`) and `Typing`. The invariant
  says what each program counter of a request implies for flag and registry as
  long as nobody crossed, and that two who do not look out for each other are
  recorded as crossing (`Apart`).
* `GuardsActAsLock` (`LockUnlessCrossed`): from the same invariant, every step begins
  or ends one activity as `TreeLock` allows, or changes none. It needs, besides,
  what the guards compare: a running job's target, the plugin asked for, and the
  dependencies between them.

**InstallerProofs** (any catalog, processes, requests and faults; stacks of any depth)

* `RequirementsStayMet` (`DependenciesStayMet`). A call knows its requirements
  installed long before it records its own row, and deeper calls come and go in
  between. So the invariant goes over all frames of a stack: what a call requires is
  recorded, still to do, or being installed by the call right above it (`Needs`).
  The catalog is not assumed to be free of cycles: an entry that requires itself is
  shown never to be recorded, as its call would wait for itself
  (`RowsAreSelfless`).
* `RowsTellTheTruth` (`RowsAreTrue`): a recorded entry whose files are not whole is
  in the hands of someone who extracts or removes it (`RowIsTrue`,
  `AboutToBeTrue`), and an archive that nobody else may write is whole when opened.
* `Typing`.

**RequestsProofs**, the job registry (`Jobs`, any ids, targets, reports and retention)

* `Typing`, `WorkListed`, `OneBody`. `OneBodyPerTarget` says nothing of a body whose
  entry was reaped or settled; `IInv` relates the registry's map to the
  goroutines: an entry is running while its body works or has returned and not
  settled, and each target has at most one such entry.
* `TrueProgress` (`ProgressIsTrue`). A report that comes after the end of its job
  must find the entry settled, and one that the 100 ms rule swallows must leave what
  a later one will correct.
* `Refinement`: every behaviour of `Jobs` is one of `KeyedLock`.

**RequestsProofs**, the whitelist (any players, malformed ids and requests)

* `NeverLockedOut` (`EnforcedNotEmpty`), `PluginFollows` (`PluginFollowsFiles`) and
  `AddingOnlyAdds` (`AppendOnlyAdds`). Each holds up to a conflict that the code does
  not exclude; `ConflictsNoted` says that those in progress are on record, and
  without them a request half way still holds what it read (`Lockout`, `Lists`,
  `Switches`) and which command it owes to the plugin (`Follows`).

**AgentProofs** (any goroutines, POSTs and builds; any plugins that the bootstrap asks for)

* `BadgeTellsTheTruth` (`BadgeIsTrue`), for the loop, the job and the check together and
  for every fault. Between storing an answer and recording the comparison the badge
  may be old, and with another goroutine beside it the comparison may be. The
  invariant says of a goroutine that nobody came between that what it holds is what
  the manifest and the cache have (`Knows`), that the badge is right except while it
  judges (`Shown`), and that whoever had company is on record, and the badge with it
  (`MixedAreMarked`). So the next goroutine that is alone sets the badge right. The
  run has no job; the invariant was checked by TLC with one.
* `NothingIsForgotten` (`NothingForgotten`, the safety half of `PendingIsServed`): an
  id the bootstrap asked for is installed, on its way or still in the file; for
  that, the copies in memory and the file have to agree on what is pending as far
  as the repair of RCON lets them (`CopiesAgree`, `DriverHasThem`,
  `FileRemembers`).
* `NeitherCopyUndoes` (`CopiesDoNotUndo`), an action property from the same invariant.

**RconProofs** (any scripts of calls, sizes of answers, limits and noise)

* `AnswersAreOwn` (`OwnAnswer`) and `AnswersTellTheTruth` (`AnswersAreTrue`, that is
  `WholeAnswer` and `HungUpIsReported`). The properties are about packets that were
  read; what decides them is what has not been read yet. The invariant takes the
  frames on the wire and those the server has still to write as one sequence,
  `Stream`, so that writing a frame changes nothing. The first theorem needs that
  the stream is in order (`InOrder`: packets of one answer rise, behind those
  that were read, and a command that the server has not taken has none), and that
  a command is on its way once, before its marker (`Requested`).
* The second needs, for the call that reads, that what it read and what is to come
  make up the answer (`InExec`). What it read is a prefix of the answer, and all of
  it unless the last packet promises another (`Known`). Every packet that is missing
  comes before the marker and before the empty packet that ends a full one
  (`ToCome`). A torn frame can only be the first of the wire (`AskewAtTheStart`),
  and a call that begins behind one is the exception of the property (`askew`).
  For `Fire`, the wire is empty when the first call begins, as the answer of the
  handshake is the last frame of it, so `peerGone` sees the hang-up (`Handshake`,
  `Reported`).

**PartsProofs**

* *Sessions*, any touch < idle < cap: `NeverInterrupted` (`StaysSignedIn`) and
  `SessionsEnd` (`SessionEnds`). The cookie outlives the row or a request is about to
  issue it again (`CookieFollows`), and a sliding row is recent (`SeenFollows`).
* *Accounts*, any accounts and requests: `AnAdministratorRemains` (`AccountsHold`).
  The property is about two administrators, the invariant about the one who acts:
  unless marked, there is another administrator than the target (`ActorRemains`).
* *Throttle*, any addresses, usernames, threshold, Window <= Idle and sign-ins in
  flight: `GuessesStayBounded` (`GuessesAreBounded`). The entry of a key knows a count
  and two times, the property is about all wrong passwords since the last right
  one. The invariant (`KeyInv`) splits these where the count began anew: the last
  `CountOf` of them lie more than a Window after the others (`Apart`), any two that
  lie within a Window are fewer than the most apart in the list (`Bounded`), and
  the count with all that are in flight for the key is at most the most. `Tracks`
  says that a lock reaches a Window past the last of them, so that neither the end
  of a lock nor the sweep (which needs Window <= Idle) makes room too soon.
* *CapsCache*, any times and pages: `TabFollows` (`TabFollowsPlugin`). What is cached was
  true at most a timeout before it was stored, and every fetch that may have been
  told of the plugin as it was is marked until it is stored.
* *A2S*, any queries, splits of a reply into fragments, losses, rows and cap on
  fragments: `RepliesAreWhole` (`WholeReply`). The invariant follows the datagrams
  back to the server: what is on its way was written (`IsWritten`), and the
  fragments at hand are of the one reply whose number of fragments is expected
  (`OfOneReply`). As many as that are then all of them (`CompleteIsAll`), in the order
  of their numbers they join to the payload, wherever it was cut (`Pieces`, by
  induction over the fragments, `JoinedIs`), and a payload that is long enough for
  the decoder has each field where the decoder looks (`DecodeIsWhole`).
* *Loadout*, any requests, forms and catalog: `SavedLoadoutsApply` (`SavedApplies`). A
  save is a set of tasks, one for each key of the maps that the agent walks. While
  it runs alone, each of its statements is still to come or done (`Follows`); and
  what is done stays so, for no two statements of a loadout are about one row
  (`OneStatementARow`) and nobody else writes. Nothing is left when it ends
  (`NothingIsLeft`).
* *Fetch*, any mirrors, sizes and cap: `DownloadsAreWhole` (`DownloadIsWhole`).
* *AtomicFile*, any writers: `GameReads` (`GameReadsTheFile`); the temporary has at
  each step what the target is to have (`TempIsWhole`).

**ServerProofs**

* `MapSurvives` (`MapSurvivesRestart`), any operators, maps and changes: what the
  game will play once it has done what it was sent (`Playing`) is what is
  recorded or what a request is about to record.
* `BlockIsFound`: for a text of any length with markers and rows anywhere, the
  block that a write puts into it is the one that the next read finds, and the text
  around is as it was. This is about `internal/cs2/cfg.go` alone.
* `RequestsKeepTheFile` (`FileIsKept`), any files, requests and edits, from
  `BlockIsFound` and an invariant on what a request that read the file knows.
* `GamePlaysByTheFile` (`GameFollowsFile`, that is `LiveFollowsFile` and
  `PasswordLocks`), any files, requests, edits, loads and starts. The property is
  about a game at rest, the invariant (`GameInv`) about one that is half pushed. A
  request that nobody crossed has the rows of the block (`Knows`); a cvar that the
  block decides is in the game as the block has it, or the last row about it that is
  still to be pushed brings that value (`Gets`, `Brings`); where no drift is recorded,
  nobody else pushes (`InStep`). A password that was promised is in the block, and at
  the door after the next load (`PromiseHolds`). It rests on what the engine makes
  of the whole file: the block counts for a cvar that no line below it
  assigns (`GovernedIs`), and a push of its rows sets what the block sets
  (`SetsOfOnly`, by induction over a file).
* `VerdictsAreTrue` (`VerdictIsTrue`), any number of operators and presses, any
  windows, and `ButtonsAreTrue` (`ButtonsAnswerTruly`) under `FewOperators`. An
  answer is about the past of the unit, of which a request sees one poll at a
  time. The invariant (`PressInv`) says what the unit has done between the polls of
  each request that nobody meddled with: a unit that left off was noticed or is not
  back before the next poll (`StartIsWatched`), and a call comes with at most one
  counted start (`CallIsFresh`), so the start limit, which is above one, does not
  refuse it. What remains of a unit that is back within a poll is the exception
  `Quick`. For the loop that systemd gave up, the property compares a flag with
  systemd's restart count; the invariant (`CountInv`) counts who is about to start
  the unit ahead: starts and those together exceed the restarts by at most the
  number of operators.

`BlockIsFound` and `SetsOfOnly` are induction over the length of a file. The induction
rules of the library take an operator as a parameter, which the provers at hand cannot
instantiate, so `ServerProofs` states induction for a *set* of numbers (`Induction`,
`SeqInduction`; `PartsProofs` needs the first too), from the existence of a least element.

Assumptions. The modules state what they need of their constants, and TLC evaluates
each statement in a run: sets of operations and faults are among those that the
modules know; a catalog is a function to sets of entries; times are natural numbers
in the order of the code's constants (`ClocksAssumption`, `AgesAssumption`,
`ThrottleAssumption`); a split reply has a fragment or more (`A2SAssumption`); a form
has no skin for the number of a glove, as `loadout.go:193-195` says of the numbers
(`FormsAssumption`); names
that stand for nothing (`"none"`, `CS2`, an absent file) are not names of clients,
maps, values or writers (`PluginsAssumption`, `WritersAssumption`, `MapsAssumption`,
`ValuesAssumption`, `ClientsAssumption`); a script of `Rcon` has a call, one of them
is the longest, and a command that is fired is the first of its connection, as
`rconFire` dials for each (`ScriptsAssumption`). The start limit allows more than one
start (`ControlAssumption`; `bootstrap/plan.go:177` has five). Beyond these, only
`FewOperators` is assumed, where it is named above. `FewOperators` says that the operators are at most one more than the
restarts of a loop stay below the start limit: two with the values of the code (4
and 5, "one restart of slack", `control.go:72`), and two in the run `server`.
No theorem assumes fairness.

## 6. What the code does not promise

These were met while modelling; where a property of a run has an exception, it
is one of these, and TLC finds it when the exception is taken away.

* **Updates.** `autoPass` reads the flag before its `Check` and sets it after
  (`updater.go:516-538`): it and a job can both be in `Run`, and the first to
  finish lowers the flag and may start the game under the other's steamcmd. The
  lifecycle buttons ignore the flag (`api.go:249-261`). `IsActive` is false for
  a unit between a crash and systemd's restart, so `Run` does not stop it and
  systemd brings it up under steamcmd. The error of the `Start` after a failed
  install is dropped (`updater.go:457-474`). A stop that outlasts its 60
  seconds, or an agent that dies during an update, leaves the server down:
  `wasActive` is in memory only. A player who joins between the count and the
  stop is kicked, in spite of "Never kick anyone" (`updater.go:530`). An update
  that waits for players is applied only if the server is empty when the six
  hour timer fires, not "the moment the server is empty" (489-490). A check that
  overlaps a `Run` can put the badge back, and a job whose Run fails after it has
  asked Steam leaves the new build known and the badge down; both last until the
  next pass that is alone and gets its answer. `LastCheck` moves on failures too
  (61, 329).
* **The gate.** Two requests pass each other's guards; the loser of two updates
  lowers the winner's flag (`api.go:237`, the run `update_flag`); the boot driver and the loop do not
  ask at all (`api.go:81`, `updater.go:537`); the driver goes on to the next id
  at once when a target is busy (`api.go:90`), so a dependent may be begun
  before its dependency is on disk.
* **Installs.** Jobs on different targets install a common dependency at the
  same time, into the same archive (`plugins.go:178`). Synchronous installs are
  in no registry, so the uninstall guard does not see them (`api.go:574`). An
  uninstall looks at the rows before a job, and deletes its own row last.
* **Pending plugins.** An id whose target is busy is dropped from the file even
  if the panel's job then fails. `setRCONAddr` writes a copy of the config in
  which cleared ids are still pending; `main`'s last write restores the address
  that `setRCONAddr` corrected.
* **Whitelist.** A removal of the last player and a toggle that overlap leave
  an enforced empty list, which `docs/PLUGINS.md:158-161` calls impossible. Two
  opposite toggles can leave file and cvar apart. An addition can overwrite
  another edit ("Appending can only add", `pages.go:760-762`). Commands lost by
  RCON are not repeated.
* **RCON.** A deadline inside a frame does not retire the connection
  (`rcon.go:421`, against 72-73), so the next command may miss packets; it never
  takes another command's packets for its own. Silence after an empty first
  packet is an empty answer without an error. A frame waiting in front of a
  hang-up passes for a living peer (`rcon.go:318`). A server that goes down
  during the handshake is reported as a wrong password (`rcon.go:134`).
* **Panel.** Two administrators who demote or delete each other at once leave
  none (`store.go:223`). The cookie is issued for a whole idle window also
  shortly before the cap (`server.go:206`, against 329-330); the row's own check
  makes this harmless.

* **Settings.** A save reads the rows that it does not edit with
  `currentSettingsSans`, which takes an unreadable file for an empty one, so a
  failing read drops the rows; two requests that cross lose each other's rows,
  the RCON password among them (`server.go:313`). A row that comes twice in the
  block makes the agent refuse every save of the panel until someone edits the
  file. A push is best effort, and two pushes may end in another order than the
  writes.
* **Map.** A password that is set while a changelevel is on its way reloads the
  old map. A forced name that the game does not have is recorded for the next
  start and not played. The answer to a change whose record fails says so.
* **Buttons.** A unit that systemd restarts between two polls passes for one
  that kept running. A looping server is shown as running while it lives
  (`control.go:104`, against 69-71).
* **Capabilities.** `caps.go:24-26` and `pages.go:568-570` say that the Loadout tab
  follows the operator's click and the finished job. The reset of an install falls
  when its job begins (`pages.go:571`), so a page that asks while the job runs stores
  "not installed" again, and shows it past the job's end until it is a cache life
  old. A fetch that was under way at a reset is stored after it.
* **Hints.** `handleGetJob` marks a copy and answers with the job (`api.go:607`), so its
  answer never says `restart_observed` (`jobs.go:39-42`).
* **Throttle.** Attempts in flight as a lock falls count and lengthen it, though
  a comment says that a further attempt while locked extends nothing. A right
  password also clears the count of the address. A map full of keys leaves new
  ones uncounted.
* **Loadouts.** A knife, gloves or agents set back to the default keep their old
  row. So does a skin whose key is missing from the loadout, though
  `loadout.go:64` calls it vanilla with its row deleted. A page that got no
  catalog saves a loadout without skins. Two saves at once can leave the store
  with one loadout and the tables with the other.
* **A2S.** A fragment whose id begins with the byte of a challenge is read as a
  challenge; the query is asked once more and may end without an answer.
* **Files of plugins.** A root entry `./` makes an archive unsafe. A symbolic
  link in a tar becomes an empty file, though `extract.go:192` says that its
  content is copied. A wrapper is recognised only by its form: a plugin's own
  folder may be taken for one, or one missed. Nothing patches `gameinfo.gi` again
  after an update of the game has replaced it. A failed install leaves files of
  root's behind that no row names, and the config of WeaponPaints stays root's
  (`plugins.go:244`).

## 7. What is only model-checked, and what is not modelled

Only model-checked:

* all liveness (`UpdatesEnd`, `FlagIsLowered`, the end of a boot in
  `PendingIsServed`, `QueriesReturn`), since fairness and ENABLED are beyond the
  prover;
* `GivenUpIsTold`, a part of `ButtonsAnswerTruly`, for more operators than
  `FewOperators` allows: it is then false, as enough calls that are all past their
  `ResetFailed` reach the start limit without the restarts that tell a loop;
* `InstalledIsThere` and `UninstallIsExact`: the constants of `PluginFiles` are parts of
  a catalog of five entries, and the run takes the whole of it, so that a theorem
  for every value of the constants would say little more;
* the four runs that end with a violation, by their nature.

Abstracted in what is modelled: names, passwords, versions, archive contents,
the text of pages, logs and answers. A file write is atomic where a component
uses `internal/fsatomic`; `AtomicFile` takes that write apart. SQLite statements
are atomic and durable. Packet ids do not wrap within a connection. A request of
the panel is short against a tick of the session clock. In `Settings`, comments,
line endings and the bot quota's mode are left out, in `Throttle` how an address
is read from a request, in `Loadout` wear and seed, in `PluginFiles` installs
side by side (`Installer` has them) and forced ones over an installed entry.

Not modelled, with the reasons in `PROJECT.json`: pure I/O and rendering (journal
reading, pages, bootstrap's units, the bytes of archives and binary patches), the restart
hint of a job (a comparison of two times for display, which changes no state), pure
parsers of text, data (cosmetics, catalog entries), the choice of a release and
its asset, the plugins' config files, and the tree of probes by which a broken
RCON is diagnosed.

## 8. The plan

Compositions worth stating: `Settings` and `MapEnv` over the connection of
`Rcon`; `Control` with the unit of `Updater`; `Sessions` with `Accounts` (the role
is read on every request, a deletion ends sessions); `Fetch` and `PluginFiles`
under the steps of `Installer`.

Left of the code: the diagnosis as a decision over probes, the choice of a
release, the plugins' config files.
