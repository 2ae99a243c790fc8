--------------------------- MODULE RequestsProofs ----------------------------
(***************************************************************************)
(* The two components of the requests run, each for any value of its       *)
(* constants.                                                              *)
(*                                                                         *)
(* The job registry, for any number of targets, ids and updates and any    *)
(* retention: its type invariant, its one-body-per-target guarantee, that  *)
(* it implements the keyed lock, and that it shows true progress.          *)
(* OneBodyPerTarget is not inductive: Start looks at the entries, not at   *)
(* the goroutines.  The strengthening is WorkIsListed (a body at work has a *)
(* running entry) with OneEntryPerTarget (no two running entries share a   *)
(* target), Unstarted (an id that was never drawn has no goroutine) and    *)
(* Named (any other id has a target).                                      *)
(*                                                                         *)
(* The whitelist, for any players, requests and losses, in the composition *)
(* that the requests run checks: its files never lock everyone out, the    *)
(* plugin that runs follows its files once the requests are answered, and  *)
(* adding players takes nobody off.  Each promise holds up to a conflict   *)
(* that the code does not exclude, so the invariant first says that every  *)
(* conflict of two requests in progress has been noted (ConflictsNoted).   *)
(* The rest says what a request that is half way still knows of the files  *)
(* it has read (Lockout, Lists, Switches), and which command it still owes *)
(* to the plugin (Follows).                                                *)
(***************************************************************************)
EXTENDS MCRequests, TLAPS

------------------------------------------------------------------------------
(***************************************************************************)
(* The job registry: one body per target.                                  *)
(***************************************************************************)

OneEntryPerTarget ==
    \A i, k \in Ids :
        /\ jobs[i].status = "running" /\ jobs[k].status = "running"
        /\ jobs[i].target = jobs[k].target
        => i = k

Unstarted == \A i \in Ids : jobs[i].status = "fresh" => body[i] = "none"

\* The empty target belongs to ids that were never drawn.
Named == \A i \in Ids : jobs[i].status # "fresh" => jobs[i].target \in Targets

IInv ==
    /\ TypeOK
    /\ WorkIsListed
    /\ OneEntryPerTarget
    /\ Unstarted
    /\ Named

------------------------------------------------------------------------------
\* The age of a job that has not finished is an age.
LEMMA AncientAge == Ancient \in 0..Ancient /\ 0 \in 0..Ancient
BY RetainAssumption DEF Ancient

\* A new entry has the type of an entry.
LEMMA EntryType ==
    ASSUME NEW s \in {"fresh", "running"}, NEW t \in Targets \union {""},
           NEW x \in {"", "starting"}
    PROVE  Entry(s, t, x) \in Job
<1>1. Ancient \in 0..Ancient
  BY AncientAge
<1>2. x \in Steps
  BY StepsAssumption
<1> QED
  BY <1>1, <1>2 DEF Entry, Job

\* Reaping keeps the types, and touches the status of settled entries only.
LEMMA ReapedType ==
    ASSUME TypeOK
    PROVE  /\ Reaped(jobs) \in [Ids -> Job]
           /\ \A i \in Ids :
                /\ Reaped(jobs)[i].target = jobs[i].target
                /\ Reaped(jobs)[i].status = "running" <=> jobs[i].status = "running"
                /\ Reaped(jobs)[i].status = "fresh" <=> jobs[i].status = "fresh"
BY DEF TypeOK, Reaped, Reapable, Finished, Job

\* An update keeps an entry's type, status and target.
LEMMA ShownType ==
    ASSUME NEW j \in Job, NEW p \in Progress
    PROVE  /\ Shown(j, p) \in Job
           /\ Shown(j, p).status = j.status
           /\ Shown(j, p).target = j.target
BY DEF Shown, Job, Progress

\* Recording the outcome keeps an entry's type and target, and ends its run.
LEMMA SettledType ==
    ASSUME NEW j \in Job, NEW outcome
    PROVE  /\ Settled(j, outcome) \in Job
           /\ Settled(j, outcome).status \in {"done", "failed"}
           /\ Settled(j, outcome).target = j.target
<1>1. 0 \in 0..Ancient
  BY AncientAge
<1>2. "" \in Steps
  BY StepsAssumption
<1> QED
  BY <1>1, <1>2 DEF Settled, Job

LEMMA InitInv == Init => IInv
<1> SUFFICES ASSUME Init PROVE IInv
  OBVIOUS
<1>1. Entry("fresh", "", "") \in Job
  BY EntryType
<1>2. Entry("fresh", "", "").status = "fresh"
  BY DEF Entry
<1>3. Silent \in Progress
  BY StepsAssumption DEF Silent, Progress
<1> QED
  BY <1>1, <1>2, <1>3
  DEF Init, IInv, TypeOK, WorkIsListed, OneEntryPerTarget, Unstarted, Named

\* What a step must do to the registry to keep the invariant when it starts
\* nothing: statuses may only leave "running" once the body is done.
LEMMA Quiet ==
    ASSUME IInv, TypeOK',
           \A i \in Ids :
             /\ jobs'[i].target = jobs[i].target
             /\ jobs'[i].status = "running" => jobs[i].status = "running"
             /\ jobs'[i].status = "fresh" <=> jobs[i].status = "fresh"
             /\ body'[i] = "running" =>
                  body[i] = "running" /\ jobs'[i].status = jobs[i].status
             /\ body[i] = "none" => body'[i] = "none"
    PROVE  IInv'
BY DEF IInv, WorkIsListed, OneEntryPerTarget, Unstarted, Named

LEMMA NextInv == IInv /\ [Next]_vars => IInv'
<1> SUFFICES ASSUME IInv, [Next]_vars PROVE IInv'
  OBVIOUS
<1>1. TypeOK
  BY DEF IInv
<1>2. ASSUME NEW t \in Targets, NEW i \in Ids, Start(t, i) PROVE IInv'
  <2>1. Entry("running", t, "starting") \in Job
    BY EntryType
  <2>2. /\ Entry("running", t, "starting").status = "running"
        /\ Entry("running", t, "starting").target = t
    BY DEF Entry
  <2>3. /\ jobs' = [Reaped(jobs) EXCEPT ![i] = Entry("running", t, "starting")]
        /\ body' = [body EXCEPT ![i] = "running"]
        /\ latest' = latest
        /\ jobs[i].status = "fresh"
    BY <1>2 DEF Start
  <2>4. \A k \in Ids : ~(jobs[k].status = "running" /\ jobs[k].target = t)
    BY <1>1, <1>2, ReapedType DEF Start, Busy
  <2>5. TypeOK'
    BY <1>1, <2>1, <2>3, ReapedType DEF TypeOK
  <2>6. \A k \in Ids \ {i} :
          /\ jobs'[k].target = jobs[k].target
          /\ jobs'[k].status = "running" <=> jobs[k].status = "running"
          /\ jobs'[k].status = "fresh" <=> jobs[k].status = "fresh"
          /\ body'[k] = body[k]
    BY <1>1, <2>3, ReapedType DEF TypeOK
  <2>7. jobs'[i].status = "running" /\ jobs'[i].target = t /\ body'[i] = "running"
    BY <1>1, <2>2, <2>3, ReapedType DEF TypeOK
  <2>8. WorkIsListed' /\ Unstarted' /\ Named'
    BY <2>6, <2>7 DEF IInv, WorkIsListed, Unstarted, Named
  <2>9. OneEntryPerTarget'
    BY <2>4, <2>6, <2>7 DEF IInv, OneEntryPerTarget
  <2> QED
    BY <2>5, <2>8, <2>9 DEF IInv
<1>3. ASSUME jobs' = Reaped(jobs), UNCHANGED <<body, latest>> PROVE IInv'
  <2>1. TypeOK'
    BY <1>1, <1>3, ReapedType DEF TypeOK
  <2>2. \A k \in Ids : body[k] = "running" => jobs[k].status = "running"
    BY DEF IInv, WorkIsListed
  <2> QED
    BY <1>1, <1>3, <2>1, <2>2, ReapedType, Quiet
<1>4. ASSUME NEW i \in Ids, NEW p \in Reports, Report(i, p) PROVE IInv'
  <2>1. p \in Progress
    BY ReportsAssumption
  <2>2. jobs' = [jobs EXCEPT ![i] = Shown(jobs[i], p)] /\ body' = body
    BY <1>4 DEF Report
  <2>3. TypeOK'
    BY <1>1, <1>4, <2>1, <2>2, ShownType DEF TypeOK, Report
  <2>4. \A k \in Ids : /\ jobs'[k].target = jobs[k].target
                       /\ jobs'[k].status = jobs[k].status
    BY <1>1, <2>1, <2>2, ShownType DEF TypeOK
  <2> QED
    BY <2>2, <2>3, <2>4, Quiet
<1>5. ASSUME NEW i \in Ids, NEW outcome \in {"ok", "error"}, Return(i, outcome)
      PROVE IInv'
  <2>1. TypeOK'
    BY <1>1, <1>5 DEF TypeOK, Return
  <2> QED
    BY <1>1, <1>5, <2>1, Quiet DEF Return, TypeOK
<1>6. ASSUME NEW i \in Ids, Settle(i) PROVE IInv'
  <2>1. /\ jobs' = [jobs EXCEPT ![i] = Settled(jobs[i], body[i])]
        /\ body' = body /\ latest' = latest /\ body[i] # "running"
    BY <1>6 DEF Settle
  <2>2. TypeOK'
    BY <1>1, <2>1, SettledType DEF TypeOK
  <2>3. \A k \in Ids : /\ jobs'[k].target = jobs[k].target
                       /\ k # i => jobs'[k] = jobs[k]
    BY <1>1, <2>1, SettledType DEF TypeOK
  <2>4. jobs[i].status = "running" /\ jobs'[i].status \notin {"running", "fresh"}
    BY <1>1, <1>6, <2>1, SettledType DEF TypeOK, Settle
  <2> QED
    BY <2>1, <2>2, <2>3, <2>4, Quiet
<1>7. ASSUME NEW i \in Ids, Lull(i) PROVE IInv'
  <2>1. TypeOK'
    BY <1>1, <1>7 DEF TypeOK, Lull, Job
  <2>2. \A k \in Ids : /\ jobs'[k].target = jobs[k].target
                       /\ jobs'[k].status = jobs[k].status
    BY <1>1, <1>7 DEF Lull, TypeOK, Job
  <2> QED
    BY <1>7, <2>1, <2>2, Quiet DEF Lull
<1>8. CASE Tick
  <2>1. TypeOK'
    <3>1. \A a \in 0..Ancient : a < Ancient => a + 1 \in 0..Ancient
      BY RetainAssumption DEF Ancient
    <3>2. \A j \in Job : j.age < Ancient => [j EXCEPT !.age = @ + 1] \in Job
      BY <3>1 DEF Job
    <3> QED
      BY <1>1, <1>8, <3>2 DEF TypeOK, Tick
  <2>2. \A k \in Ids : /\ jobs'[k].target = jobs[k].target
                       /\ jobs'[k].status = jobs[k].status
    BY <1>1, <1>8 DEF Tick, TypeOK, Job
  <2> QED
    BY <1>8, <2>1, <2>2, Quiet DEF Tick
<1>9. CASE UNCHANGED vars
  BY <1>9 DEF vars, IInv, TypeOK, WorkIsListed, OneEntryPerTarget, Unstarted, Named
<1> QED
  BY <1>2, <1>3, <1>4, <1>5, <1>6, <1>7, <1>8, <1>9 DEF Next, StartBusy, List

\* The strengthened invariant holds in every reachable state.
THEOREM JobsInvariance == Spec => []IInv
BY InitInv, NextInv, PTL DEF Spec

\* Every variable keeps its type: whatever the bodies report and however often
\* callers start, list and wait.
THEOREM Typing == Spec => []TypeOK
<1>1. IInv => TypeOK
  BY DEF IInv
<1> QED
  BY <1>1, JobsInvariance, PTL

\* Work in flight is always listed as running (jobs.go RunningTargets), so the
\* guards that read the registry see everything that writes.
THEOREM WorkListed == Spec => []WorkIsListed
<1>1. IInv => WorkIsListed
  BY DEF IInv
<1> QED
  BY <1>1, JobsInvariance, PTL

\* "Only one job per target may run at a time" (jobs.go Start).
THEOREM OneBody == Spec => []OneBodyPerTarget
<1>1. IInv => OneBodyPerTarget
  BY DEF IInv, OneBodyPerTarget, OneEntryPerTarget, WorkIsListed
<1> QED
  BY <1>1, JobsInvariance, PTL

------------------------------------------------------------------------------
(***************************************************************************)
(* The job registry's refinement.  Start takes the lock, fn's return       *)
(* releases it, and every other step leaves it alone.                      *)
(***************************************************************************)

\* A step that moves no body at work and no target of one leaves Held alone.
LEMMA HeldUnchanged ==
    ASSUME body' = body,
           \A i \in Ids : body[i] = "running" => jobs'[i].target = jobs[i].target
    PROVE  Held' = Held
<1>1. Held' = {<<jobs'[i].target, i>> : i \in {k \in Ids : body[k] = "running"}}
  BY DEF Held
<1> QED
  BY <1>1 DEF Held

LEMMA StartAcquires ==
    ASSUME IInv, NEW t \in Targets, NEW i \in Ids, Start(t, i)
    PROVE  Lock!Acquire(t, i)
<1>1. TypeOK /\ WorkIsListed /\ Unstarted
  BY DEF IInv
<1>2. /\ jobs' = [Reaped(jobs) EXCEPT ![i] = Entry("running", t, "starting")]
      /\ body' = [body EXCEPT ![i] = "running"]
      /\ jobs[i].status = "fresh"
  BY DEF Start
<1>3. \A k \in Ids : body[k] = "running" => jobs[k].target # t
  BY <1>1, ReapedType DEF Start, Busy, WorkIsListed
<1>4. body[i] = "none"
  BY <1>1, <1>2 DEF Unstarted
<1>5. \A k \in Ids : k # i => jobs'[k].target = jobs[k].target /\ body'[k] = body[k]
  BY <1>1, <1>2, ReapedType DEF TypeOK
<1>6. jobs'[i].target = t /\ body'[i] = "running"
  BY <1>1, <1>2, ReapedType DEF TypeOK, Entry
<1>7. {k \in Ids : body'[k] = "running"} = {k \in Ids : body[k] = "running"} \union {i}
  BY <1>5, <1>6
<1>8. Held' = Held \union {<<t, i>>}
  <2>1. Held' = {<<jobs'[k].target, k>> : k \in {n \in Ids : body'[n] = "running"}}
    BY DEF Held
  <2> QED
    BY <2>1, <1>4, <1>5, <1>6, <1>7 DEF Held
<1>9. \A h \in Held : h[1] # t /\ h[2] # i
  BY <1>3, <1>4 DEF Held
<1> QED
  BY <1>8, <1>9 DEF Lock!Acquire

LEMMA ReturnReleases ==
    ASSUME IInv, NEW i \in Ids, NEW outcome \in {"ok", "error"}, Return(i, outcome)
    PROVE  Lock!Release(jobs[i].target, i)
<1>1. TypeOK
  BY DEF IInv
<1>2. /\ body[i] = "running" /\ jobs' = jobs
      /\ body' = [body EXCEPT ![i] = outcome]
  BY DEF Return
<1>3. {k \in Ids : body'[k] = "running"} = {k \in Ids : body[k] = "running"} \ {i}
  BY <1>1, <1>2 DEF TypeOK
<1>4. Held' = Held \ {<<jobs[i].target, i>>}
  <2>1. Held' = {<<jobs[k].target, k>> : k \in {n \in Ids : body'[n] = "running"}}
    BY <1>2 DEF Held
  <2> QED
    BY <2>1, <1>3 DEF Held
<1>5. <<jobs[i].target, i>> \in Held
  BY <1>2 DEF Held
<1> QED
  BY <1>4, <1>5 DEF Lock!Release

LEMMA InitLock == Init => Lock!Init
BY DEF Init, Lock!Init, Held

LEMMA NextLock == IInv /\ [Next]_vars => [Lock!Next]_Held
<1> SUFFICES ASSUME IInv, [Next]_vars PROVE [Lock!Next]_Held
  OBVIOUS
<1>1. TypeOK
  BY DEF IInv
<1>2. ASSUME NEW t \in Targets, NEW i \in Ids, Start(t, i) PROVE Lock!Next
  BY <1>2, StartAcquires DEF Lock!Next
<1>3. ASSUME NEW i \in Ids, NEW outcome \in {"ok", "error"}, Return(i, outcome)
      PROVE Lock!Next
  <2>1. jobs[i].target \in Targets
    BY <1>3 DEF IInv, Unstarted, Named, Return
  <2> QED
    BY <1>3, <2>1, ReturnReleases DEF Lock!Next
<1>4. ASSUME jobs' = Reaped(jobs), UNCHANGED <<body, latest>> PROVE Held' = Held
  BY <1>1, <1>4, ReapedType, HeldUnchanged
<1>5. ASSUME NEW i \in Ids, NEW p \in Reports, Report(i, p) PROVE Held' = Held
  BY <1>1, <1>5, ReportsAssumption, ShownType, HeldUnchanged DEF Report, TypeOK
<1>6. ASSUME NEW i \in Ids, Settle(i) PROVE Held' = Held
  BY <1>1, <1>6, SettledType, HeldUnchanged DEF Settle, TypeOK
<1>7. ASSUME NEW i \in Ids, Lull(i) PROVE Held' = Held
  BY <1>1, <1>7, HeldUnchanged DEF Lull, TypeOK, Job
<1>8. CASE Tick
  BY <1>1, <1>8, HeldUnchanged DEF Tick, TypeOK, Job
<1>9. CASE UNCHANGED vars
  BY <1>9, HeldUnchanged DEF vars
<1> QED
  BY <1>2, <1>3, <1>4, <1>5, <1>6, <1>7, <1>8, <1>9 DEF Next, StartBusy, List

\* The registry implements the keyed lock: one owner per key, whatever the
\* bodies report and however entries are settled, listed and reaped.
THEOREM Refinement == Spec => ImplementsKeyedLock
BY InitLock, NextLock, JobsInvariance, PTL DEF Spec, ImplementsKeyedLock, Lock!Spec
------------------------------------------------------------------------------
(***************************************************************************)
(* The job registry's progress.  FreshestBytes compares an entry with the  *)
(* last update its job sent, so a start must find an id that has sent none *)
(* (Unheard).                                                              *)
(***************************************************************************)

Unheard == \A i \in Ids : jobs[i].status = "fresh" => latest[i] = Silent

PInv == Unheard /\ QuietWhenSettled /\ FreshestBytes

\* What an entry shows is of now, given the last update its job sent.
Current(j, p) ==
    /\ j.status = "fresh" => p = Silent
    /\ Finished(j) => j.step = "" /\ j.bytes = 0 /\ j.total = 0
    /\ j.status = "running" =>
         /\ j.total = p.total
         /\ j.bytes = (IF p.total = 0 THEN 0 ELSE p.bytes)

\* The invariant says it of each entry and its own last update.
LEMMA Entrywise == PInv <=> \A i \in Ids : Current(jobs[i], latest[i])
BY DEF PInv, Unheard, QuietWhenSettled, FreshestBytes, Current

\* Reaping only renames settled entries.
LEMMA ReapedCurrent ==
    ASSUME TypeOK, NEW i \in Ids, Current(jobs[i], latest[i])
    PROVE  Current(Reaped(jobs)[i], latest[i])
<1>1. CASE Reapable(jobs[i])
  <2>1. Reaped(jobs)[i].status = "reaped"
    BY <1>1 DEF Reaped, TypeOK, Job
  <2> QED
    BY <2>1 DEF Current, Finished
<1>2. CASE ~Reapable(jobs[i])
  BY <1>2 DEF Reaped
<1> QED
  BY <1>1, <1>2

\* Throttled or not, an accepted update leaves the entry with its own bytes.
LEMMA ShownCurrent ==
    ASSUME NEW j \in Job, NEW p \in Progress, j.status = "running"
    PROVE  Current(Shown(j, p), p)
BY DEF Shown, Current, Job, Progress, Finished

\* Recording the outcome clears the progress, whatever it was.
LEMMA SettledCurrent ==
    ASSUME NEW j \in Job, NEW outcome, NEW p
    PROVE  Current(Settled(j, outcome), p)
BY DEF Settled, Current, Job, Finished

LEMMA InitProgress == Init => PInv
<1>1. Current(Entry("fresh", "", ""), Silent)
  BY DEF Current, Entry, Finished
<1> QED
  BY <1>1, Entrywise DEF Init

LEMMA NextProgress == IInv /\ PInv /\ [Next]_vars => PInv'
<1> SUFFICES ASSUME IInv, PInv, [Next]_vars
             PROVE  \A k \in Ids : Current(jobs'[k], latest'[k])
  BY DEF PInv, Unheard, QuietWhenSettled, FreshestBytes, Current
<1>1. TypeOK /\ \A k \in Ids : Current(jobs[k], latest[k])
  BY Entrywise DEF IInv
<1>2. ASSUME NEW t \in Targets, NEW i \in Ids, Start(t, i)
      PROVE  \A k \in Ids : Current(jobs'[k], latest'[k])
  <2>1. /\ jobs' = [Reaped(jobs) EXCEPT ![i] = Entry("running", t, "starting")]
        /\ latest' = latest /\ jobs[i].status = "fresh"
    BY <1>2 DEF Start
  <2>2. latest[i] = Silent
    BY <1>1, <2>1 DEF Current
  <2>3. Current(Entry("running", t, "starting"), Silent)
    BY DEF Current, Entry, Silent, Finished
  <2> QED
    BY <1>1, <2>1, <2>2, <2>3, ReapedCurrent, ReapedType
<1>3. ASSUME jobs' = Reaped(jobs), UNCHANGED <<body, latest>>
      PROVE  \A k \in Ids : Current(jobs'[k], latest'[k])
  BY <1>1, <1>3, ReapedCurrent
<1>4. ASSUME NEW i \in Ids, NEW p \in Reports, Report(i, p)
      PROVE  \A k \in Ids : Current(jobs'[k], latest'[k])
  BY <1>1, <1>4, ReportsAssumption, ShownCurrent DEF Report, TypeOK
<1>5. ASSUME NEW i \in Ids, Settle(i)
      PROVE  \A k \in Ids : Current(jobs'[k], latest'[k])
  BY <1>1, <1>5, SettledCurrent DEF Settle, TypeOK
<1>6. ASSUME NEW i \in Ids, Lull(i)
      PROVE  \A k \in Ids : Current(jobs'[k], latest'[k])
  <2>1. jobs' = [jobs EXCEPT ![i].recent = FALSE] /\ latest' = latest
    BY <1>6 DEF Lull
  <2>2. Current([jobs[i] EXCEPT !.recent = FALSE], latest[i])
    BY <1>1 DEF TypeOK, Job, Current, Finished
  <2> QED
    BY <1>1, <2>1, <2>2 DEF TypeOK
<1>7. CASE Tick
  BY <1>1, <1>7 DEF Tick, TypeOK, Job, Current, Finished
<1>8. ASSUME jobs' = jobs, latest' = latest
      PROVE  \A k \in Ids : Current(jobs'[k], latest'[k])
  BY <1>1, <1>8
<1> QED
  BY <1>2, <1>3, <1>4, <1>5, <1>6, <1>7, <1>8
  DEF Next, StartBusy, List, Return, vars

\* What a job shows of its progress is of now (jobs.go report and its throttle):
\* a running entry has the bytes of the last update its job sent, and an entry
\* that settled shows none, whatever callback outlives the job's function.
THEOREM TrueProgress == Spec => []ProgressIsTrue
<1>1. Init => PInv
  BY InitProgress
<1>2. IInv /\ PInv /\ [Next]_vars => PInv'
  BY NextProgress
<1>3. PInv => ProgressIsTrue
  BY DEF PInv, ProgressIsTrue
<1> QED
  BY <1>1, <1>2, <1>3, JobsInvariance, PTL DEF Spec

------------------------------------------------------------------------------
(***************************************************************************)
(* The whitelist.                                                          *)
(***************************************************************************)

Request == [pc : W!RequestSteps, op : Requested \union {"none"},
            want : SUBSET Players, on : BOOLEAN]

\* Where a request is tells what was asked.
RightOps ==
    \A c \in Clients :
        /\ client[c].pc \in {"put", "write", "reload"} => client[c].op \in {"append", "remove"}
        /\ client[c].pc \in {"set", "flip", "push"} => client[c].op = "toggle"
        /\ client[c].pc \in {"stat", "create"} => client[c].op = "install"

\* A list on its way to the file was checked; one that was added to is not empty.
Wants ==
    \A c \in Clients :
        /\ client[c].pc = "write" => client[c].want \intersect Malformed = {}
        /\ client[c].pc \in {"put", "write"} /\ client[c].op = "append" => client[c].want # {}

\* Two requests in progress that may undo each other's checks are noted.
ConflictsNoted ==
    \A c, d \in Clients : c # d => W!Conflicts(client[c].op, client[d].op) \subseteq overlaps

\* Without a removal beside a toggle: what was checked of the other file holds
\* until the write.
Lockout ==
    "lockout" \notin overlaps =>
        /\ \A c \in Clients : client[c].pc = "flip" /\ client[c].on => list # {}
        /\ \A c \in Clients : client[c].pc = "write" /\ client[c].want = {} => core # "on"
        /\ core = "on" => list # {}

\* Without two edits of the list: an addition still holds what it read.
Lists ==
    "lists" \notin overlaps =>
        \A c \in Clients :
            client[c].pc \in {"put", "write"} /\ client[c].op = "append"
                => list \subseteq client[c].want

\* Without two writers of core.cfg: its switch is the live one, or the request
\* that wrote it has still to say so.
Switches ==
    "switches" \notin overlaps =>
        /\ \A c \in Clients : client[c].pc = "push" => (core = "on" <=> client[c].on)
        /\ \A c \in Clients : client[c].pc = "create" => core = "none"
        /\ game = "plugin" /\ ~missed /\ (\A c \in Clients : client[c].pc # "push")
             => (cvar <=> core = "on")

\* The plugin has the list and has forgotten outdated decisions, or a request
\* has still to tell it.
Follows ==
    game = "plugin" /\ ~missed =>
        /\ loaded = list \/ \E c \in Clients : client[c].pc = "reload"
        /\ \/ \A i \in Players : cache[i] \in {"none", W!Verdict(i)}
           \/ \E c \in Clients : client[c].pc = "clear"

WInv ==
    /\ W!TypeOK
    /\ RightOps /\ Wants /\ ConflictsNoted
    /\ Lockout /\ Lists /\ Switches /\ Follows

------------------------------------------------------------------------------
(***************************************************************************)
(* What a step of a request leaves in client and overlaps.                 *)
(***************************************************************************)

LEMMA StepsAre == "idle" \in W!RequestSteps /\ W!Idle \in Request
  BY DEF W!RequestSteps, W!Idle, Request

\* A request that goes on keeps what it asks.
LEMMA GotoIs ==
  ASSUME client \in [Clients -> Request], NEW c \in Clients,
         NEW pc \in W!RequestSteps, W!Goto(c, pc)
  PROVE  /\ client' \in [Clients -> Request]
         /\ overlaps' = overlaps
         /\ client'[c].pc = pc /\ client'[c].op = client[c].op
         /\ client'[c].want = client[c].want /\ client'[c].on = client[c].on
         /\ \A d \in Clients : d # c => client'[d] = client[d]
<1> DEFINE Places == W!RequestSteps
           Asked == Requested \union {"none"}
<1>1. Request = [pc : Places, op : Asked, want : SUBSET Players, on : BOOLEAN]
  BY DEF Request
<1>2. pc \in Places
  OBVIOUS
<1> HIDE DEF Places, Asked
<1>3. client' = [client EXCEPT ![c].pc = pc] /\ overlaps' = overlaps
  BY DEF W!Goto
<1> QED
  BY <1>1, <1>2, <1>3

\* One that is answered is gone.
LEMMA ReturnIs ==
  ASSUME client \in [Clients -> Request], NEW c \in Clients, W!Return(c)
  PROVE  /\ client' \in [Clients -> Request]
         /\ overlaps' = overlaps
         /\ client'[c].pc = "idle" /\ client'[c].op = "none"
         /\ \A d \in Clients : d # c => client'[d] = client[d]
<1>1. client' = [client EXCEPT ![c] = W!Idle] /\ overlaps' = overlaps
  BY DEF W!Return
<1>2. W!Idle.pc = "idle" /\ W!Idle.op = "none"
  BY DEF W!Idle
<1> QED
  BY <1>1, <1>2, StepsAre

\* One that begins notes what the others in progress may do to it.
LEMMA BeginIs ==
  ASSUME client \in [Clients -> Request], NEW c \in Clients, NEW op, NEW pc \in W!RequestSteps,
         NEW want \in SUBSET Players, NEW on \in BOOLEAN, W!Begin(c, op, pc, want, on)
  PROVE  /\ client' \in [Clients -> Request]
         /\ client[c].pc = "idle"
         /\ client'[c].pc = pc /\ client'[c].op = op
         /\ client'[c].want = want /\ client'[c].on = on
         /\ \A d \in Clients : d # c => client'[d] = client[d]
         /\ overlaps \subseteq overlaps'
         /\ \A d \in Clients : W!Conflicts(op, client[d].op) \subseteq overlaps'
         /\ overlaps \subseteq {"lockout", "switches", "lists"}
              => overlaps' \subseteq {"lockout", "switches", "lists"}
<1> DEFINE Places == W!RequestSteps
           Asked == Requested \union {"none"}
           Some(d) == W!Conflicts(op, client[d].op)
<1>1. Request = [pc : Places, op : Asked, want : SUBSET Players, on : BOOLEAN]
  BY DEF Request
<1>2. pc \in Places /\ op \in Asked
  BY DEF W!Begin
<1>3. \A d \in Clients : Some(d) \subseteq {"lockout", "switches", "lists"}
  BY DEF W!Conflicts
<1> HIDE DEF Places, Asked
<1>4. /\ client' = [client EXCEPT ![c] = [pc |-> pc, op |-> op, want |-> want, on |-> on]]
      /\ client[c].pc = "idle"
      /\ overlaps' = overlaps \union UNION {Some(d) : d \in Clients}
  BY DEF W!Begin, W!At
<1> HIDE DEF Some
<1>5. /\ overlaps \subseteq overlaps'
      /\ \A d \in Clients : Some(d) \subseteq overlaps'
      /\ overlaps \subseteq {"lockout", "switches", "lists"}
           => overlaps' \subseteq {"lockout", "switches", "lists"}
  BY <1>3, <1>4
<1>6. /\ client' \in [Clients -> Request]
      /\ client'[c].pc = pc /\ client'[c].op = op
      /\ client'[c].want = want /\ client'[c].on = on
      /\ \A d \in Clients : d # c => client'[d] = client[d]
  BY <1>1, <1>2, <1>4
<1> QED
  BY <1>4, <1>5, <1>6 DEF Some

LEMMA ConflictsAreMutual ==
  ASSUME NEW op, NEW other
  PROVE  /\ W!Conflicts(op, other) = W!Conflicts(other, op)
         /\ W!Conflicts("none", other) = {} /\ W!Conflicts(op, "none") = {}
<1>1. {op, other} = {other, op}
  OBVIOUS
<1>2. W!Conflicts(op, other) = W!Conflicts(other, op)
  BY <1>1 DEF W!Conflicts
<1>3. W!Conflicts("none", other) = {}
  BY DEF W!Conflicts
<1> QED
  BY <1>2, <1>3 DEF W!Conflicts

\* Going on and answering bring about no conflict, and beginning notes each.
LEMMA NotedWhenGoing ==
  ASSUME client \in [Clients -> Request], ConflictsNoted, NEW c \in Clients,
         NEW pc \in W!RequestSteps, W!Goto(c, pc)
  PROVE  ConflictsNoted'
BY GotoIs DEF ConflictsNoted

LEMMA NotedWhenAnswered ==
  ASSUME client \in [Clients -> Request], ConflictsNoted, NEW c \in Clients, W!Return(c)
  PROVE  ConflictsNoted'
BY ReturnIs, ConflictsAreMutual DEF ConflictsNoted

LEMMA NotedWhenBegun ==
  ASSUME client \in [Clients -> Request], ConflictsNoted, NEW c \in Clients, NEW op,
         NEW pc \in W!RequestSteps, NEW want \in SUBSET Players, NEW on \in BOOLEAN,
         W!Begin(c, op, pc, want, on)
  PROVE  ConflictsNoted'
<1> SUFFICES ASSUME NEW a \in Clients, NEW b \in Clients, a # b
             PROVE  W!Conflicts(client'[a].op, client'[b].op) \subseteq overlaps'
  BY DEF ConflictsNoted
<1>1. CASE a = c
  BY <1>1, BeginIs
<1>2. CASE b = c
  <2>1. W!Conflicts(client'[b].op, client'[a].op) \subseteq overlaps'
    BY <1>2, BeginIs
  <2> QED
    BY <2>1, ConflictsAreMutual
<1>3. CASE a # c /\ b # c
  BY <1>3, BeginIs DEF ConflictsNoted
<1> QED
  BY <1>1, <1>2, <1>3

------------------------------------------------------------------------------
(***************************************************************************)
(* The conflicts that the invariant argues with.                           *)
(***************************************************************************)

\* Emptying the list while the switch is in somebody's hands is a lockout.
LEMMA EmptyingBesideToggle ==
  ASSUME RightOps, Wants, ConflictsNoted, NEW c \in Clients, NEW d \in Clients,
         client[c].pc = "write", client[c].want = {}, client[d].pc = "flip"
  PROVE  "lockout" \in overlaps
<1>1. c # d /\ client[c].op = "remove" /\ client[d].op = "toggle"
  BY DEF RightOps, Wants
<1>2. "lockout" \in W!Conflicts("remove", "toggle")
  BY DEF W!Conflicts
<1> QED
  BY <1>1, <1>2 DEF ConflictsNoted

\* Two edits of the list.
LEMMA TwoEdits ==
  ASSUME RightOps, ConflictsNoted, NEW c \in Clients, NEW d \in Clients, c # d,
         client[c].pc \in {"put", "write"}, client[d].pc \in {"put", "write"}
  PROVE  "lists" \in overlaps
<1>1. client[c].op \in {"append", "remove"} /\ client[d].op \in {"append", "remove"}
  BY DEF RightOps
<1>2. "lists" \in W!Conflicts(client[c].op, client[d].op)
  BY <1>1 DEF W!Conflicts
<1> QED
  BY <1>2 DEF ConflictsNoted

\* Two writers of core.cfg.
LEMMA TwoWriters ==
  ASSUME RightOps, ConflictsNoted, NEW c \in Clients, NEW d \in Clients, c # d,
         client[c].pc \in {"flip", "push", "create"}, client[d].pc \in {"flip", "push", "create"}
  PROVE  "switches" \in overlaps
<1>1. client[c].op \in {"toggle", "install"} /\ client[d].op \in {"toggle", "install"}
  BY DEF RightOps
<1>2. "switches" \in W!Conflicts(client[c].op, client[d].op)
  BY <1>1 DEF W!Conflicts
<1> QED
  BY <1>2 DEF ConflictsNoted

------------------------------------------------------------------------------
(***************************************************************************)
(* The steps of a request keep the invariant.                              *)
(***************************************************************************)

LEMMA TypesAre ==
  /\ W!TypeOK => client \in [Clients -> Request]
  /\ client' \in [Clients -> Request]
       <=> client' \in [Clients -> [pc : W!RequestSteps, op : Requested \union {"none"},
                                   want : SUBSET Players, on : BOOLEAN]]
  BY DEF W!TypeOK, Request

\* An addition starts from the list as it is.
LEMMA AppendKeeps ==
  ASSUME WInv, NEW c \in Clients, NEW ids \in SUBSET Players, W!Append(c, ids)
  PROVE  WInv'
<1>1. /\ W!Begin(c, "append", "put", list \union ids, FALSE)
      /\ "put" \in W!RequestSteps /\ (list \union ids) \in SUBSET Players
  BY DEF W!Append, W!RequestSteps, WInv, W!TypeOK
<1>2. client \in [Clients -> Request]
  BY TypesAre DEF WInv
<1>3. W!TypeOK'
  BY <1>1, <1>2, BeginIs, TypesAre DEF WInv, W!Append, W!At, W!files, W!live, W!TypeOK
<1>4. ConflictsNoted'
  BY <1>1, <1>2, NotedWhenBegun DEF WInv
<1>5. /\ client'[c].pc = "put" /\ client'[c].op = "append"
      /\ client'[c].want = list \union ids /\ client'[c].on = FALSE
      /\ client[c].pc = "idle" /\ overlaps \subseteq overlaps'
      /\ \A d \in Clients : d # c => client'[d] = client[d]
  BY <1>1, <1>2, BeginIs
<1>6. RightOps' /\ Wants'
  BY <1>5 DEF WInv, W!Append, W!At, W!files, W!live, RightOps, Wants
<1>7. Lockout' /\ Lists'
  BY <1>5 DEF WInv, W!Append, W!At, W!files, W!live, Lockout, Lists
<1>8. Switches'
  BY <1>5 DEF WInv, W!Append, W!At, W!files, W!live, Switches
<1>9. Follows'
  BY <1>5 DEF WInv, W!Append, W!At, W!files, W!live, Follows, W!Verdict
<1> QED
  BY <1>3, <1>4, <1>6, <1>7, <1>8, <1>9 DEF WInv

\* A removal may empty the list; nothing is written yet.
LEMMA RemoveKeeps ==
  ASSUME WInv, NEW c \in Clients, NEW id \in Players, W!Remove(c, id)
  PROVE  WInv'
<1>1. /\ W!Begin(c, "remove", "put", list \ {id}, FALSE)
      /\ "put" \in W!RequestSteps /\ (list \ {id}) \in SUBSET Players
  BY DEF W!Remove, W!RequestSteps, WInv, W!TypeOK
<1>2. client \in [Clients -> Request]
  BY TypesAre DEF WInv
<1>3. W!TypeOK'
  BY <1>1, <1>2, BeginIs, TypesAre DEF WInv, W!Remove, W!At, W!files, W!live, W!TypeOK
<1>4. ConflictsNoted'
  BY <1>1, <1>2, NotedWhenBegun DEF WInv
<1>5. /\ client'[c].pc = "put" /\ client'[c].op = "remove"
      /\ client'[c].want = list \ {id} /\ client'[c].on = FALSE
      /\ client[c].pc = "idle" /\ overlaps \subseteq overlaps'
      /\ \A d \in Clients : d # c => client'[d] = client[d]
  BY <1>1, <1>2, BeginIs
<1>6. RightOps' /\ Wants'
  BY <1>5 DEF WInv, W!Remove, W!At, W!files, W!live, RightOps, Wants
<1>7. Lockout' /\ Lists'
  BY <1>5 DEF WInv, W!Remove, W!At, W!files, W!live, Lockout, Lists
<1>8. Switches'
  BY <1>5 DEF WInv, W!Remove, W!At, W!files, W!live, Switches
<1>9. Follows'
  BY <1>5 DEF WInv, W!Remove, W!At, W!files, W!live, Follows, W!Verdict
<1> QED
  BY <1>3, <1>4, <1>6, <1>7, <1>8, <1>9 DEF WInv

\* A refusal writes nothing.
LEMMA ApplyRefusedKeeps ==
  ASSUME WInv, NEW c \in Clients, W!ApplyRefused(c)
  PROVE  WInv'
<1>1. W!Return(c)
  BY DEF W!ApplyRefused
<1>2. client \in [Clients -> Request]
  BY TypesAre DEF WInv
<1>3. W!TypeOK'
  BY <1>1, <1>2, ReturnIs, TypesAre DEF WInv, W!ApplyRefused, W!At, W!files, W!live, W!TypeOK
<1>4. ConflictsNoted'
  BY <1>1, <1>2, NotedWhenAnswered DEF WInv
<1>5. /\ client'[c].pc = "idle" /\ client'[c].op = "none" /\ overlaps' = overlaps
      /\ \A d \in Clients : d # c => client'[d] = client[d]
  BY <1>1, <1>2, ReturnIs
<1>6. RightOps' /\ Wants'
  BY <1>5 DEF WInv, W!ApplyRefused, W!At, W!files, W!live, RightOps, Wants
<1>7. Lockout' /\ Lists'
  BY <1>5 DEF WInv, W!ApplyRefused, W!At, W!files, W!live, Lockout, Lists
<1>8. Switches'
  BY <1>5 DEF WInv, W!ApplyRefused, W!At, W!files, W!live, Switches
<1>9. Follows'
  BY <1>5 DEF WInv, W!ApplyRefused, W!At, W!files, W!live, Follows, W!Verdict
<1> QED
  BY <1>3, <1>4, <1>6, <1>7, <1>8, <1>9 DEF WInv

\* An empty list goes on only while the switch is off.
LEMMA ApplyCheckedKeeps ==
  ASSUME WInv, NEW c \in Clients, W!ApplyChecked(c)
  PROVE  WInv'
<1>1. W!Goto(c, "write") /\ "write" \in W!RequestSteps
  BY DEF W!ApplyChecked, W!RequestSteps
<1>2. client \in [Clients -> Request]
  BY TypesAre DEF WInv
<1>3. W!TypeOK'
  BY <1>1, <1>2, GotoIs, TypesAre DEF WInv, W!ApplyChecked, W!At, W!files, W!live, W!TypeOK
<1>4. ConflictsNoted'
  BY <1>1, <1>2, NotedWhenGoing DEF WInv
<1>5. /\ client'[c].pc = "write" /\ client'[c].op = client[c].op
      /\ client'[c].want = client[c].want /\ client'[c].on = client[c].on
      /\ overlaps' = overlaps
      /\ \A d \in Clients : d # c => client'[d] = client[d]
  BY <1>1, <1>2, GotoIs
<1>6. RightOps' /\ Wants'
  BY <1>5 DEF WInv, W!ApplyChecked, W!At, W!files, W!live, RightOps, Wants
<1>7. Lockout' /\ Lists'
  BY <1>5 DEF WInv, W!ApplyChecked, W!At, W!files, W!live, Lockout, Lists
<1>8. Switches'
  BY <1>5 DEF WInv, W!ApplyChecked, W!At, W!files, W!live, Switches
<1>9. Follows'
  BY <1>5 DEF WInv, W!ApplyChecked, W!At, W!files, W!live, Follows, W!Verdict
<1> QED
  BY <1>3, <1>4, <1>6, <1>7, <1>8, <1>9 DEF WInv

\* The list is written; its reader is told next.
LEMMA ApplyWritesKeeps ==
  ASSUME WInv, NEW c \in Clients, W!ApplyWrites(c)
  PROVE  WInv'
<1>1. W!Goto(c, "reload") /\ "reload" \in W!RequestSteps
  BY DEF W!ApplyWrites, W!RequestSteps
<1>2. client \in [Clients -> Request]
  BY TypesAre DEF WInv
<1>3. W!TypeOK'
  BY <1>1, <1>2, GotoIs, TypesAre DEF WInv, W!ApplyWrites, W!At, W!files, W!live, W!TypeOK, Wants
<1>4. ConflictsNoted'
  BY <1>1, <1>2, NotedWhenGoing DEF WInv
<1>5. /\ client'[c].pc = "reload" /\ client'[c].op = client[c].op
      /\ client'[c].want = client[c].want /\ client'[c].on = client[c].on
      /\ overlaps' = overlaps
      /\ \A d \in Clients : d # c => client'[d] = client[d]
  BY <1>1, <1>2, GotoIs
<1>6. RightOps' /\ Wants'
  BY <1>5 DEF WInv, W!ApplyWrites, W!At, W!files, W!live, RightOps, Wants
<1>7. Lockout' /\ Lists'
  BY <1>5, EmptyingBesideToggle, TwoEdits DEF WInv, W!ApplyWrites, W!At, W!files, W!live, Lockout, Lists
<1>8. Switches'
  BY <1>5 DEF WInv, W!ApplyWrites, W!At, W!files, W!live, Switches
<1>9. Follows'
  BY <1>5 DEF WInv, W!ApplyWrites, W!At, W!files, W!live, Follows, W!Verdict
<1> QED
  BY <1>3, <1>4, <1>6, <1>7, <1>8, <1>9 DEF WInv

\* The plugin has the list, or RCON lost the command.
LEMMA ReloadKeeps ==
  ASSUME WInv, NEW c \in Clients, W!Reload(c)
  PROVE  WInv'
<1>1. W!Goto(c, "clear") /\ "clear" \in W!RequestSteps
  BY DEF W!Reload, W!RequestSteps
<1>2. client \in [Clients -> Request]
  BY TypesAre DEF WInv
<1>3. W!TypeOK'
  BY <1>1, <1>2, GotoIs, TypesAre DEF WInv, W!Reload, W!At, W!files, W!live, W!Delivered, W!Dropped, W!TypeOK
<1>4. ConflictsNoted'
  BY <1>1, <1>2, NotedWhenGoing DEF WInv
<1>5. /\ client'[c].pc = "clear" /\ client'[c].op = client[c].op
      /\ client'[c].want = client[c].want /\ client'[c].on = client[c].on
      /\ overlaps' = overlaps
      /\ \A d \in Clients : d # c => client'[d] = client[d]
  BY <1>1, <1>2, GotoIs
<1>6. RightOps' /\ Wants'
  BY <1>5 DEF WInv, W!Reload, W!At, W!files, W!live, W!Delivered, W!Dropped, RightOps, Wants
<1>7. Lockout' /\ Lists'
  BY <1>5 DEF WInv, W!Reload, W!At, W!files, W!live, W!Delivered, W!Dropped, Lockout, Lists
<1>8. /\ game' = game /\ client[c].pc = "reload"
      /\ UNCHANGED <<list, core>> /\ cache' = cache /\ cvar' = cvar
      /\ game = "plugin" /\ ~missed' => ~missed /\ loaded' = list
  <2>1. CASE W!Delivered /\ loaded' = list
    BY <2>1 DEF W!Reload, W!At, W!files, W!Delivered
  <2>2. CASE W!Dropped
    <3>1. game = "plugin" => missed'
      BY <2>2 DEF W!Dropped
    <3>2. /\ game' = game /\ client[c].pc = "reload"
          /\ UNCHANGED <<list, core>> /\ cache' = cache /\ cvar' = cvar
      BY DEF W!Reload, W!At, W!files
    <3> QED
      BY <3>1, <3>2
  <2> QED
    BY <2>1, <2>2 DEF W!Reload
<1>9. Switches'
  BY <1>5, <1>8 DEF WInv, Switches
<1>10. Follows'
  BY <1>5, <1>8 DEF WInv, Follows, W!Verdict
<1> QED
  BY <1>3, <1>4, <1>6, <1>7, <1>9, <1>10 DEF WInv

\* The plugin has forgotten its decisions, or RCON lost the command.
LEMMA ClearCacheKeeps ==
  ASSUME WInv, NEW c \in Clients, W!ClearCache(c)
  PROVE  WInv'
<1>1. W!Return(c)
  BY DEF W!ClearCache
<1>2. client \in [Clients -> Request]
  BY TypesAre DEF WInv
<1>3. W!TypeOK'
  BY <1>1, <1>2, ReturnIs, TypesAre DEF WInv, W!ClearCache, W!At, W!files, W!live, W!Delivered, W!Dropped, W!TypeOK, W!Nobody
<1>4. ConflictsNoted'
  BY <1>1, <1>2, NotedWhenAnswered DEF WInv
<1>5. /\ client'[c].pc = "idle" /\ client'[c].op = "none" /\ overlaps' = overlaps
      /\ \A d \in Clients : d # c => client'[d] = client[d]
  BY <1>1, <1>2, ReturnIs
<1>6. RightOps' /\ Wants'
  BY <1>5 DEF WInv, W!ClearCache, W!At, W!files, W!live, W!Delivered, W!Dropped, RightOps, Wants
<1>7. Lockout' /\ Lists'
  BY <1>5 DEF WInv, W!ClearCache, W!At, W!files, W!live, W!Delivered, W!Dropped, Lockout, Lists
<1>8. /\ game' = game /\ client[c].pc = "clear"
      /\ UNCHANGED <<list, core>> /\ loaded' = loaded /\ cvar' = cvar
      /\ game = "plugin" /\ ~missed' => ~missed /\ cache' = W!Nobody
  <2>1. CASE W!Delivered /\ cache' = W!Nobody
    BY <2>1 DEF W!ClearCache, W!At, W!files, W!Delivered
  <2>2. CASE W!Dropped
    <3>1. game = "plugin" => missed'
      BY <2>2 DEF W!Dropped
    <3>2. /\ game' = game /\ client[c].pc = "clear"
          /\ UNCHANGED <<list, core>> /\ loaded' = loaded /\ cvar' = cvar
      BY DEF W!ClearCache, W!At, W!files
    <3> QED
      BY <3>1, <3>2
  <2> QED
    BY <2>1, <2>2 DEF W!ClearCache
<1>9. Switches'
  BY <1>5, <1>8 DEF WInv, Switches
<1>10. Follows'
  BY <1>5, <1>8 DEF WInv, Follows, W!Verdict, W!Nobody
<1> QED
  BY <1>3, <1>4, <1>6, <1>7, <1>9, <1>10 DEF WInv

\* The switch is to be set.
LEMMA ToggleKeeps ==
  ASSUME WInv, NEW c \in Clients, NEW on \in BOOLEAN, W!Toggle(c, on)
  PROVE  WInv'
<1>1. /\ W!Begin(c, "toggle", "set", {}, on) /\ on \in BOOLEAN
      /\ "set" \in W!RequestSteps /\ {} \in SUBSET Players
  BY DEF W!Toggle, W!RequestSteps, WInv, W!TypeOK
<1>2. client \in [Clients -> Request]
  BY TypesAre DEF WInv
<1>3. /\ client'[c].pc = "set" /\ client'[c].op = "toggle"
      /\ client'[c].want = {} /\ client'[c].on = on
      /\ client[c].pc = "idle" /\ overlaps \subseteq overlaps'
      /\ \A d \in Clients : d # c => client'[d] = client[d]
      /\ client' \in [Clients -> Request]
      /\ overlaps' \subseteq {"lockout", "switches", "lists"}
  <2>0. overlaps \subseteq {"lockout", "switches", "lists"}
    BY DEF WInv, W!TypeOK
  <2>1. CASE on = TRUE
    <3>1. W!Begin(c, "toggle", "set", {}, TRUE)
      BY <1>1, <2>1
    <3> QED
      BY <1>1, <1>2, <2>0, <2>1, <3>1, BeginIs
  <2>2. CASE on = FALSE
    <3>1. W!Begin(c, "toggle", "set", {}, FALSE)
      BY <1>1, <2>2
    <3> QED
      BY <1>1, <1>2, <2>0, <2>2, <3>1, BeginIs
  <2> QED
    BY <2>1, <2>2
<1>4. ConflictsNoted'
  BY <1>1, <1>2, NotedWhenBegun DEF WInv
<1>5. W!TypeOK'
  BY <1>3, TypesAre DEF WInv, W!Toggle, W!At, W!files, W!live, W!TypeOK
<1>6. RightOps' /\ Wants'
  BY <1>3 DEF WInv, W!Toggle, W!At, W!files, W!live, RightOps, Wants
<1>7. Lockout' /\ Lists'
  BY <1>3 DEF WInv, W!Toggle, W!At, W!files, W!live, Lockout, Lists
<1>8. Switches'
  BY <1>3 DEF WInv, W!Toggle, W!At, W!files, W!live, Switches
<1>9. Follows'
  BY <1>3 DEF WInv, W!Toggle, W!At, W!files, W!live, Follows, W!Verdict
<1> QED
  BY <1>4, <1>5, <1>6, <1>7, <1>8, <1>9 DEF WInv

\* It goes on only over a list that is not empty.
LEMMA SetEnabledCheckedKeeps ==
  ASSUME WInv, NEW c \in Clients, W!SetEnabledChecked(c)
  PROVE  WInv'
<1>1. W!Goto(c, "flip") /\ "flip" \in W!RequestSteps
  BY DEF W!SetEnabledChecked, W!RequestSteps
<1>2. client \in [Clients -> Request]
  BY TypesAre DEF WInv
<1>3. W!TypeOK'
  BY <1>1, <1>2, GotoIs, TypesAre DEF WInv, W!SetEnabledChecked, W!At, W!files, W!live, W!TypeOK
<1>4. ConflictsNoted'
  BY <1>1, <1>2, NotedWhenGoing DEF WInv
<1>5. /\ client'[c].pc = "flip" /\ client'[c].op = client[c].op
      /\ client'[c].want = client[c].want /\ client'[c].on = client[c].on
      /\ overlaps' = overlaps
      /\ \A d \in Clients : d # c => client'[d] = client[d]
  BY <1>1, <1>2, GotoIs
<1>6. RightOps' /\ Wants'
  BY <1>5 DEF WInv, W!SetEnabledChecked, W!At, W!files, W!live, RightOps, Wants
<1>7. Lockout' /\ Lists'
  BY <1>5 DEF WInv, W!SetEnabledChecked, W!At, W!files, W!live, Lockout, Lists
<1>8. Switches'
  BY <1>5 DEF WInv, W!SetEnabledChecked, W!At, W!files, W!live, Switches
<1>9. Follows'
  BY <1>5 DEF WInv, W!SetEnabledChecked, W!At, W!files, W!live, Follows, W!Verdict
<1> QED
  BY <1>3, <1>4, <1>6, <1>7, <1>8, <1>9 DEF WInv

\* A refusal writes nothing.
LEMMA SetEnabledRefusedKeeps ==
  ASSUME WInv, NEW c \in Clients, W!SetEnabledRefused(c)
  PROVE  WInv'
<1>1. W!Return(c)
  BY DEF W!SetEnabledRefused
<1>2. client \in [Clients -> Request]
  BY TypesAre DEF WInv
<1>3. W!TypeOK'
  BY <1>1, <1>2, ReturnIs, TypesAre DEF WInv, W!SetEnabledRefused, W!At, W!files, W!live, W!TypeOK
<1>4. ConflictsNoted'
  BY <1>1, <1>2, NotedWhenAnswered DEF WInv
<1>5. /\ client'[c].pc = "idle" /\ client'[c].op = "none" /\ overlaps' = overlaps
      /\ \A d \in Clients : d # c => client'[d] = client[d]
  BY <1>1, <1>2, ReturnIs
<1>6. RightOps' /\ Wants'
  BY <1>5 DEF WInv, W!SetEnabledRefused, W!At, W!files, W!live, RightOps, Wants
<1>7. Lockout' /\ Lists'
  BY <1>5 DEF WInv, W!SetEnabledRefused, W!At, W!files, W!live, Lockout, Lists
<1>8. Switches'
  BY <1>5 DEF WInv, W!SetEnabledRefused, W!At, W!files, W!live, Switches
<1>9. Follows'
  BY <1>5 DEF WInv, W!SetEnabledRefused, W!At, W!files, W!live, Follows, W!Verdict
<1> QED
  BY <1>3, <1>4, <1>6, <1>7, <1>8, <1>9 DEF WInv

\* The switch is written; the plugin is told next.
LEMMA SetEnabledWritesKeeps ==
  ASSUME WInv, NEW c \in Clients, W!SetEnabledWrites(c)
  PROVE  WInv'
<1>1. W!Goto(c, "push") /\ "push" \in W!RequestSteps
  BY DEF W!SetEnabledWrites, W!RequestSteps
<1>2. client \in [Clients -> Request]
  BY TypesAre DEF WInv
<1>3. W!TypeOK'
  BY <1>1, <1>2, GotoIs, TypesAre DEF WInv, W!SetEnabledWrites, W!At, W!files, W!live, W!TypeOK
<1>4. ConflictsNoted'
  BY <1>1, <1>2, NotedWhenGoing DEF WInv
<1>5. /\ client'[c].pc = "push" /\ client'[c].op = client[c].op
      /\ client'[c].want = client[c].want /\ client'[c].on = client[c].on
      /\ overlaps' = overlaps
      /\ \A d \in Clients : d # c => client'[d] = client[d]
  BY <1>1, <1>2, GotoIs
<1>6. RightOps' /\ Wants'
  BY <1>5 DEF WInv, W!SetEnabledWrites, W!At, W!files, W!live, RightOps, Wants
<1>7. Lockout' /\ Lists'
  BY <1>5, EmptyingBesideToggle DEF WInv, W!SetEnabledWrites, W!At, W!files, W!live, Lockout, Lists
<1>8. Switches'
  BY <1>5, TwoWriters DEF WInv, W!SetEnabledWrites, W!At, W!files, W!live, Switches
<1>9. Follows'
  BY <1>5 DEF WInv, W!SetEnabledWrites, W!At, W!files, W!live, Follows, W!Verdict
<1> QED
  BY <1>3, <1>4, <1>6, <1>7, <1>8, <1>9 DEF WInv

\* The plugin has the switch, or RCON lost the command.
LEMMA PushKeeps ==
  ASSUME WInv, NEW c \in Clients, W!Push(c)
  PROVE  WInv'
<1>1. W!Goto(c, "clear") /\ "clear" \in W!RequestSteps
  BY DEF W!Push, W!RequestSteps
<1>2. client \in [Clients -> Request]
  BY TypesAre DEF WInv
<1>3. W!TypeOK'
  BY <1>1, <1>2, GotoIs, TypesAre DEF WInv, W!Push, W!At, W!files, W!live, W!Delivered, W!Dropped, W!TypeOK
<1>4. ConflictsNoted'
  BY <1>1, <1>2, NotedWhenGoing DEF WInv
<1>5. /\ client'[c].pc = "clear" /\ client'[c].op = client[c].op
      /\ client'[c].want = client[c].want /\ client'[c].on = client[c].on
      /\ overlaps' = overlaps
      /\ \A d \in Clients : d # c => client'[d] = client[d]
  BY <1>1, <1>2, GotoIs
<1>6. RightOps' /\ Wants'
  BY <1>5 DEF WInv, W!Push, W!At, W!files, W!live, W!Delivered, W!Dropped, RightOps, Wants
<1>7. Lockout' /\ Lists'
  BY <1>5 DEF WInv, W!Push, W!At, W!files, W!live, W!Delivered, W!Dropped, Lockout, Lists
<1>8. /\ game' = game /\ client[c].pc = "push"
      /\ UNCHANGED <<list, core>> /\ loaded' = loaded /\ cache' = cache
      /\ game = "plugin" /\ ~missed' => ~missed /\ cvar' = client[c].on
  <2>1. CASE W!Delivered /\ cvar' = client[c].on
    BY <2>1 DEF W!Push, W!At, W!files, W!Delivered
  <2>2. CASE W!Dropped
    <3>1. game = "plugin" => missed'
      BY <2>2 DEF W!Dropped
    <3>2. /\ game' = game /\ client[c].pc = "push"
          /\ UNCHANGED <<list, core>> /\ loaded' = loaded /\ cache' = cache
      BY DEF W!Push, W!At, W!files
    <3> QED
      BY <3>1, <3>2
  <2> QED
    BY <2>1, <2>2 DEF W!Push
<1>9. Switches'
  BY <1>5, <1>8 DEF WInv, Switches
<1>10. Follows'
  BY <1>5, <1>8 DEF WInv, Follows, W!Verdict
<1> QED
  BY <1>3, <1>4, <1>6, <1>7, <1>9, <1>10 DEF WInv

\* An install brings the plugin's files, but not to the one that runs.
LEMMA ExtractKeeps ==
  ASSUME WInv, NEW c \in Clients, W!Extract(c)
  PROVE  WInv'
<1>1. /\ W!Begin(c, "install", "stat", {}, FALSE)
      /\ "stat" \in W!RequestSteps /\ {} \in SUBSET Players
  BY DEF W!Extract, W!RequestSteps, WInv, W!TypeOK
<1>2. client \in [Clients -> Request]
  BY TypesAre DEF WInv
<1>3. W!TypeOK'
  BY <1>1, <1>2, BeginIs, TypesAre DEF WInv, W!Extract, W!At, W!files, W!live, W!TypeOK
<1>4. ConflictsNoted'
  BY <1>1, <1>2, NotedWhenBegun DEF WInv
<1>5. /\ client'[c].pc = "stat" /\ client'[c].op = "install"
      /\ client'[c].want = {} /\ client'[c].on = FALSE
      /\ client[c].pc = "idle" /\ overlaps \subseteq overlaps'
      /\ \A d \in Clients : d # c => client'[d] = client[d]
  BY <1>1, <1>2, BeginIs
<1>6. RightOps' /\ Wants'
  BY <1>5 DEF WInv, W!Extract, W!At, W!files, W!live, RightOps, Wants
<1>7. Lockout' /\ Lists'
  BY <1>5 DEF WInv, W!Extract, W!At, W!files, W!live, Lockout, Lists
<1>8. Switches'
  BY <1>5 DEF WInv, W!Extract, W!At, W!files, W!live, Switches
<1>9. Follows'
  BY <1>5 DEF WInv, W!Extract, W!At, W!files, W!live, Follows, W!Verdict
<1> QED
  BY <1>3, <1>4, <1>6, <1>7, <1>8, <1>9 DEF WInv

\* A core.cfg that is there stays.
LEMMA ConfigExistsKeeps ==
  ASSUME WInv, NEW c \in Clients, W!ConfigExists(c)
  PROVE  WInv'
<1>1. W!Return(c)
  BY DEF W!ConfigExists
<1>2. client \in [Clients -> Request]
  BY TypesAre DEF WInv
<1>3. W!TypeOK'
  BY <1>1, <1>2, ReturnIs, TypesAre DEF WInv, W!ConfigExists, W!At, W!files, W!live, W!TypeOK
<1>4. ConflictsNoted'
  BY <1>1, <1>2, NotedWhenAnswered DEF WInv
<1>5. /\ client'[c].pc = "idle" /\ client'[c].op = "none" /\ overlaps' = overlaps
      /\ \A d \in Clients : d # c => client'[d] = client[d]
  BY <1>1, <1>2, ReturnIs
<1>6. RightOps' /\ Wants'
  BY <1>5 DEF WInv, W!ConfigExists, W!At, W!files, W!live, RightOps, Wants
<1>7. Lockout' /\ Lists'
  BY <1>5 DEF WInv, W!ConfigExists, W!At, W!files, W!live, Lockout, Lists
<1>8. Switches'
  BY <1>5 DEF WInv, W!ConfigExists, W!At, W!files, W!live, Switches
<1>9. Follows'
  BY <1>5 DEF WInv, W!ConfigExists, W!At, W!files, W!live, Follows, W!Verdict
<1> QED
  BY <1>3, <1>4, <1>6, <1>7, <1>8, <1>9 DEF WInv

\* One that is not there has no switch.
LEMMA ConfigMissingKeeps ==
  ASSUME WInv, NEW c \in Clients, W!ConfigMissing(c)
  PROVE  WInv'
<1>1. W!Goto(c, "create") /\ "create" \in W!RequestSteps
  BY DEF W!ConfigMissing, W!RequestSteps
<1>2. client \in [Clients -> Request]
  BY TypesAre DEF WInv
<1>3. W!TypeOK'
  BY <1>1, <1>2, GotoIs, TypesAre DEF WInv, W!ConfigMissing, W!At, W!files, W!live, W!TypeOK
<1>4. ConflictsNoted'
  BY <1>1, <1>2, NotedWhenGoing DEF WInv
<1>5. /\ client'[c].pc = "create" /\ client'[c].op = client[c].op
      /\ client'[c].want = client[c].want /\ client'[c].on = client[c].on
      /\ overlaps' = overlaps
      /\ \A d \in Clients : d # c => client'[d] = client[d]
  BY <1>1, <1>2, GotoIs
<1>6. RightOps' /\ Wants'
  BY <1>5 DEF WInv, W!ConfigMissing, W!At, W!files, W!live, RightOps, Wants
<1>7. Lockout' /\ Lists'
  BY <1>5 DEF WInv, W!ConfigMissing, W!At, W!files, W!live, Lockout, Lists
<1>8. Switches'
  BY <1>5 DEF WInv, W!ConfigMissing, W!At, W!files, W!live, Switches
<1>9. Follows'
  BY <1>5 DEF WInv, W!ConfigMissing, W!At, W!files, W!live, Follows, W!Verdict
<1> QED
  BY <1>3, <1>4, <1>6, <1>7, <1>8, <1>9 DEF WInv

\* The switch of a new one is off, as it was without the file.
LEMMA WriteConfigKeeps ==
  ASSUME WInv, NEW c \in Clients, W!WriteConfig(c)
  PROVE  WInv'
<1>1. W!Return(c)
  BY DEF W!WriteConfig
<1>2. client \in [Clients -> Request]
  BY TypesAre DEF WInv
<1>3. W!TypeOK'
  BY <1>1, <1>2, ReturnIs, TypesAre DEF WInv, W!WriteConfig, W!At, W!files, W!live, W!TypeOK
<1>4. ConflictsNoted'
  BY <1>1, <1>2, NotedWhenAnswered DEF WInv
<1>5. /\ client'[c].pc = "idle" /\ client'[c].op = "none" /\ overlaps' = overlaps
      /\ \A d \in Clients : d # c => client'[d] = client[d]
  BY <1>1, <1>2, ReturnIs
<1>6. RightOps' /\ Wants'
  BY <1>5 DEF WInv, W!WriteConfig, W!At, W!files, W!live, RightOps, Wants
<1>7. Lockout' /\ Lists'
  BY <1>5 DEF WInv, W!WriteConfig, W!At, W!files, W!live, Lockout, Lists
<1>8. Switches'
  BY <1>5, TwoWriters DEF WInv, W!WriteConfig, W!At, W!files, W!live, Switches
<1>9. Follows'
  BY <1>5 DEF WInv, W!WriteConfig, W!At, W!files, W!live, Follows, W!Verdict
<1> QED
  BY <1>3, <1>4, <1>6, <1>7, <1>8, <1>9 DEF WInv

------------------------------------------------------------------------------
(***************************************************************************)
(* The game's steps keep it too: a start reads both files, a map change    *)
(* the list, and who connects is decided by what the plugin has now.       *)
(***************************************************************************)

LEMMA GameKeeps ==
  ASSUME WInv, W!Game
  PROVE  WInv'
<1>1. UNCHANGED <<list, core, client, overlaps>>
  BY DEF W!Game, W!Boots, W!Stops, W!MapChanges, W!Connects, W!files
<1>2. (RightOps /\ Wants /\ ConflictsNoted /\ Lockout /\ Lists)'
  BY <1>1 DEF WInv, RightOps, Wants, ConflictsNoted, Lockout, Lists
<1>3. CASE W!Boots
  <2>1. W!TypeOK'
    BY <1>1, <1>3 DEF WInv, W!TypeOK, W!Boots, W!Nobody
  <2>2. Switches'
    <3>1. game' = "plugin" => (cvar' <=> core = "on")
      BY <1>3 DEF W!Boots
    <3> QED
      BY <1>1, <3>1 DEF WInv, Switches
  <2>3. Follows'
    <3>1. game' = "plugin" => loaded' = list /\ cache' = W!Nobody
      BY <1>3 DEF W!Boots
    <3> QED
      BY <1>1, <3>1 DEF Follows, W!Nobody
  <2> QED
    BY <1>2, <2>1, <2>2, <2>3 DEF WInv
<1>4. CASE W!Stops
  BY <1>1, <1>2, <1>4 DEF WInv, W!TypeOK, W!Stops, W!Nobody, Switches, Follows
<1>5. CASE W!MapChanges
  BY <1>1, <1>2, <1>5 DEF WInv, W!TypeOK, W!MapChanges, W!Nobody, Switches, Follows
<1>6. ASSUME NEW i \in Players \ Malformed, W!Connects(i)
      PROVE  WInv'
  <2>1. /\ UNCHANGED <<installed, game, cvar, loaded, missed>>
        /\ cache' = [cache EXCEPT ![i] = W!Verdict(i)]
    BY <1>6 DEF W!Connects
  <2>2. W!Verdict(i) \in {"allow", "reject"}
    BY DEF W!Verdict
  <2>3. W!TypeOK'
    BY <1>1, <2>1, <2>2 DEF WInv, W!TypeOK
  <2>4. Switches'
    BY <1>1, <2>1 DEF WInv, Switches
  <2>5. \A j \in Players : cache'[j] = cache[j] \/ cache'[j] = W!Verdict(j)
    BY <2>1 DEF WInv, W!TypeOK
  <2>6. Follows'
    BY <1>1, <2>1, <2>5 DEF WInv, Follows, W!Verdict
  <2> QED
    BY <1>2, <2>3, <2>4, <2>6 DEF WInv
<1> QED
  BY <1>3, <1>4, <1>5, <1>6 DEF W!Game

------------------------------------------------------------------------------
(***************************************************************************)
(* The invariant, and what it says to whoever looks.                       *)
(***************************************************************************)

LEMMA WInit ==
  ASSUME W!Init
  PROVE  WInv
<1>1. \A c \in Clients : client[c].pc = "idle" /\ client[c].op = "none"
  BY DEF W!Init, W!Idle
<1>2. W!TypeOK
  BY StepsAre DEF W!Init, W!TypeOK, W!Nobody, Request
<1>3. ConflictsNoted
  BY <1>1, ConflictsAreMutual DEF ConflictsNoted
<1>4. RightOps /\ Wants /\ Lockout /\ Lists /\ Switches /\ Follows
  BY <1>1 DEF W!Init, RightOps, Wants, Lockout, Lists, Switches, Follows
<1> QED
  BY <1>2, <1>3, <1>4 DEF WInv

LEMMA WStutters ==
  ASSUME WInv, UNCHANGED whitelistVars
  PROVE  WInv'
BY DEF WInv, whitelistVars, W!TypeOK, RightOps, Wants, ConflictsNoted, Lockout, Lists,
       Switches, Follows, W!Verdict

LEMMA WNext ==
  ASSUME WInv, W!Next
  PROVE  WInv'
<1>1. CASE W!Game
  BY <1>1, GameKeeps
<1>2. ASSUME NEW c \in Clients, W!Agent(c)
      PROVE  WInv'
  BY <1>2, ApplyRefusedKeeps, ApplyCheckedKeeps, ApplyWritesKeeps, ReloadKeeps, ClearCacheKeeps,
     SetEnabledCheckedKeeps, SetEnabledRefusedKeeps, SetEnabledWritesKeeps, PushKeeps,
     ConfigExistsKeeps, ConfigMissingKeeps, WriteConfigKeeps DEF W!Agent
<1>3. ASSUME NEW c \in Clients, W!Panel(c)
      PROVE  WInv'
  BY <1>3, AppendKeeps, RemoveKeeps, ToggleKeeps, ExtractKeeps DEF W!Panel
<1> QED
  BY <1>1, <1>2, <1>3 DEF W!Next

THEOREM Invariance == RequestsSpec => []WInv
<1>1. RequestsInit => WInv
  BY WInit DEF RequestsInit
<1>2. WInv /\ [RequestsNext]_<<focus, vars, whitelistVars>> => WInv'
  <2> SUFFICES ASSUME WInv, [RequestsNext]_<<focus, vars, whitelistVars>>
               PROVE  WInv'
    OBVIOUS
  <2>1. CASE UNCHANGED whitelistVars
    BY <2>1, WStutters
  <2>2. CASE W!Next
    BY <2>2, WNext
  <2> QED
    BY <2>1, <2>2 DEF RequestsNext
<1> QED
  BY <1>1, <1>2, PTL DEF RequestsSpec

\* core.cfg never enforces an empty whitelist.txt, which would lock everyone
\* out, unless a removal and a toggle were in progress at once: what Apply and
\* SetEnabled read of each other's file holds until they write.
THEOREM NeverLockedOut == RequestsSpec => []EnforcedNotEmpty
<1>1. WInv => EnforcedNotEmpty
  BY DEF WInv, Lockout, EnforcedNotEmpty, W!EnforcedNotEmpty
<1> QED
  BY <1>1, Invariance, PTL

\* With every request answered, no command lost and no two writers of core.cfg
\* at once, the plugin that runs has the switch of core.cfg, the list of
\* whitelist.txt and no decision that it would not make again.
THEOREM PluginFollows == RequestsSpec => []PluginFollowsFiles
<1>1. WInv => PluginFollowsFiles
  <2> SUFFICES ASSUME WInv PROVE W!SwitchesAgree /\ W!DecisionsAreCurrent
    BY DEF PluginFollowsFiles, W!PluginFollowsFiles
  <2>1. W!AtRest => game = "plugin" /\ \A c \in Clients : client[c].pc = "idle"
    BY DEF W!AtRest, W!At
  <2>2. W!DecisionsAreCurrent
    BY <2>1 DEF WInv, Follows, W!DecisionsAreCurrent
  <2>3. W!SwitchesAgree
    <3> SUFFICES ASSUME W!AtRest, ~missed, "switches" \notin overlaps
                 PROVE  cvar = (core = "on")
      BY DEF W!SwitchesAgree
    <3>1. cvar <=> core = "on"
      BY <2>1 DEF WInv, Switches
    <3>2. cvar \in BOOLEAN
      BY DEF WInv, W!TypeOK
    <3> QED
      BY <3>1, <3>2
  <2> QED
    BY <2>2, <2>3
<1> QED
  BY <1>1, Invariance, PTL

\* The step that stores an addition takes nobody off the list ("appending can
\* only add"), unless the list was edited from two places at once: what the
\* panel read is still what is on disk.
THEOREM AddingOnlyAdds == RequestsSpec => AppendOnlyAdds
<1>1. ASSUME WInv, [RequestsNext]_<<focus, vars, whitelistVars>>,
             NEW c \in Clients, client[c].pc = "write", client[c].op = "append",
             list' # list, "lists" \notin overlaps
      PROVE  list \subseteq list'
  <2>1. PICK d \in Clients : W!ApplyWrites(d)
    <3>1. W!Next
      BY <1>1 DEF RequestsNext, whitelistVars
    <3> QED
      BY <1>1, <3>1 DEF W!Next, W!Game, W!Boots, W!Stops, W!MapChanges, W!Connects, W!Agent,
           W!Panel, W!Append, W!Remove, W!ApplyRefused, W!ApplyChecked, W!Reload, W!ClearCache,
           W!Toggle, W!SetEnabledChecked, W!SetEnabledRefused, W!SetEnabledWrites, W!Push,
           W!Extract, W!ConfigExists, W!ConfigMissing, W!WriteConfig, W!files
  <2>2. client[d].pc = "write" /\ list' = client[d].want
    BY <2>1 DEF W!ApplyWrites, W!At
  <2>3. d = c
    BY <1>1, <2>2, TwoEdits DEF WInv
  <2> QED
    BY <1>1, <2>2, <2>3 DEF WInv, Lists
<1>2. WInv /\ [RequestsNext]_<<focus, vars, whitelistVars>>
        => [\A c \in Clients :
              W!At(c, "write") /\ client[c].op = "append" /\ list' # list
                /\ "lists" \notin overlaps => list \subseteq list']_W!vars
  BY <1>1 DEF W!At
<1> QED
  BY <1>2, Invariance, PTL DEF RequestsSpec, AppendOnlyAdds, W!AppendOnlyAdds
==============================================================================
