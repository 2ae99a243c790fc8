-------------------------------- MODULE Jobs ---------------------------------
(***************************************************************************)
(* The agent's job registry (internal/agent/jobs.go): long operations run  *)
(* in a goroutine of their own and are followed by polling.  Every access  *)
(* holds the registry's mutex, so one method call is one action; what      *)
(* interleaves is the goroutines, which run between the calls.             *)
(*                                                                         *)
(* A job moves fresh -> running -> done | failed -> reaped.  "fresh" is an *)
(* id not drawn yet and "reaped" one whose entry was deleted: ids are 64   *)
(* random bits and are not drawn twice.                                    *)
(***************************************************************************)
EXTENDS Naturals

CONSTANTS
    Targets,    \* what a job can work on: catalog ids, and "cs2"
    Ids,        \* job ids
    Steps,      \* progress texts
    Reports,    \* the progress updates a job's body may send
    Retain      \* how many ticks a finished job stays queryable

\* One progress update: a text and, during a download, a byte count.
Progress == [step : Steps, bytes : Nat, total : Nat]

ASSUME RetainAssumption == Retain \in Nat
ASSUME StepsAssumption == {"", "starting"} \subseteq Steps
ASSUME ReportsAssumption == Reports \subseteq Progress

VARIABLES
    jobs,       \* the registry: id -> job
    body,       \* the goroutine behind an id: at work in fn, or what fn returned
    latest      \* history: the last progress update a running job sent

vars == <<jobs, body, latest>>

\* time.Since(j.Finished) of a job that has not finished: Finished is the zero
\* time then, so the age exceeds any Retain.
Ancient == Retain + 1

Job == [status : {"fresh", "running", "done", "failed", "reaped"},
        target : Targets \union {""},
        step   : Steps,
        bytes  : Nat,
        total  : Nat,
        recent : BOOLEAN,     \* a byte update was accepted < 100 ms ago
        age    : 0..Ancient]  \* ticks since Finished

Entry(status, target, step) ==
    [status |-> status, target |-> target, step |-> step, bytes |-> 0,
     total |-> 0, recent |-> FALSE, age |-> Ancient]

Silent == [step |-> "", bytes |-> 0, total |-> 0]

TypeOK ==
    /\ jobs \in [Ids -> Job]
    /\ body \in [Ids -> {"none", "running", "ok", "error"}]
    /\ latest \in [Ids -> Progress]

Init ==
    /\ jobs = [i \in Ids |-> Entry("fresh", "", "")]
    /\ body = [i \in Ids |-> "none"]
    /\ latest = [i \in Ids |-> Silent]

------------------------------------------------------------------------------
Finished(j) == j.status \in {"done", "failed"}

\* mutant: the age alone decides, and a running job's Finished is the zero time
ReapableByAge(j) == j.status \notin {"fresh", "reaped"} /\ j.age > Retain

\* reapLocked deletes the entries that are not running and older than Retain.
Reapable(j) == Finished(j) /\ j.age > Retain

Reaped(js) ==
    [i \in Ids |-> IF Reapable(js[i]) THEN [js[i] EXCEPT !.status = "reaped"]
                                      ELSE js[i]]

Busy(js, t) == \E i \in Ids : js[i].status = "running" /\ js[i].target = t

\* RunningTargets: what callers must leave alone now.
RunningTargets == {jobs[i].target : i \in {k \in Ids : jobs[k].status = "running"}}

\* mutant: the registry is searched for the id, not for the target
StartUnchecked(t, i) ==
    /\ jobs[i].status = "fresh"
    /\ jobs' = [Reaped(jobs) EXCEPT ![i] = Entry("running", t, "starting")]
    /\ body' = [body EXCEPT ![i] = "running"]
    /\ UNCHANGED latest

\* Start on a free target: reap, register, launch the goroutine.
Start(t, i) ==
    /\ ~Busy(Reaped(jobs), t)
    /\ jobs[i].status = "fresh"
    /\ jobs' = [Reaped(jobs) EXCEPT ![i] = Entry("running", t, "starting")]
    /\ body' = [body EXCEPT ![i] = "running"]
    /\ UNCHANGED latest

\* Start on a busy target answers ErrBusy; it has reaped all the same.
StartBusy(t) ==
    /\ Busy(Reaped(jobs), t)
    /\ jobs' = Reaped(jobs)
    /\ UNCHANGED <<body, latest>>

\* List reaps before it copies.  (Get and RunningTargets only read.)
List ==
    /\ jobs' = Reaped(jobs)
    /\ UNCHANGED <<body, latest>>

\* What an accepted update makes of the entry: within 100 ms of the last byte
\* update only the byte counters move.
Shown(j, p) ==
    IF p.total = 0
    THEN [j EXCEPT !.step = p.step, !.bytes = 0, !.total = 0]
    ELSE IF j.recent
         THEN [j EXCEPT !.bytes = p.bytes, !.total = p.total]
         ELSE [j EXCEPT !.recent = TRUE, !.step = p.step,
                        !.bytes = p.bytes, !.total = p.total]

\* mutant: an update is applied to whatever entry has the id
ReportAnyStatus(i, p) ==
    /\ body[i] # "none"
    /\ jobs[i].status # "reaped"
    /\ jobs' = [jobs EXCEPT ![i] = Shown(jobs[i], p)]
    /\ latest' = [latest EXCEPT ![i] = p]
    /\ UNCHANGED body

\* report, through the callback Start handed to fn.  The callback outlives fn
\* (fn may have handed it on), so it can be called at any time after Start; a
\* job that is no longer running, or gone, ignores it.
Report(i, p) ==
    /\ body[i] # "none"
    /\ jobs[i].status = "running"
    /\ jobs' = [jobs EXCEPT ![i] = Shown(jobs[i], p)]
    /\ latest' = [latest EXCEPT ![i] = p]
    /\ UNCHANGED body

\* fn returns.  The registry does not know yet: the goroutine has still to take
\* the mutex.
Return(i, outcome) ==
    /\ body[i] = "running"
    /\ body' = [body EXCEPT ![i] = outcome]
    /\ UNCHANGED <<jobs, latest>>

\* mutant: the status is what fn returned
SettledRaw(j, outcome) ==
    [j EXCEPT !.status = outcome, !.step = "", !.bytes = 0, !.total = 0, !.age = 0]

Settled(j, outcome) ==
    [j EXCEPT !.status = IF outcome = "ok" THEN "done" ELSE "failed",
              !.step = "", !.bytes = 0, !.total = 0, !.age = 0]

\* The goroutine records the outcome: the last thing it does.
Settle(i) ==
    /\ body[i] \in {"ok", "error"}
    /\ jobs[i].status = "running"
    /\ jobs' = [jobs EXCEPT ![i] = Settled(jobs[i], body[i])]
    /\ UNCHANGED <<body, latest>>

\* 100 ms pass without an accepted byte update.
Lull(i) ==
    /\ jobs[i].recent
    /\ jobs' = [jobs EXCEPT ![i].recent = FALSE]
    /\ UNCHANGED <<body, latest>>

\* Time passes: finished jobs grow older, up to the age at which nothing differs.
Tick ==
    /\ jobs' = [i \in Ids |->
                  IF Finished(jobs[i]) /\ jobs[i].age < Ancient
                  THEN [jobs[i] EXCEPT !.age = @ + 1]
                  ELSE jobs[i]]
    /\ UNCHANGED <<body, latest>>

Next ==
    \/ \E t \in Targets : StartBusy(t) \/ \E i \in Ids : Start(t, i)
    \/ \E i \in Ids :
         \/ \E p \in Reports : Report(i, p)
         \/ \E outcome \in {"ok", "error"} : Return(i, outcome)
         \/ Settle(i)
         \/ Lull(i)
    \/ List
    \/ Tick

Spec == Init /\ [][Next]_vars

------------------------------------------------------------------------------
\* "Only one job per target may run at a time" (Start): of the work itself, not
\* of the entries: no two goroutines are inside their fn for the same target.
OneBodyPerTarget ==
    \A i, k \in Ids :
        /\ body[i] = "running" /\ body[k] = "running"
        /\ jobs[i].target = jobs[k].target
        => i = k

\* Work in flight is always listed: the entry of a goroutine that has not
\* recorded its outcome is there and "running".  Uninstall and update decide
\* from RunningTargets what they would fight with, so an entry that went away
\* early would let them in.
WorkIsListed ==
    \A i \in Ids : body[i] = "running" => jobs[i].status = "running"

\* A job whose outcome is known shows no progress: no late update puts a step
\* or a byte bar back on an entry that is done or failed.
QuietWhenSettled ==
    \A i \in Ids : Finished(jobs[i]) =>
        jobs[i].step = "" /\ jobs[i].bytes = 0 /\ jobs[i].total = 0

\* The throttle never shows stale bytes ("Keep the freshest byte count anyway
\* so the final update is never a stale one"): a running job shows the count of
\* the last update it sent, and no count when that update had none.
FreshestBytes ==
    \A i \in Ids : jobs[i].status = "running" =>
        /\ jobs[i].total = latest[i].total
        /\ jobs[i].bytes = (IF latest[i].total = 0 THEN 0 ELSE latest[i].bytes)

\* The registry implements the keyed lock: a target is held by the goroutine
\* whose fn is at work on it.
Held == {<<jobs[i].target, i>> : i \in {k \in Ids : body[k] = "running"}}

Lock == INSTANCE KeyedLock WITH Keys <- Targets, Owners <- Ids, held <- Held

ImplementsKeyedLock == Lock!Spec

\* What a job shows of its progress is of now: the last update while it runs,
\* nothing once it has settled.
ProgressIsTrue == QuietWhenSettled /\ FreshestBytes

==============================================================================
