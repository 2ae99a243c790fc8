-------------------------------- MODULE Control --------------------------------
(***************************************************************************)
(* Start, Stop and Restart, and what the agent says of them.               *)
(*                                                                         *)
(* The game is a systemd unit (external) that is restarted a while after   *)
(* it dies, until it was started too often.  Control (internal/agent/      *)
(* control.go) asks systemd for the action, watches the unit for a while   *)
(* and answers; Status judges a unit that keeps dying.                     *)
(*                                                                         *)
(* Time is counted in polls of the settle loop; the windows of the code    *)
(* are constants, smaller than there and in the same order.                *)
(***************************************************************************)
EXTENDS Integers, Sequences, FiniteSetsExt

CONSTANTS
    Clients,        \* operators at the panel
    Settle,         \* settleWindow
    Window,         \* crashLoopWindow and StartLimitIntervalSec
    Burst,          \* StartLimitBurst
    LoopRestarts,   \* crashLoopRestarts
    RestartDelays,  \* RestartSec; below 2 in a unit that may be back before the next poll
    MaxTime,        \* bound on the clock
    MaxRequests     \* bound on the requests of a behaviour

VARIABLES
    now,
    unit,        \* "inactive", "running", "auto-restart" or "failed"
    delay,       \* RestartSec of this unit
    wakes,       \* when a dead unit is started again
    nRestarts,   \* NRestarts
    starts,      \* the starts that systemd counts
    limited,     \* did it give up?
    lastDeath,   \* InactiveEnterTimestamp
    activated,   \* ActiveEnterTimestamp
    client,      \* the requests
    asked        \* counter that MaxRequests caps

\* The unit may be started more than once within the window.
ControlAssumption ==
    /\ {Settle, Window, LoopRestarts, MaxTime} \subseteq Nat
    /\ Burst \in Nat /\ Burst > 1
    /\ RestartDelays \subseteq Nat

systemd == <<unit, wakes, nRestarts, starts, limited, lastDeath, activated>>
vars == <<now, delay, systemd, client, asked>>

Never == -1
Idle == [pc |-> "idle", action |-> "none", until |-> 0, polled |-> 0, active |-> FALSE,
         lived |-> 0, gone |-> FALSE, meddled |-> FALSE]

TypeOK ==
    /\ now \in 0..MaxTime
    /\ unit \in {"inactive", "running", "auto-restart", "failed"}
    /\ {lastDeath, activated} \subseteq {Never} \union 0..MaxTime
    /\ Len(starts) <= Burst
    /\ \A c \in Clients : client[c].pc \in {"idle", "call", "await", "answer", "refused"}

Init ==
    /\ now = 0
    /\ unit = "inactive"
    /\ delay \in RestartDelays
    /\ wakes = 0 /\ nRestarts = 0 /\ starts = <<>> /\ limited = FALSE
    /\ lastDeath = Never /\ activated = Never
    /\ client = [c \in Clients |-> Idle]
    /\ asked = 0

At(c, pc) == client[c].pc = pc
\* The times are in order: what is older than the Window comes first.
Recent(times) ==
    SubSeq(times, 1 + Cardinality({i \in DOMAIN times : now - times[i] >= Window}), Len(times))
TooOften == Len(Recent(starts)) >= Burst

------------------------------------------------------------------------------
(***************************************************************************)
(* systemd and the game.                                                   *)
(***************************************************************************)
\* The requests that watch learn that a run has ended.
Ended == [c \in Clients |-> [client[c] EXCEPT !.gone = @ \/ client[c].pc \in {"await", "answer"}]]

Dies ==
    /\ unit = "running"
    /\ unit' = "auto-restart"
    /\ wakes' = now + delay
    /\ lastDeath' = now
    /\ client' = Ended
    /\ UNCHANGED <<now, asked, delay, nRestarts, starts, limited, activated>>

\* A clean end is not restarted (Restart=on-failure).
Quits ==
    /\ unit = "running"
    /\ unit' = "inactive"
    /\ lastDeath' = now
    /\ client' = Ended
    /\ UNCHANGED <<now, asked, delay, wakes, nRestarts, starts, limited, activated>>

Runs == /\ unit' = "running"
        /\ activated' = now
        /\ starts' = Append(Recent(starts), now)

AutoRestarts ==
    /\ unit = "auto-restart" /\ now >= wakes
    /\ nRestarts' = nRestarts + 1
    /\ \/ /\ ~TooOften
          /\ Runs /\ UNCHANGED limited
       \/ /\ TooOften
          /\ unit' = "failed" /\ limited' = TRUE
          /\ UNCHANGED <<starts, activated>>
    /\ wakes' = 0
    /\ UNCHANGED <<now, asked, delay, lastDeath, client>>

\* A due restart, a call and a due poll come before the next tick.
Tick ==
    /\ now < MaxTime
    /\ unit = "auto-restart" => now < wakes
    /\ \A c \in Clients : ~At(c, "call") /\ (At(c, "await") => client[c].polled = now + 1)
    /\ now' = now + 1
    /\ UNCHANGED <<asked, delay, systemd, client>>

------------------------------------------------------------------------------
(***************************************************************************)
(* Control.                                                                *)
(***************************************************************************)
\* Another request changed the unit under the ones that are in progress.
Meddling(c) == [d \in Clients |-> IF d = c \/ At(d, "idle") THEN client[d]
                                  ELSE [client[d] EXCEPT !.meddled = TRUE]]

\* ResetFailed before a start or a restart.
Begin(c, action) ==
    /\ asked < MaxRequests /\ At(c, "idle")
    /\ asked' = asked + 1
    /\ client' = [Meddling(c) EXCEPT ![c] = [Idle EXCEPT !.pc = "call", !.action = action]]
    /\ IF action = "stop" THEN UNCHANGED systemd
       ELSE /\ unit' = IF unit = "failed" THEN "inactive" ELSE unit
            /\ nRestarts' = 0 /\ starts' = <<>> /\ limited' = FALSE
            /\ UNCHANGED <<wakes, lastDeath, activated>>
    /\ UNCHANGED <<now, delay>>

Awaits(c) == client' = [Meddling(c) EXCEPT ![c].pc = "await", ![c].until = now + Settle]

\* A start of what runs does nothing.
CallStart(c) ==
    /\ At(c, "call") /\ client[c].action = "start"
    /\ unit = "running" \/ ~TooOften
    /\ IF unit = "running" THEN UNCHANGED systemd
       ELSE Runs /\ UNCHANGED <<wakes, nRestarts, limited, lastDeath>>
    /\ Awaits(c)
    /\ UNCHANGED <<now, asked, delay>>

CallRestart(c) ==
    /\ At(c, "call") /\ client[c].action = "restart" /\ ~TooOften
    /\ Runs
    /\ lastDeath' = IF unit = "running" THEN now ELSE lastDeath
    /\ Awaits(c)
    /\ UNCHANGED <<now, asked, delay, wakes, nRestarts, limited>>

CallStop(c) ==
    /\ At(c, "call") /\ client[c].action = "stop"
    /\ unit' = IF unit = "failed" THEN "failed" ELSE "inactive"
    /\ lastDeath' = IF unit = "running" THEN now ELSE lastDeath
    /\ Awaits(c)
    /\ UNCHANGED <<now, asked, delay, wakes, nRestarts, starts, limited, activated>>

\* Started too often: the start is refused, and so is a restart after its stop.
CallRefused(c) ==
    /\ At(c, "call") /\ client[c].action # "stop" /\ TooOften
    /\ client[c].action = "start" => unit # "running"
    /\ unit' = "failed" /\ limited' = TRUE
    /\ client' = [Meddling(c) EXCEPT ![c].pc = "refused"]
    /\ UNCHANGED <<now, asked, delay, wakes, nRestarts, starts, lastDeath, activated>>

\* mutant: the first sight of an active unit will do
SettledAtOnce(c) == TRUE

\* awaitState: a stop is confirmed by the first sight of a unit that is down, a
\* start is given up by it; otherwise the whole window is watched.
Settled(c) == \/ unit # "running"
              \/ now >= client[c].until

Poll(c) ==
    /\ At(c, "await") /\ client[c].polled # now + 1
    /\ client' = [client EXCEPT
            ![c].pc = IF Settled(c) THEN "answer" ELSE "await",
            ![c].polled = IF Settled(c) THEN 0 ELSE now + 1,
            ![c].until = IF Settled(c) THEN 0 ELSE @,
            ![c].active = Settled(c) /\ unit = "running",
            ![c].lived = IF Settled(c) THEN now - activated ELSE 0]
    /\ UNCHANGED <<now, asked, delay, systemd>>

\* The answer is given, or the browser has left before.
Answer(c) ==
    /\ client[c].pc \in {"await", "answer", "refused"}
    /\ client' = [client EXCEPT ![c] = Idle]
    /\ UNCHANGED <<now, asked, delay, systemd>>

------------------------------------------------------------------------------
Next ==
    \/ \E c \in Clients :
        \/ \E action \in {"start", "stop", "restart"} : Begin(c, action)
        \/ CallStart(c) \/ CallRestart(c) \/ CallStop(c) \/ CallRefused(c)
        \/ Poll(c) \/ Answer(c)
    \/ Dies \/ Quits \/ AutoRestarts \/ Tick

Spec == Init /\ [][Next]_vars

------------------------------------------------------------------------------
(***************************************************************************)
(* What the operator is told.                                              *)
(***************************************************************************)
DeathRecent == lastDeath = Never \/ now - lastDeath < Window

CrashLooping ==
    /\ nRestarts >= LoopRestarts
    /\ unit \in {"auto-restart", "failed"}
    /\ DeathRecent

Verdict(c) ==
    IF At(c, "refused") THEN "refused"
    ELSE IF client[c].action = "stop"
    THEN IF client[c].active THEN "still running" ELSE "stopped"
    ELSE IF CrashLooping THEN "crash loop"
    ELSE IF client[c].active THEN "running" ELSE "did not stay running"

\* Status, its first lines.
StatusActive == unit = "running" /\ ~CrashLooping

------------------------------------------------------------------------------
(***************************************************************************)
(* Properties.                                                             *)
(***************************************************************************)
Quick == delay < 2
Answering(c) == client[c].pc \in {"answer", "refused"}

\* The answer to a button is true, unless another operator pressed one
\* meanwhile: what "is running" has run for the whole settle window, what "did
\* not stay running" or "keeps crashing" has ended since the call, a stopped
\* server does not run on, and no start is refused for the crashes before it.
\* A unit that systemd restarts between two polls escapes the settle loop.
VerdictIsTrue ==
    \A c \in Clients : Answering(c) /\ ~client[c].meddled =>
        /\ Verdict(c) = "running" => client[c].lived >= Settle \/ Quick
        /\ Verdict(c) \in {"did not stay running", "crash loop"} => client[c].gone
        /\ Verdict(c) # "still running"
        /\ Verdict(c) = "refused" => Quick

\* A loop that systemd has given up is told as a crash loop, not as a server
\* that is merely off, for the minute after.
GivenUpIsTold == unit = "failed" /\ limited /\ DeathRecent => CrashLooping

ButtonsAnswerTruly == VerdictIsTrue /\ GivenUpIsTold

\* What control.go:68-71 says: a unit that was restarted this often within
\* the window is not described as running.
RecentRestarts == Min({nRestarts, Len(Recent(starts))})
LoopIsNotShownRunning == RecentRestarts >= LoopRestarts => ~StatusActive

==============================================================================
