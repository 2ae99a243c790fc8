---------------------------- MODULE UpdaterProofs ----------------------------
(***************************************************************************)
(* For any of the three goroutines, any builds, players and faults, and     *)
(* without fairness: what the updater's Run promises of the server's unit, *)
(* of the install and of the updating flag.                                *)
(*                                                                         *)
(* None of the promises is inductive.  Each of them speaks of a goroutine  *)
(* in the middle of a Run, while the unit, the manifest and the flag are    *)
(* shared, so the invariant records, for every goroutine by itself, what it *)
(* still knows of them (WasIsWhatItStopped, ReadsStayBelow, UnitIsAsLeft),  *)
(* and that two Runs never overlap without both of them being marked as    *)
(* such (OverlapsAreMarked).  Of the flag it records what a POST knows that *)
(* nothing has overlapped (PostIsAlone).                                   *)
(***************************************************************************)
EXTENDS Updater, TLAPS

\* From the question of whether the server is up to the end of a Run.
AfterProbe ==
    {"stop", "steamcmd", "verify", "giveup", "clear", "restart", "finish"}

\* wasActive is set by the probe only, and a Run that has it set has stopped
\* the unit by the time it has to put it back up.
WasIsWhatItStopped(g) ==
    /\ g.pc \notin AfterProbe => ~g.was /\ ~g.stopped
    /\ g.pc \in {"stop", "restart"} => g.was
    /\ g.pc \in {"steamcmd", "verify", "giveup", "clear", "restart"} => (g.was => g.stopped)

\* The manifest's build b only grows: what a Run read, or found to be equal to
\* it, it is not behind.
ReadsStayBelow(g, b) ==
    /\ g.pc \in {"run_asking", "run_told"} => g.seen <= b
    /\ g.pc \in {"uptodate", "clear", "restart"} => g.got <= b
    /\ g.pc = "finish" /\ g.res = "ok" => g.got <= b

\* A Run that nobody meddled with finds the unit's state u as it left it.
UnitIsAsLeft(g, u) ==
    ~g.beside /\ ~g.disturbed =>
        /\ g.pc = "stop" => u = "active"
        /\ g.pc = "steamcmd" => u # "active"
        /\ g.pc = "finish" /\ g.res \in {"ok", "error"} /\ g.was => u = "active"

\* What a goroutine knows.
Knows(g, b, u) == WasIsWhatItStopped(g) /\ ReadsStayBelow(g, b) /\ UnitIsAsLeft(g, u)

OverlapsAreMarked ==
    \A a, b \in Actors : a # b /\ InRun(a) /\ InRun(b) => at[a].beside

\* A POST that nothing has overlapped finds things as it left them: nobody
\* runs, the job is free once it has looked, and the flag is as it set it.
PostIsAlone(p) ==
    InProgress(p) /\ ~post[p].beside =>
        /\ \A a \in Actors : ~InRun(a)
        /\ \A q \in Posts \ {p} : ~InProgress(q)
        /\ post[p].pc # "lower"
        /\ post[p].pc \in {"raise", "start"} => at["job"].pc = "idle"
        /\ post[p].pc = "start" => updating

\* Of a Run that nothing has overlapped the flag is up, and keeps POSTs out.
RunIsCovered(a) ==
    InRun(a) /\ ~at[a].beside /\ ~at[a].raced =>
        updating /\ \A p \in Posts : ~InProgress(p)

FlagHasReason ==
    updating => \/ \E a \in Actors : InRun(a)
                \/ \E p \in Posts : post[p].pc \in {"start", "lower"}

FlagInv ==
    /\ \A p \in Posts : PostIsAlone(p)
    /\ \A a \in Actors : RunIsCovered(a)
    /\ FlagHasReason

IInv ==
    /\ TypeOK
    /\ local <= steam
    /\ \A a \in Actors : Knows(at[a], local, unit)
    /\ OverlapsAreMarked
    /\ FlagInv
------------------------------------------------------------------------------
\* A goroutine's record, as TypeOK has it.
Goroutine ==
    [pc : PCs, seen : 0..MaxBuild, got : 0..MaxBuild, was : BOOLEAN,
     stopped : BOOLEAN, beside : BOOLEAN, disturbed : BOOLEAN, raced : BOOLEAN,
     res : {"none", "ok", "error", "unstopped", "unstarted"}]

\* A POST's, likewise.
Request == [pc : PostPCs, beside : BOOLEAN]

\* A goroutine at rest knows nothing that could be wrong.
LEMMA IdleKnows ==
    ASSUME NEW pc \in {"idle", "decide", "report", "settle"}, NEW b, NEW u
    PROVE  /\ [Idle EXCEPT !.pc = pc] \in Goroutine
           /\ [Idle EXCEPT !.pc = pc].pc = pc
           /\ pc \notin Running
           /\ Knows([Idle EXCEPT !.pc = pc], b, u)
           /\ Idle \in Goroutine /\ Idle.pc \notin Running /\ Knows(Idle, b, u)
<1> DEFINE g == [Idle EXCEPT !.pc = pc]
<1>1. pc \in PCs /\ pc \notin Running /\ "idle" \in PCs /\ "idle" \notin Running
  BY DEF PCs, Running
<1>2. 0 \in 0..MaxBuild
  BY BoundsAssumption
<1>3. Idle \in Goroutine
  BY <1>1, <1>2 DEF Goroutine, Idle
<1>4. g \in Goroutine /\ g.pc = pc /\ g.was = Idle.was /\ g.stopped = Idle.stopped
  BY <1>1, <1>3 DEF Goroutine
<1>5. ~Idle.was /\ ~Idle.stopped /\ Idle.pc = "idle"
  BY DEF Idle
<1>6. Knows(g, b, u)
  <2> HIDE DEF g
  <2> QED
    BY <1>4, <1>5 DEF Knows, WasIsWhatItStopped, ReadsStayBelow, UnitIsAsLeft, AfterProbe
<1>7. Knows(Idle, b, u)
  BY <1>5 DEF Knows, WasIsWhatItStopped, ReadsStayBelow, UnitIsAsLeft, AfterProbe
<1> QED
  BY <1>1, <1>3, <1>4, <1>5, <1>6, <1>7

\* A Run's step may move the unit and the manifest.  The other goroutines still
\* know what they knew: those in a Run are marked, and the manifest only grows.
LEMMA OthersKnow ==
    ASSUME IInv, NEW a \in Actors, local' \in 0..MaxBuild, local <= local',
           unit' = unit \/ InRun(a),
           NEW b \in Actors \ {a}, at'[b] = at[b]
    PROVE  Knows(at'[b], local', unit')
<1>1. at[b] \in Goroutine /\ local \in 0..MaxBuild
  BY DEF IInv, TypeOK, Goroutine
<1>2. Knows(at[b], local, unit)
  BY DEF IInv
<1>3. WasIsWhatItStopped(at'[b])
  BY <1>2 DEF Knows
<1>4. ReadsStayBelow(at'[b], local')
  BY <1>1, <1>2, BoundsAssumption DEF Knows, ReadsStayBelow, Goroutine
<1>5. UnitIsAsLeft(at'[b], unit')
  <2>1. CASE unit' = unit
    BY <1>2, <2>1 DEF Knows, UnitIsAsLeft
  <2>2. CASE InRun(a) /\ InRun(b)
    BY <2>2 DEF IInv, OverlapsAreMarked, UnitIsAsLeft
  <2>3. CASE ~InRun(b)
    BY <2>3 DEF InRun, Running, UnitIsAsLeft
  <2> QED
    BY <2>1, <2>2, <2>3
<1> QED
  BY <1>3, <1>4, <1>5 DEF Knows

\* A step that touches neither the flag nor the POSTs, begins or ends no Run and
\* leaves the job at rest if it is.
LEMMA FlagStays ==
    ASSUME FlagInv, updating' = updating, post' = post,
           \A b \in Actors : /\ InRun(b)' <=> InRun(b)
                             /\ InRun(b) => /\ at'[b].beside = at[b].beside
                                            /\ at'[b].raced = at[b].raced,
           Posts # {} /\ at["job"].pc = "idle" => at'["job"].pc = "idle"
    PROVE  FlagInv'
<1>1. \A p \in Posts : InProgress(p)' <=> InProgress(p)
  BY DEF InProgress
<1>2. ASSUME NEW p \in Posts PROVE PostIsAlone(p)'
  BY <1>1 DEF FlagInv, PostIsAlone
<1>3. ASSUME NEW b \in Actors PROVE RunIsCovered(b)'
  BY <1>1 DEF FlagInv, RunIsCovered
<1>4. FlagHasReason'
  BY DEF FlagInv, FlagHasReason
<1> QED
  BY <1>2, <1>3, <1>4 DEF FlagInv

\* What a step of one goroutine has to keep so that the invariant holds again.
LEMMA OneMoves ==
    ASSUME IInv, TypeOK', local' <= steam', local <= local', updating' = updating,
           post' = post, NEW a \in Actors, at[a].pc # "idle" \/ a # "job",
           \A b \in Actors \ {a} : at'[b] = at[b],
           InRun(a)' <=> InRun(a),
           ~InRun(a) \/ (at'[a].beside = at[a].beside /\ at'[a].raced = at[a].raced),
           unit' = unit \/ InRun(a), Knows(at'[a], local', unit')
    PROVE  IInv'
<1>1. local' \in 0..MaxBuild
  BY DEF TypeOK
<1>2. \A b \in Actors : Knows(at'[b], local', unit')
  BY <1>1, OthersKnow
<1>3. \A b \in Actors : InRun(b)' <=> InRun(b)
  BY DEF InRun
<1>4. \A b \in Actors : InRun(b) => at'[b].beside = at[b].beside /\ at'[b].raced = at[b].raced
  OBVIOUS
<1>5. OverlapsAreMarked'
  BY <1>3, <1>4 DEF IInv, OverlapsAreMarked
<1>6. Posts # {} /\ at["job"].pc = "idle" => at'["job"].pc = "idle"
  BY PostsAssumption
<1>7. FlagInv'
  BY <1>3, <1>4, <1>6, FlagStays DEF IInv
<1> QED
  BY <1>2, <1>5, <1>7 DEF IInv

LEMMA AllAtRest ==
    (\A a \in Actors : ~InRun(a)) /\ post = [p \in Posts |-> NoPost] /\ updating = FALSE
        => FlagInv
BY DEF FlagInv, PostIsAlone, RunIsCovered, FlagHasReason, InProgress, NoPost

LEMMA InitInv == Init => IInv
<1> SUFFICES ASSUME Init PROVE IInv
  OBVIOUS
<1>1. TypeOK
  <2>1. Idle \in Goroutine
    BY IdleKnows
  <2>2. at \in [Actors -> Goroutine]
    BY <2>1 DEF Init, FreshMemory
  <2>3. 1 \in Builds /\ 0 \in 0..MaxBuild /\ 1 \in 0..MaxBuild /\ 0 \in 0..MaxPlayers
    BY BoundsAssumption DEF Builds
  <2> QED
    BY <2>2, <2>3 DEF Init, FreshMemory, TypeOK, Goroutine, NoPost, PostPCs
<1>2. local <= steam
  BY DEF Init
<1>3. \A a \in Actors : at[a] = Idle
  BY DEF Init, FreshMemory
<1>4. \A a \in Actors : Knows(at[a], local, unit) /\ ~InRun(a)
  BY <1>3, IdleKnows DEF InRun
<1> QED
  BY <1>1, <1>2, <1>4, AllAtRest DEF IInv, OverlapsAreMarked, Init, FreshMemory
------------------------------------------------------------------------------
(***************************************************************************)
(* The steps of one goroutine, Knowing being what it knew before.          *)
(***************************************************************************)
Knowing(a) ==
    /\ TypeOK /\ local <= steam
    /\ at \in [Actors -> Goroutine]
    /\ Knows(at[a], local, unit)
    /\ InRun(a) => \/ at[a].beside
                   \/ \A b \in Actors \ {a} : ~InRun(b)

LEMMA InvKnowing == ASSUME IInv, NEW a \in Actors PROVE Knowing(a)
BY DEF IInv, TypeOK, Goroutine, OverlapsAreMarked, Knowing

\* Goroutine a moves on to pc; all but what the cases below say of its fields
\* stays as it was.
Moved(a, pc) ==
    /\ at' \in [Actors -> Goroutine]
    /\ \A b \in Actors \ {a} : at'[b] = at[b]
    /\ at'[a].pc = pc
    /\ at'[a].beside = at[a].beside /\ at'[a].disturbed = at[a].disturbed
    /\ at'[a].raced = at[a].raced

LEMMA ToPC ==
    ASSUME NEW a \in Actors, at \in [Actors -> Goroutine], NEW pc \in PCs,
           at' = [at EXCEPT ![a].pc = pc]
    PROVE  /\ Moved(a, pc)
           /\ at'[a].was = at[a].was /\ at'[a].stopped = at[a].stopped
           /\ at'[a].seen = at[a].seen /\ at'[a].got = at[a].got
BY DEF Goroutine, Moved

LEMMA ToPCGot ==
    ASSUME NEW a \in Actors, at \in [Actors -> Goroutine], NEW pc \in PCs,
           NEW n \in 0..MaxBuild, at' = [at EXCEPT ![a].pc = pc, ![a].got = n]
    PROVE  /\ Moved(a, pc)
           /\ at'[a].was = at[a].was /\ at'[a].stopped = at[a].stopped
           /\ at'[a].seen = at[a].seen /\ at'[a].got = n
BY DEF Goroutine, Moved

LEMMA ToPCSeen ==
    ASSUME NEW a \in Actors, at \in [Actors -> Goroutine], NEW pc \in PCs,
           NEW n \in 0..MaxBuild, at' = [at EXCEPT ![a].pc = pc, ![a].seen = n]
    PROVE  /\ Moved(a, pc)
           /\ at'[a].was = at[a].was /\ at'[a].stopped = at[a].stopped
           /\ at'[a].seen = n /\ at'[a].got = at[a].got
BY DEF Goroutine, Moved

LEMMA ToFinish ==
    ASSUME NEW a \in Actors, at \in [Actors -> Goroutine],
           NEW res \in {"ok", "error", "unstopped", "unstarted"}, Finish(a, res)
    PROVE  /\ Moved(a, "finish")
           /\ at'[a].was = at[a].was /\ at'[a].stopped = at[a].stopped
           /\ at'[a].got = at[a].got /\ at'[a].res = res
<1>1. "finish" \in PCs
  BY DEF PCs, Running
<1> QED
  BY <1>1 DEF Goroutine, Moved, Finish

\* Before the probe a Run, or a Check, has touched nothing.
LEMMA EarlyStep ==
    ASSUME IInv, NEW a \in Actors, NEW pc, Moved(a, pc), at[a].pc # "idle" \/ a # "job",
           at'[a].was = at[a].was, at'[a].stopped = at[a].stopped,
           UNCHANGED <<world, avail, pending, check, updating, post>>,
           cache' \in [build : 0..MaxBuild, fresh : BOOLEAN],
           at[a].pc \notin AfterProbe,
           pc \notin AfterProbe \/ (pc = "finish" /\ at'[a].res = "error"),
           at[a].pc \in Running <=> pc \in Running,
           ReadsStayBelow(at'[a], local)
    PROVE  IInv'
<1>1. Knowing(a) /\ at'[a].pc = pc
  BY InvKnowing DEF Moved
<1>2. TypeOK'
  BY <1>1 DEF Knowing, TypeOK, Goroutine, Moved, world
<1>3. ~at'[a].was /\ ~at'[a].stopped
  BY <1>1 DEF Knowing, Knows, WasIsWhatItStopped
<1>4. WasIsWhatItStopped(at'[a]) /\ UnitIsAsLeft(at'[a], unit')
  BY <1>1, <1>3 DEF WasIsWhatItStopped, UnitIsAsLeft, AfterProbe
<1>5. Knows(at'[a], local', unit')
  BY <1>4 DEF Knows, world
<1>6. local' <= steam' /\ local <= local' /\ unit' = unit
  BY <1>1 DEF Knowing, TypeOK, world
<1>7. InRun(a)' <=> InRun(a)
  BY <1>1 DEF InRun
<1>8. /\ at'[a].beside = at[a].beside /\ at'[a].raced = at[a].raced
      /\ \A b \in Actors \ {a} : at'[b] = at[b]
  BY DEF Moved
<1> QED
  BY <1>2, <1>5, <1>6, <1>7, <1>8, OneMoves

LEMMA AnswerFromCacheInv ==
    ASSUME IInv, NEW a \in Actors, AnswerFromCache(a) PROVE IInv'
<1>1. Knowing(a)
  BY InvKnowing
<1>2. UNCHANGED <<world, known, updating, post>> /\ at[a].pc = "asking"
  BY DEF AnswerFromCache, UsesCache
<1>3. cache \in [build : 0..MaxBuild, fresh : BOOLEAN] /\ "answered" \in PCs
  BY <1>1 DEF Knowing, TypeOK, PCs, Checking
<1>4. Moved(a, "answered") /\ at'[a].was = at[a].was /\ at'[a].stopped = at[a].stopped
  BY <1>1, <1>3, ToPCGot DEF AnswerFromCache, Knowing
<1>5. /\ "asking" \notin Running \union AfterProbe
      /\ "answered" \notin Running \union AfterProbe
  BY DEF Running, AfterProbe
<1>6. ReadsStayBelow(at'[a], local)
  BY <1>4 DEF ReadsStayBelow, Moved
<1> QED
  BY <1>2, <1>3, <1>4, <1>5, <1>6, EarlyStep DEF known

LEMMA SteamAnswersInv ==
    ASSUME IInv, NEW a \in Actors, SteamAnswers(a) PROVE IInv'
<1> DEFINE pc == Told[at[a].pc]
<1>1. Knowing(a) /\ cache \in [build : 0..MaxBuild, fresh : BOOLEAN]
  BY InvKnowing DEF Knowing, TypeOK
<1>2. at[a].pc \in {"asking", "run_asking"} /\ UNCHANGED <<world, known, updating, post>>
  BY DEF SteamAnswers, Told
<1>3. pc = IF at[a].pc = "asking" THEN "told" ELSE "run_told"
  BY <1>2 DEF Told
<1>4. at' = [at EXCEPT ![a].pc = pc, ![a].got = steam]
  BY DEF SteamAnswers
<1> HIDE DEF pc
<1>5. steam \in 0..MaxBuild /\ pc \in PCs
  BY <1>1, <1>2, <1>3 DEF Knowing, TypeOK, Builds, PCs, Checking, Running
<1>6. /\ Moved(a, pc) /\ at'[a].was = at[a].was /\ at'[a].stopped = at[a].stopped
      /\ at'[a].seen = at[a].seen
  BY <1>1, <1>4, <1>5, ToPCGot DEF Knowing
<1>7. ReadsStayBelow(at'[a], local)
  BY <1>1, <1>2, <1>3, <1>6 DEF Knowing, Knows, ReadsStayBelow, Moved
<1>8. /\ at[a].pc \notin AfterProbe /\ pc \notin AfterProbe
      /\ at[a].pc \in Running <=> pc \in Running
  BY <1>2, <1>3 DEF Running, AfterProbe
<1> QED
  BY <1>1, <1>2, <1>6, <1>7, <1>8, EarlyStep DEF known

LEMMA SteamIsSilentInv ==
    ASSUME IInv, NEW a \in Actors, SteamIsSilent(a) PROVE IInv'
<1>1. Knowing(a) /\ cache \in [build : 0..MaxBuild, fresh : BOOLEAN]
  BY InvKnowing DEF Knowing, TypeOK
<1>2. UNCHANGED <<world, known, updating, post>> /\ at[a].pc \in {"asking", "run_asking"}
  BY DEF SteamIsSilent, Told
<1>3. CASE at[a].pc = "asking"
  <2>1. 0 \in 0..MaxBuild /\ "answered" \in PCs
    BY BoundsAssumption DEF PCs, Checking
  <2>2. Moved(a, "answered") /\ at'[a].was = at[a].was /\ at'[a].stopped = at[a].stopped
    BY <1>1, <1>3, <2>1, ToPCGot DEF SteamIsSilent, Knowing
  <2>3. /\ "asking" \notin Running \union AfterProbe
        /\ "answered" \notin Running \union AfterProbe
    BY DEF Running, AfterProbe
  <2>4. ReadsStayBelow(at'[a], local)
    BY <2>2 DEF ReadsStayBelow, Moved
  <2> QED
    BY <1>1, <1>2, <1>3, <2>2, <2>3, <2>4, EarlyStep DEF known
<1>4. CASE at[a].pc = "run_asking"
  <2>1. /\ Moved(a, "finish") /\ at'[a].res = "error"
        /\ at'[a].was = at[a].was /\ at'[a].stopped = at[a].stopped
    BY <1>1, <1>4, ToFinish DEF SteamIsSilent, Knowing
  <2>2. /\ "run_asking" \in Running \ AfterProbe /\ "finish" \in Running
    BY DEF Running, AfterProbe
  <2>3. ReadsStayBelow(at'[a], local)
    BY <2>1 DEF ReadsStayBelow, Moved
  <2> QED
    BY <1>1, <1>2, <1>4, <2>1, <2>2, <2>3, EarlyStep DEF known
<1> QED
  BY <1>2, <1>3, <1>4

LEMMA StoreAnswerInv ==
    ASSUME IInv, NEW a \in Actors, StoreAnswer(a) PROVE IInv'
<1> DEFINE pc == IF at[a].pc = "told" THEN "answered"
                 ELSE IF at[a].got = at[a].seen THEN "uptodate" ELSE "probe"
<1>1. Knowing(a) /\ at[a] \in Goroutine
  BY InvKnowing DEF Knowing
<1>2. at[a].pc \in {"told", "run_told"} /\ UNCHANGED <<world, avail, pending, check, updating, post>>
  BY DEF StoreAnswer
<1>3. cache' \in [build : 0..MaxBuild, fresh : BOOLEAN]
  BY <1>1 DEF StoreAnswer, Goroutine
<1>4. at' = [at EXCEPT ![a].pc = pc]
  BY DEF StoreAnswer, Goto
<1>5. pc \in PCs /\ pc \notin AfterProbe /\ at[a].pc \notin AfterProbe
  BY <1>2 DEF PCs, Checking, Running, AfterProbe
<1>6. at[a].pc \in Running <=> pc \in Running
  BY <1>2 DEF Running
<1>7. pc = "uptodate" => at[a].pc = "run_told" /\ at[a].got = at[a].seen
  BY <1>2
<1>8. pc \in {"answered", "uptodate", "probe"}
  OBVIOUS
<1> HIDE DEF pc
<1>9. /\ Moved(a, pc) /\ at'[a].was = at[a].was /\ at'[a].stopped = at[a].stopped
      /\ at'[a].got = at[a].got
  BY <1>1, <1>4, <1>5, ToPC DEF Knowing
<1>10. ReadsStayBelow(at'[a], local)
  BY <1>1, <1>7, <1>8, <1>9 DEF Knowing, Knows, ReadsStayBelow, Moved
<1> QED
  BY <1>2, <1>3, <1>5, <1>6, <1>9, <1>10, EarlyStep

LEMMA RunBeginInv ==
    ASSUME IInv, NEW a \in Actors, RunBegin(a) PROVE IInv'
<1>1. /\ Knowing(a) /\ cache \in [build : 0..MaxBuild, fresh : BOOLEAN]
      /\ local \in 0..MaxBuild
  BY InvKnowing DEF Knowing, TypeOK
<1>2. at[a].pc = "run" /\ UNCHANGED <<world, known, updating, post>>
  BY DEF RunBegin
<1>3. {"run", "run_asking"} \subseteq Running \ AfterProbe /\ "finish" \in Running
  BY DEF Running, AfterProbe
<1>4. CASE local = 0
  <2>1. /\ Moved(a, "finish") /\ at'[a].res = "error"
        /\ at'[a].was = at[a].was /\ at'[a].stopped = at[a].stopped
    BY <1>1, <1>4, ToFinish DEF RunBegin, Knowing
  <2>2. ReadsStayBelow(at'[a], local)
    BY <2>1 DEF ReadsStayBelow, Moved
  <2> QED
    BY <1>1, <1>2, <1>3, <2>1, <2>2, EarlyStep DEF known
<1>5. CASE local # 0
  <2>1. /\ Moved(a, "run_asking") /\ at'[a].seen = local
        /\ at'[a].was = at[a].was /\ at'[a].stopped = at[a].stopped
    BY <1>1, <1>3, <1>5, ToPCSeen DEF RunBegin, Knowing, PCs
  <2>2. ReadsStayBelow(at'[a], local)
    BY <1>1, <2>1 DEF ReadsStayBelow, Moved
  <2> QED
    BY <1>1, <1>2, <1>3, <2>1, <2>2, EarlyStep DEF known
<1> QED
  BY <1>4, <1>5

\* Wake and the check endpoint's handler begin a Check the same way.
LEMMA AskInv ==
    ASSUME IInv, NEW a \in Actors, at[a].pc = "idle", a # "job",
           at' = [at EXCEPT ![a].pc = "asking", ![a].seen = local],
           UNCHANGED <<world, known, updating, post>>
    PROVE  IInv'
<1>1. /\ Knowing(a) /\ cache \in [build : 0..MaxBuild, fresh : BOOLEAN]
      /\ local \in 0..MaxBuild
  BY InvKnowing DEF Knowing, TypeOK
<1>2. /\ "asking" \in PCs /\ "asking" \notin Running \union AfterProbe
      /\ "idle" \notin Running \union AfterProbe
  BY DEF PCs, Checking, Running, AfterProbe
<1>3. Moved(a, "asking") /\ at'[a].was = at[a].was /\ at'[a].stopped = at[a].stopped
  BY <1>1, <1>2, ToPCSeen DEF Knowing
<1>4. ReadsStayBelow(at'[a], local)
  BY <1>3 DEF ReadsStayBelow, Moved
<1> QED
  BY <1>1, <1>2, <1>3, <1>4, EarlyStep DEF known

\* A Check that has recorded its answer, and a loop that has, are at rest.
LEMMA RecordInv ==
    ASSUME IInv, NEW a \in Actors, Record(a) PROVE IInv'
<1>1. Knowing(a)
  BY InvKnowing
<1>2. /\ at[a].pc = "answered" /\ UNCHANGED <<world, cache, updating, post>>
      /\ check' \in [err : BOOLEAN, last : {"never", "success", "failure"}]
      /\ avail' \in BOOLEAN /\ pending' \in BOOLEAN
  BY <1>1 DEF Record, Knowing, TypeOK, Outdated
<1>3. PICK g \in {Idle, [Idle EXCEPT !.pc = "decide"]} : at' = [at EXCEPT ![a] = g]
  BY DEF Record
<1>4. g \in Goroutine /\ g.pc \notin Running /\ Knows(g, local, unit)
  <2>1. "decide" \in {"idle", "decide", "report", "settle"}
    OBVIOUS
  <2>2. LET d == [Idle EXCEPT !.pc = "decide"]
        IN  d \in Goroutine /\ d.pc = "decide" /\ "decide" \notin Running /\ Knows(d, local, unit)
    BY <2>1, IdleKnows
  <2>3. Idle \in Goroutine /\ Idle.pc \notin Running /\ Knows(Idle, local, unit)
    BY <2>1, IdleKnows
  <2> QED
    BY <1>3, <2>2, <2>3
<1>5. at' \in [Actors -> Goroutine] /\ at'[a] = g /\ \A b \in Actors \ {a} : at'[b] = at[b]
  BY <1>1, <1>3, <1>4 DEF Knowing
<1>6. TypeOK'
  BY <1>1, <1>2, <1>5 DEF Knowing, TypeOK, Goroutine, world
<1>7. ~InRun(a) /\ ~InRun(a)'
  BY <1>2, <1>4, <1>5 DEF InRun, Running
<1>8. local' = local /\ local' <= steam' /\ local <= local' /\ unit' = unit
  BY <1>1, <1>2 DEF Knowing, TypeOK, world
<1> QED
  BY <1>2, <1>4, <1>5, <1>6, <1>7, <1>8, OneMoves

LEMMA AlreadyCurrentInv ==
    ASSUME IInv, NEW a \in Actors, AlreadyCurrent(a) PROVE IInv'
<1>1. Knowing(a)
  BY InvKnowing
<1>2. /\ at[a].pc = "uptodate" /\ UNCHANGED <<world, updating, post>>
      /\ avail' = FALSE /\ pending' = FALSE
      /\ cache' = [build |-> local, fresh |-> TRUE]
      /\ check' = [check EXCEPT !.err = FALSE]
  BY DEF AlreadyCurrent, ClearAvailable
<1>3. /\ Moved(a, "finish") /\ at'[a].got = at[a].got /\ at'[a].was = at[a].was
  BY <1>1, ToFinish DEF AlreadyCurrent, Knowing
<1>4. TypeOK'
  BY <1>1, <1>2, <1>3 DEF Knowing, TypeOK, Goroutine, world, Moved
<1>5. ~at'[a].was /\ at'[a].got <= local
  BY <1>1, <1>2, <1>3
  DEF Knowing, Knows, WasIsWhatItStopped, ReadsStayBelow, AfterProbe
<1>6. Knows(at'[a], local', unit')
  BY <1>2, <1>3, <1>5
  DEF Knows, WasIsWhatItStopped, ReadsStayBelow, UnitIsAsLeft, AfterProbe, Moved, world
<1>7. InRun(a) /\ InRun(a)'
  BY <1>2, <1>3 DEF InRun, Running, Moved
<1>8. local' <= steam' /\ local <= local' /\ unit' = unit
  BY <1>1, <1>2 DEF Knowing, TypeOK, world
<1> QED
  BY <1>2, <1>3, <1>4, <1>6, <1>7, <1>8, OneMoves DEF Moved

LEMMA ProbeInv ==
    ASSUME IInv, NEW a \in Actors, Probe(a) PROVE IInv'
<1> DEFINE pc == IF unit = "active" THEN "stop" ELSE "steamcmd"
<1> DEFINE up == unit = "active"
<1>1. Knowing(a)
  BY InvKnowing
<1>2. at[a].pc = "probe" /\ UNCHANGED <<world, known, updating, post>>
  BY DEF Probe
<1>3. {"probe", "stop", "steamcmd", pc} \subseteq Running /\ Running \subseteq PCs
  BY DEF Running, PCs
<1>4. at' = [at EXCEPT ![a].was = up, ![a].pc = pc]
  BY DEF Probe
<1>5. pc = "stop" <=> unit = "active"
  OBVIOUS
<1>6. pc \in {"stop", "steamcmd"}
  OBVIOUS
<1>7. /\ Moved(a, pc) /\ (at'[a].was <=> unit = "active")
  <2>1. up \in BOOLEAN
    OBVIOUS
  <2> HIDE DEF pc, up
  <2>2. at \in [Actors -> Goroutine] /\ pc \in PCs
    BY <1>1, <1>3 DEF Knowing
  <2>3. at'[a] = [at[a] EXCEPT !.was = up, !.pc = pc]
    BY <1>4, <2>2
  <2>4. at'[a] \in Goroutine
    BY <2>1, <2>2, <2>3 DEF Goroutine
  <2>5. \A b \in Actors \ {a} : at'[b] = at[b]
    BY <1>4, <2>2
  <2>6. at' \in [Actors -> Goroutine]
    BY <1>4, <2>2, <2>4, <2>5
  <2>7. /\ at'[a].pc = pc /\ at'[a].was = up
        /\ at'[a].beside = at[a].beside /\ at'[a].disturbed = at[a].disturbed
        /\ at'[a].raced = at[a].raced
    BY <2>2, <2>3 DEF Goroutine
  <2> QED BY <2>5, <2>6, <2>7 DEF Moved, up
<1> HIDE DEF pc, up
<1>8. TypeOK'
  BY <1>1, <1>2, <1>7 DEF Knowing, TypeOK, Goroutine, world, known, Moved
<1>9. Knows(at'[a], local', unit')
  BY <1>2, <1>5, <1>6, <1>7
  DEF Knows, WasIsWhatItStopped, ReadsStayBelow, UnitIsAsLeft, AfterProbe, Moved, world
<1>10. InRun(a) /\ InRun(a)'
  BY <1>2, <1>3, <1>7 DEF InRun, Moved
<1>11. local' <= steam' /\ local <= local' /\ unit' = unit
  BY <1>1, <1>2 DEF Knowing, TypeOK, world
<1> QED
  BY <1>2, <1>7, <1>8, <1>9, <1>10, <1>11, OneMoves DEF Moved

LEMMA StopUnitInv ==
    ASSUME IInv, NEW a \in Actors, StopUnit(a) PROVE IInv'
<1>1. Knowing(a)
  BY InvKnowing
<1>2. /\ at[a].pc = "stop" /\ unit' = "inactive" /\ players' = 0
      /\ UNCHANGED <<steam, local, known, updating, post>>
  BY DEF StopUnit
<1>3. {"stop", "steamcmd"} \subseteq Running /\ Running \subseteq PCs
  BY DEF Running, PCs
<1>4. at' = [at EXCEPT ![a].pc = "steamcmd", ![a].stopped = TRUE]
  BY DEF StopUnit
<1>5. /\ Moved(a, "steamcmd") /\ at'[a].stopped
  BY <1>1, <1>3, <1>4 DEF Knowing, Goroutine, Moved
<1>6. TypeOK'
  BY <1>1, <1>2, <1>5, BoundsAssumption DEF Knowing, TypeOK, Goroutine, known, Moved
<1>7. Knows(at'[a], local', unit')
  BY <1>2, <1>5
  DEF Knows, WasIsWhatItStopped, ReadsStayBelow, UnitIsAsLeft, AfterProbe, Moved
<1>8. InRun(a) /\ InRun(a)'
  BY <1>2, <1>3, <1>5 DEF InRun, Moved
<1>9. local' <= steam' /\ local <= local'
  BY <1>1, <1>2 DEF Knowing, TypeOK
<1> QED
  BY <1>2, <1>5, <1>6, <1>7, <1>8, <1>9, OneMoves DEF Moved

LEMMA StopTimesOutInv ==
    ASSUME IInv, NEW a \in Actors, StopTimesOut(a) PROVE IInv'
<1>1. Knowing(a)
  BY InvKnowing
<1>2. /\ at[a].pc = "stop" /\ unit' = (IF unit = "active" THEN "stopping" ELSE unit)
      /\ UNCHANGED <<steam, local, players, known, updating, post>>
  BY DEF StopTimesOut
<1>3. Moved(a, "finish") /\ at'[a].res = "unstopped"
  BY <1>1, ToFinish DEF StopTimesOut, Knowing
<1>4. TypeOK'
  BY <1>1, <1>2, <1>3 DEF Knowing, TypeOK, Goroutine, known, Moved
<1>5. Knows(at'[a], local', unit')
  BY <1>3
  DEF Knows, WasIsWhatItStopped, ReadsStayBelow, UnitIsAsLeft, AfterProbe, Moved
<1>6. InRun(a) /\ InRun(a)'
  BY <1>2, <1>3 DEF InRun, Running, Moved
<1>7. local' <= steam' /\ local <= local'
  BY <1>1, <1>2 DEF Knowing, TypeOK
<1> QED
  BY <1>2, <1>3, <1>4, <1>5, <1>6, <1>7, OneMoves DEF Moved

LEMMA SteamcmdInv ==
    ASSUME IInv, NEW a \in Actors, SteamcmdInstalls(a) \/ SteamcmdFails(a) PROVE IInv'
<1>1. Knowing(a)
  BY InvKnowing
<1>2. /\ at[a].pc = "steamcmd" /\ local' \in {local, steam}
      /\ UNCHANGED <<steam, unit, players, known, updating, post>>
  BY DEF SteamcmdInstalls, SteamcmdFails, world
<1>3. {"steamcmd", "verify"} \subseteq Running /\ "verify" \in PCs
  BY DEF Running, PCs
<1>4. Moved(a, "verify") /\ at'[a].was = at[a].was /\ at'[a].stopped = at[a].stopped
  BY <1>1, <1>3, ToPC DEF SteamcmdInstalls, SteamcmdFails, Goto, Knowing
<1>5. TypeOK'
  BY <1>1, <1>2, <1>4 DEF Knowing, TypeOK, Builds, Goroutine, known, Moved
<1>6. Knows(at'[a], local', unit')
  BY <1>1, <1>2, <1>4
  DEF Knowing, Knows, WasIsWhatItStopped, ReadsStayBelow, UnitIsAsLeft, AfterProbe, Moved
<1>7. InRun(a) /\ InRun(a)'
  BY <1>2, <1>3, <1>4 DEF InRun, Moved
<1>8. local' <= steam' /\ local <= local'
  BY <1>1, <1>2 DEF Knowing, TypeOK, Builds
<1> QED
  BY <1>2, <1>4, <1>5, <1>6, <1>7, <1>8, OneMoves DEF Moved

LEMMA VerifyInv ==
    ASSUME IInv, NEW a \in Actors, Verify(a) PROVE IInv'
<1> DEFINE pc == IF local = at[a].got THEN "clear" ELSE "giveup"
<1>1. Knowing(a)
  BY InvKnowing
<1>2. at[a].pc = "verify" /\ UNCHANGED <<world, known, updating, post>>
  BY DEF Verify
<1>3. {"verify", pc} \subseteq Running /\ pc \in PCs
  BY DEF Running, PCs
<1>4. at' = [at EXCEPT ![a].pc = pc]
  BY DEF Verify, Goto
<1>5. pc \in {"clear", "giveup"} /\ (pc = "clear" => local = at[a].got)
  OBVIOUS
<1> HIDE DEF pc
<1>6. /\ Moved(a, pc) /\ at'[a].was = at[a].was /\ at'[a].stopped = at[a].stopped
      /\ at'[a].got = at[a].got
  BY <1>1, <1>3, <1>4, ToPC DEF Knowing
<1>7. TypeOK'
  BY <1>1, <1>2, <1>6 DEF Knowing, TypeOK, Goroutine, world, known, Moved
<1>8. local' <= steam' /\ local <= local' /\ unit' = unit /\ local' = local
  BY <1>1, <1>2 DEF Knowing, TypeOK, world
<1>9. Knows(at'[a], local', unit')
  BY <1>1, <1>2, <1>5, <1>6, <1>8
  DEF Knowing, Knows, WasIsWhatItStopped, ReadsStayBelow, UnitIsAsLeft, AfterProbe, Moved
<1>10. InRun(a) /\ InRun(a)'
  BY <1>2, <1>3, <1>6 DEF InRun, Moved
<1> QED
  BY <1>2, <1>6, <1>7, <1>8, <1>9, <1>10, OneMoves DEF Moved

\* systemctl start: the unit is up, or it is not.
LEMMA StartUnitIs ==
    ASSUME TypeOK, NEW up \in BOOLEAN, StartUnit(up)
    PROVE  /\ unit' = IF up THEN "active" ELSE "inactive"
           /\ players' \in 0..MaxPlayers
BY BoundsAssumption DEF StartUnit, TypeOK

\* A Run that ends by starting the unit, or by leaving it alone.
LEMMA LastStep ==
    ASSUME IInv, NEW a \in Actors, NEW pc \in {"finish", "restart"}, Moved(a, pc),
           InRun(a), UNCHANGED <<steam, local, updating, post>>,
           avail' \in BOOLEAN, pending' \in BOOLEAN,
           check' \in [err : BOOLEAN, last : {"never", "success", "failure"}],
           cache' \in [build : 0..MaxBuild, fresh : BOOLEAN],
           unit' \in {"active", "inactive", "stopping", "restarting"},
           players' \in 0..MaxPlayers,
           Knows(at'[a], local, unit')
    PROVE  IInv'
<1>1. Knowing(a)
  BY InvKnowing
<1>2. TypeOK'
  BY <1>1 DEF Knowing, TypeOK, Goroutine, Moved
<1>3. InRun(a)' /\ at[a].pc # "idle"
  BY DEF InRun, Running, Moved
<1>4. local' <= steam' /\ local <= local'
  BY <1>1 DEF Knowing, TypeOK
<1> QED
  BY <1>2, <1>3, <1>4, OneMoves DEF Moved

LEMMA GiveUpInv ==
    ASSUME IInv, NEW a \in Actors, GiveUp(a) PROVE IInv'
<1>1. Knowing(a) /\ TypeOK
  BY InvKnowing DEF Knowing
<1>2. at[a].pc = "giveup" /\ UNCHANGED <<steam, local, known, updating, post>>
  BY DEF GiveUp
<1>3. InRun(a)
  BY <1>2 DEF InRun, Running
<1>4. CASE at[a].was
  <2>1. PICK up \in BOOLEAN :
          StartUnit(up) /\ Finish(a, IF up THEN "error" ELSE "unstarted")
    BY <1>4 DEF GiveUp
  <2>2. /\ Moved(a, "finish") /\ at'[a].was = at[a].was
        /\ at'[a].res = IF up THEN "error" ELSE "unstarted"
    BY <1>1, <2>1, ToFinish DEF Knowing
  <2>3. /\ unit' = IF up THEN "active" ELSE "inactive"
        /\ players' \in 0..MaxPlayers
    BY <1>1, <2>1, StartUnitIs
  <2>4. Knows(at'[a], local, unit')
    BY <2>2, <2>3
    DEF Knows, WasIsWhatItStopped, ReadsStayBelow, UnitIsAsLeft, AfterProbe, Moved
  <2> QED
    BY <1>1, <1>2, <1>3, <2>2, <2>3, <2>4, LastStep DEF TypeOK, known
<1>5. CASE ~at[a].was
  <2>1. UNCHANGED <<unit, players>> /\ Finish(a, "error")
    BY <1>5 DEF GiveUp
  <2>2. Moved(a, "finish") /\ at'[a].was = at[a].was /\ at'[a].res = "error"
    BY <1>1, <2>1, ToFinish DEF Knowing
  <2>3. Knows(at'[a], local, unit')
    BY <1>5, <2>2
    DEF Knows, WasIsWhatItStopped, ReadsStayBelow, UnitIsAsLeft, AfterProbe, Moved
  <2> QED
    BY <1>1, <1>2, <1>3, <2>1, <2>2, <2>3, LastStep DEF TypeOK, known
<1> QED
  BY <1>4, <1>5

LEMMA InstalledInv ==
    ASSUME IInv, NEW a \in Actors, Installed(a) PROVE IInv'
<1>1. Knowing(a) /\ TypeOK
  BY InvKnowing DEF Knowing
<1>2. /\ at[a].pc = "clear" /\ UNCHANGED <<world, updating, post>>
      /\ avail' = FALSE /\ pending' = FALSE
      /\ cache' = [build |-> local, fresh |-> TRUE]
      /\ check' = [check EXCEPT !.err = FALSE]
  BY DEF Installed, ClearAvailable
<1>3. InRun(a)
  BY <1>2 DEF InRun, Running
<1>4. /\ check' \in [err : BOOLEAN, last : {"never", "success", "failure"}]
      /\ cache' \in [build : 0..MaxBuild, fresh : BOOLEAN]
  BY <1>1, <1>2 DEF TypeOK
<1>5. at[a].got <= local /\ (at[a].was => at[a].stopped)
  BY <1>1, <1>2 DEF Knowing, Knows, ReadsStayBelow, WasIsWhatItStopped
<1>6. CASE at[a].was
  <2>1. "restart" \in PCs
    BY DEF PCs, Running
  <2>2. /\ Moved(a, "restart") /\ at'[a].was = at[a].was
        /\ at'[a].got = at[a].got /\ at'[a].stopped = at[a].stopped
    BY <1>1, <1>6, <2>1, ToPC DEF Installed, Goto, Knowing
  <2>3. Knows(at'[a], local, unit')
    BY <1>5, <1>6, <2>2
    DEF Knows, WasIsWhatItStopped, ReadsStayBelow, UnitIsAsLeft, AfterProbe, Moved
  <2> QED
    BY <1>1, <1>2, <1>3, <1>4, <2>2, <2>3, LastStep DEF TypeOK, world
<1>7. CASE ~at[a].was
  <2>1. /\ Moved(a, "finish") /\ at'[a].was = at[a].was /\ at'[a].got = at[a].got
    BY <1>1, <1>7, ToFinish DEF Installed, Knowing
  <2>2. Knows(at'[a], local, unit')
    BY <1>5, <1>7, <2>1
    DEF Knows, WasIsWhatItStopped, ReadsStayBelow, UnitIsAsLeft, AfterProbe, Moved
  <2> QED
    BY <1>1, <1>2, <1>3, <1>4, <2>1, <2>2, LastStep DEF TypeOK, world
<1> QED
  BY <1>6, <1>7

LEMMA RestartUnitInv ==
    ASSUME IInv, NEW a \in Actors, RestartUnit(a) PROVE IInv'
<1>1. Knowing(a) /\ TypeOK
  BY InvKnowing DEF Knowing
<1>2. at[a].pc = "restart" /\ UNCHANGED <<steam, local, known, updating, post>>
  BY DEF RestartUnit
<1>3. InRun(a)
  BY <1>2 DEF InRun, Running
<1>4. PICK up \in BOOLEAN :
        StartUnit(up) /\ Finish(a, IF up THEN "ok" ELSE "unstarted")
  BY DEF RestartUnit
<1>5. /\ Moved(a, "finish") /\ at'[a].got = at[a].got
      /\ at'[a].res = IF up THEN "ok" ELSE "unstarted"
  BY <1>1, <1>4, ToFinish DEF Knowing
<1>6. /\ unit' = IF up THEN "active" ELSE "inactive"
      /\ players' \in 0..MaxPlayers
  BY <1>1, <1>4, StartUnitIs
<1>7. at[a].got <= local
  BY <1>1, <1>2 DEF Knowing, Knows, ReadsStayBelow
<1>8. Knows(at'[a], local, unit')
  BY <1>5, <1>6, <1>7
  DEF Knows, WasIsWhatItStopped, ReadsStayBelow, UnitIsAsLeft, AfterProbe, Moved
<1> QED
  BY <1>1, <1>2, <1>3, <1>5, <1>6, <1>8, LastStep DEF TypeOK, known

\* The flag goes down at the end of a Run; a Run that goes on is marked, and so is
\* a POST that has begun beside this one.
LEMMA EndInv ==
    ASSUME IInv, NEW a \in Actors, End(a) PROVE IInv'
<1>1. Knowing(a)
  BY InvKnowing
<1>2. at[a].pc = "finish" /\ updating' = FALSE /\ UNCHANGED <<world, known, post>>
  BY DEF End
<1>3. PICK pc \in {"idle", "report", "settle"} : at' = [at EXCEPT ![a] = [Idle EXCEPT !.pc = pc]]
  <2>1. Idle = [Idle EXCEPT !.pc = "idle"]
    BY DEF Idle
  <2> QED
    BY <2>1 DEF End, After
<1> DEFINE g == [Idle EXCEPT !.pc = pc]
<1>4. g \in Goroutine /\ g.pc \notin Running /\ Knows(g, local, unit)
  BY IdleKnows
<1> HIDE DEF g
<1>5. at' \in [Actors -> Goroutine] /\ at'[a] = g /\ \A b \in Actors \ {a} : at'[b] = at[b]
  BY <1>1, <1>3, <1>4 DEF Knowing, g
<1>6. TypeOK'
  BY <1>1, <1>2, <1>5 DEF Knowing, TypeOK, Goroutine, world, known
<1>7. InRun(a) /\ ~InRun(a)'
  BY <1>2, <1>4, <1>5 DEF InRun, Running
<1>8. \A b \in Actors \ {a} : (InRun(b)' <=> InRun(b)) /\ (InRun(b) => at[b].beside)
  BY <1>5, <1>7 DEF InRun, IInv, OverlapsAreMarked
<1>9. local' = local /\ local' <= steam' /\ unit' = unit
  BY <1>1, <1>2 DEF Knowing, world
<1>10. \A b \in Actors : Knows(at'[b], local', unit')
  BY <1>4, <1>5, <1>9 DEF IInv
<1>11. OverlapsAreMarked'
  BY <1>5, <1>7, <1>8 DEF OverlapsAreMarked
<1>12. FlagInv'
  <2>1. ASSUME NEW p \in Posts PROVE PostIsAlone(p)'
    BY <1>2, <1>7 DEF IInv, FlagInv, PostIsAlone, InProgress
  <2>2. ASSUME NEW b \in Actors PROVE RunIsCovered(b)'
    BY <1>5, <1>7, <1>8 DEF RunIsCovered
  <2>3. FlagHasReason'
    BY <1>2 DEF FlagHasReason
  <2> QED
    BY <2>1, <2>2, <2>3 DEF FlagInv
<1> QED
  BY <1>6, <1>9, <1>10, <1>11, <1>12 DEF IInv

\* The job is at rest again.
LEMMA JobSettlesInv ==
    ASSUME IInv, NEW a \in Actors, JobSettles(a) PROVE IInv'
<1>1. Knowing(a) /\ cache \in [build : 0..MaxBuild, fresh : BOOLEAN]
  BY InvKnowing DEF Knowing, TypeOK
<1>2. at[a].pc = "settle" /\ UNCHANGED <<world, known, updating, post>>
  BY DEF JobSettles
<1>3. /\ "idle" \in PCs /\ "idle" \notin Running \union AfterProbe
      /\ "settle" \notin Running \union AfterProbe
  BY DEF PCs, Running, AfterProbe
<1>4. Moved(a, "idle") /\ at'[a].was = at[a].was /\ at'[a].stopped = at[a].stopped
  BY <1>1, <1>3, ToPC DEF JobSettles, Goto, Knowing
<1>5. ReadsStayBelow(at'[a], local)
  BY <1>4 DEF ReadsStayBelow, Moved
<1> QED
  BY <1>1, <1>2, <1>3, <1>4, <1>5, EarlyStep DEF known

\* A Run that begins marks every Run in progress, and itself if there is one.
LEMMA BeginRunKeeps ==
    ASSUME IInv, NEW a \in Actors, at[a].pc \in {"idle", "go"},
           NEW raced \in BOOLEAN, BeginRun(a, raced),
           UNCHANGED <<world, known>>, updating' \in BOOLEAN, post' \in [Posts -> Request]
    PROVE  /\ TypeOK' /\ local' <= steam'
           /\ \A b \in Actors : Knows(at'[b], local', unit')
           /\ OverlapsAreMarked'
           /\ InRun(a)' /\ at'[a].raced = raced
           /\ \A b \in Actors \ {a} : (InRun(b)' <=> InRun(b)) /\ (InRun(b) => at'[b].beside)
<1> DEFINE others == {b \in Actors \ {a} : InRun(b)}
<1>1. Knowing(a)
  BY InvKnowing
<1>2. "run" \in PCs /\ "run" \in Running \ AfterProbe
  BY DEF PCs, Running, AfterProbe
<1>3. at' = [b \in Actors |->
               IF b = a THEN [at[a] EXCEPT !.pc = "run", !.beside = others # {}, !.raced = raced]
               ELSE [at[b] EXCEPT !.beside = @ \/ b \in others]]
  BY DEF BeginRun
<1>4. /\ at'[a] \in Goroutine
      /\ at'[a].pc = "run" /\ (at'[a].beside <=> others # {}) /\ at'[a].raced = raced
      /\ at'[a].was = at[a].was /\ at'[a].stopped = at[a].stopped
  BY <1>1, <1>2, <1>3 DEF Knowing, Goroutine
<1>5. \A b \in Actors \ {a} :
        /\ at'[b] \in Goroutine
        /\ at'[b].pc = at[b].pc /\ at'[b].was = at[b].was
        /\ at'[b].stopped = at[b].stopped /\ at'[b].disturbed = at[b].disturbed
        /\ at'[b].seen = at[b].seen /\ at'[b].got = at[b].got /\ at'[b].res = at[b].res
        /\ at[b].beside => at'[b].beside
        /\ InRun(b) => at'[b].beside
  BY <1>1, <1>3 DEF Knowing, Goroutine
<1>6. at' \in [Actors -> Goroutine]
  BY <1>3, <1>4, <1>5
<1>7. TypeOK'
  BY <1>1, <1>3, <1>6 DEF Knowing, TypeOK, Goroutine, Request, world, known
<1>8. local' <= steam' /\ local' = local /\ unit' = unit
  BY <1>1 DEF Knowing, world
<1>9. ~at'[a].was /\ ~at'[a].stopped
  <2>1. at[a].pc \notin AfterProbe
    BY DEF AfterProbe
  <2> QED
    BY <1>1, <1>4, <2>1 DEF Knowing, Knows, WasIsWhatItStopped
<1>10. Knows(at'[a], local', unit')
  BY <1>4, <1>9 DEF Knows, WasIsWhatItStopped, ReadsStayBelow, UnitIsAsLeft, AfterProbe
<1>11. ASSUME NEW b \in Actors \ {a} PROVE Knows(at'[b], local', unit')
  <2>1. Knows(at[b], local, unit)
    BY DEF IInv
  <2> QED
    BY <1>5, <1>8, <2>1 DEF Knows, WasIsWhatItStopped, ReadsStayBelow, UnitIsAsLeft
<1>12. \A b \in Actors : InRun(b)' <=> b = a \/ InRun(b)
  BY <1>2, <1>4, <1>5 DEF InRun
<1>13. OverlapsAreMarked'
  <2> SUFFICES ASSUME NEW b \in Actors, NEW c \in Actors, b # c, InRun(b)', InRun(c)'
               PROVE  at'[b].beside
    BY DEF OverlapsAreMarked
  <2>1. CASE b = a
    BY <1>4, <1>12, <2>1
  <2>2. CASE b # a
    BY <1>5, <1>12, <2>2
  <2> QED
    BY <2>1, <2>2
<1> QED
  BY <1>4, <1>5, <1>7, <1>8, <1>10, <1>11, <1>12, <1>13

\* The loop's Run raises the flag, and marks the POSTs in progress.
LEMMA AutoBeginInv == ASSUME IInv, AutoBegin PROVE IInv'
<1> DEFINE raced == \E p \in Posts : InProgress(p)
<1>1. /\ "auto" \in Actors /\ at["auto"].pc = "go" /\ updating' = TRUE
      /\ BeginRun("auto", raced) /\ UNCHANGED <<world, known>>
      /\ post' = [p \in Posts |-> [post[p] EXCEPT !.beside = InProgress(p)]]
  BY DEF AutoBegin
<1>2. post \in [Posts -> Request]
  BY DEF IInv, TypeOK, Request
<1>3. \A p \in Posts : /\ post'[p] \in Request /\ post'[p].pc = post[p].pc
                       /\ post'[p].beside <=> InProgress(p)
  <2> SUFFICES ASSUME NEW p \in Posts
               PROVE  /\ post'[p] \in Request /\ post'[p].pc = post[p].pc
                      /\ post'[p].beside <=> InProgress(p)
    OBVIOUS
  <2>1. post[p] \in Request
    BY <1>2
  <2>2. PICK under \in BOOLEAN : under <=> InProgress(p)
    OBVIOUS
  <2>3. post'[p] = [post[p] EXCEPT !.beside = InProgress(p)]
    BY <1>1
  <2>4. InProgress(p) = under
    BY <2>2 DEF InProgress
  <2>5. post'[p] = [post[p] EXCEPT !.beside = under]
    BY <2>3, <2>4
  <2>6. post'[p] \in Request /\ post'[p].pc = post[p].pc /\ post'[p].beside = under
    BY <2>1, <2>2, <2>5 DEF Request
  <2> QED
    BY <2>2, <2>6
<1>4. post' \in [Posts -> Request] /\ raced \in BOOLEAN
  BY <1>1, <1>3
<1>5. \A p \in Posts : InProgress(p)' <=> InProgress(p)
  BY <1>3 DEF InProgress
<1> HIDE DEF raced
<1>6. /\ TypeOK' /\ local' <= steam' /\ OverlapsAreMarked'
      /\ \A b \in Actors : Knows(at'[b], local', unit')
      /\ InRun("auto")' /\ at'["auto"].raced = raced
      /\ \A b \in Actors \ {"auto"} : (InRun(b)' <=> InRun(b)) /\ (InRun(b) => at'[b].beside)
  BY <1>1, <1>4, BeginRunKeeps
<1>7. ASSUME NEW p \in Posts PROVE PostIsAlone(p)'
  BY <1>3, <1>5 DEF PostIsAlone
<1>8. ASSUME NEW b \in Actors PROVE RunIsCovered(b)'
  BY <1>1, <1>5, <1>6 DEF RunIsCovered, raced
<1>9. FlagHasReason'
  BY <1>1, <1>6 DEF FlagHasReason
<1> QED
  BY <1>6, <1>7, <1>8, <1>9 DEF IInv, FlagInv

\* autoPass, between its Check and its Run, and after its Run.
LEMMA AutoStepInv == ASSUME IInv, AutoStep PROVE IInv'
<1>1. "auto" \in Actors
  BY DEF AutoStep, CountPlayers, AutoBegin, ReportError
<1>2. Knowing("auto") /\ TypeOK
  BY <1>1, InvKnowing DEF Knowing
<1>3. CASE CountPlayers
  <2>1. PICK pc \in {"idle", "go"} : Goto("auto", pc) /\ pending' \in BOOLEAN
    BY <1>3 DEF CountPlayers
  <2>2. at["auto"].pc = "decide" /\ UNCHANGED <<world, cache, avail, check, updating, post>>
    BY <1>3 DEF CountPlayers
  <2>3. pc \in PCs /\ pc \notin Running \union AfterProbe /\ pc # "finish"
    BY DEF PCs, Running, AfterProbe
  <2>4. /\ Moved("auto", pc) /\ at'["auto"].was = at["auto"].was
        /\ at'["auto"].stopped = at["auto"].stopped
    BY <1>1, <1>2, <2>1, <2>3, ToPC DEF Goto, Knowing
  <2>5. TypeOK'
    BY <1>2, <2>1, <2>2, <2>4 DEF TypeOK, Goroutine, world, Moved
  <2>6. ~at'["auto"].was /\ ~at'["auto"].stopped
    BY <1>2, <2>2, <2>4 DEF Knowing, Knows, WasIsWhatItStopped, AfterProbe
  <2>7. Knows(at'["auto"], local', unit')
    BY <2>4, <2>6
    DEF Knows, WasIsWhatItStopped, ReadsStayBelow, UnitIsAsLeft, AfterProbe, Moved
  <2>8. ~InRun("auto") /\ ~InRun("auto")'
    BY <2>2, <2>3, <2>4 DEF InRun, Running, Moved
  <2>9. local' <= steam' /\ local <= local' /\ unit' = unit
    BY <1>2, <2>2 DEF Knowing, TypeOK, world
  <2> QED
    BY <1>1, <2>2, <2>4, <2>5, <2>7, <2>8, <2>9, OneMoves DEF Moved
<1>4. CASE AutoBegin
  BY <1>4, AutoBeginInv
<1>5. CASE ReportError
  <2>1. /\ at["auto"].pc = "report" /\ check' = [err |-> TRUE, last |-> "failure"]
        /\ Goto("auto", "idle") /\ UNCHANGED <<world, cache, avail, pending, updating, post>>
    BY <1>5 DEF ReportError
  <2>2. "idle" \in PCs
    BY DEF PCs
  <2>3. /\ Moved("auto", "idle") /\ at'["auto"].was = at["auto"].was
        /\ at'["auto"].stopped = at["auto"].stopped
    BY <1>1, <1>2, <2>1, <2>2, ToPC DEF Goto, Knowing
  <2>4. TypeOK'
    BY <1>2, <2>1, <2>3 DEF TypeOK, Goroutine, world, Moved
  <2>5. ~at'["auto"].was /\ ~at'["auto"].stopped
    BY <1>2, <2>1, <2>3 DEF Knowing, Knows, WasIsWhatItStopped, AfterProbe
  <2>6. Knows(at'["auto"], local', unit')
    BY <2>3, <2>5
    DEF Knows, WasIsWhatItStopped, ReadsStayBelow, UnitIsAsLeft, AfterProbe, Moved
  <2>7. ~InRun("auto") /\ ~InRun("auto")'
    BY <2>1, <2>3 DEF InRun, Running, Moved
  <2>8. local' <= steam' /\ local <= local' /\ unit' = unit
    BY <1>2, <2>1 DEF Knowing, TypeOK, world
  <2> QED
    BY <1>1, <2>1, <2>3, <2>4, <2>6, <2>7, <2>8, OneMoves DEF Moved
<1> QED
  BY <1>3, <1>4, <1>5 DEF AutoStep

------------------------------------------------------------------------------
(***************************************************************************)
(* The POSTs.                                                              *)
(***************************************************************************)

\* One that moves alone has only the flag to keep.
LEMMA PostMoves ==
    ASSUME IInv, UNCHANGED <<world, known, at>>, updating' \in BOOLEAN,
           post' \in [Posts -> Request], FlagInv'
    PROVE  IInv'
BY DEF IInv, TypeOK, Request, OverlapsAreMarked, InRun, world, known

LEMMA ToPost ==
    ASSUME TypeOK, NEW p \in Posts, NEW r \in Request, post' = [post EXCEPT ![p] = r]
    PROVE  /\ post' \in [Posts -> Request] /\ post'[p] = r
           /\ \A q \in Posts \ {p} : post'[q] = post[q]
BY DEF TypeOK, Request

LEMMA ToPostPC ==
    ASSUME TypeOK, NEW p \in Posts, NEW pc \in PostPCs, PostGoto(p, pc)
    PROVE  /\ post' \in [Posts -> Request]
           /\ post'[p].pc = pc /\ post'[p].beside = post[p].beside
           /\ \A q \in Posts \ {p} : post'[q] = post[q]
BY DEF TypeOK, Request, PostGoto

LEMMA NoPostIs == NoPost \in Request /\ NoPost.pc = "idle" /\ ~NoPost.beside
BY DEF NoPost, Request, PostPCs

\* A POST that is done is in nobody's way.
LEMMA PostDone ==
    ASSUME IInv, NEW p \in Posts, post' = [post EXCEPT ![p] = NoPost],
           UNCHANGED <<world, known, at>>,
           updating' = updating \/ (post[p].pc = "lower" /\ updating' = FALSE),
           updating' => post[p].pc \notin {"start", "lower"}
    PROVE  IInv'
<1>1. /\ post' \in [Posts -> Request] /\ post'[p].pc = "idle"
      /\ \A q \in Posts \ {p} : post'[q] = post[q]
  BY NoPostIs, ToPost DEF IInv
<1>2. \A q \in Posts : InProgress(q)' <=> q # p /\ InProgress(q)
  BY <1>1 DEF InProgress
<1>3. \A a \in Actors : InRun(a)' <=> InRun(a)
  BY DEF InRun
<1>4. ASSUME NEW q \in Posts PROVE PostIsAlone(q)'
  <2>1. CASE q = p
    BY <1>2, <2>1 DEF PostIsAlone
  <2>2. CASE q # p /\ updating' = updating
    BY <1>1, <1>2, <1>3, <2>2 DEF IInv, FlagInv, PostIsAlone
  <2>3. CASE q # p /\ post[p].pc = "lower"
    BY <1>1, <1>2, <2>3 DEF IInv, FlagInv, PostIsAlone, InProgress
  <2> QED
    BY <2>1, <2>2, <2>3
<1>5. ASSUME NEW a \in Actors PROVE RunIsCovered(a)'
  <2>1. CASE updating' = updating
    BY <1>2, <1>3, <2>1 DEF IInv, FlagInv, RunIsCovered
  <2>2. CASE post[p].pc = "lower"
    BY <1>3, <2>2 DEF IInv, FlagInv, RunIsCovered, InProgress
  <2> QED
    BY <2>1, <2>2
<1>6. FlagHasReason'
  BY <1>1, <1>3 DEF IInv, FlagInv, FlagHasReason
<1>7. updating' \in BOOLEAN
  BY DEF IInv, TypeOK
<1> QED
  BY <1>1, <1>4, <1>5, <1>6, <1>7, PostMoves DEF FlagInv

LEMMA PostReadsFlagInv == ASSUME IInv, NEW p \in Posts, PostReadsFlag(p) PROVE IInv'
<1> DEFINE others == {q \in Posts \ {p} : InProgress(q)}
<1> DEFINE alone == others = {} /\ \A a \in Actors : ~InRun(a)
<1>1. /\ ~updating /\ UNCHANGED <<world, known, updating, at>>
      /\ post' = [q \in Posts |->
                    IF q = p THEN [pc |-> "read_jobs", beside |-> ~alone]
                    ELSE [post[q] EXCEPT !.beside = @ \/ q \in others]]
  BY DEF PostReadsFlag
<1>2. post \in [Posts -> Request]
  BY DEF IInv, TypeOK, Request
<1>3. /\ post'[p] \in Request /\ post'[p].pc = "read_jobs" /\ (post'[p].beside <=> ~alone)
  BY <1>1 DEF Request, PostPCs
<1>4. \A q \in Posts \ {p} : /\ post'[q] \in Request /\ post'[q].pc = post[q].pc
                             /\ InProgress(q) => post'[q].beside
  BY <1>1, <1>2 DEF Request
<1>5. post' \in [Posts -> Request]
  BY <1>1, <1>3, <1>4
<1>6. \A q \in Posts : InProgress(q)' <=> q = p \/ InProgress(q)
  BY <1>3, <1>4 DEF InProgress
<1>7. \A a \in Actors : InRun(a)' <=> InRun(a)
  BY <1>1 DEF InRun
<1>8. ASSUME NEW q \in Posts PROVE PostIsAlone(q)'
  <2>1. CASE q = p
    BY <1>3, <1>6, <1>7, <2>1 DEF PostIsAlone
  <2>2. CASE q # p
    BY <1>4, <1>6, <2>2 DEF PostIsAlone
  <2> QED
    BY <2>1, <2>2
<1>9. ASSUME NEW a \in Actors PROVE RunIsCovered(a)'
  BY <1>1, <1>7 DEF IInv, FlagInv, RunIsCovered
<1>10. FlagHasReason' /\ updating' \in BOOLEAN
  BY <1>1 DEF IInv, TypeOK, FlagHasReason
<1> QED
  BY <1>1, <1>5, <1>8, <1>9, <1>10, PostMoves DEF FlagInv

\* The job is free as far as one can see, and the flag goes up.
LEMMA PostLooksInv ==
    ASSUME IInv, NEW p \in Posts, PostReadsJobs(p) \/ PostRaisesFlag(p) PROVE IInv'
<1>1. CASE PostReadsJobs(p) /\ at["job"].pc # "idle"
  <2>1. /\ post' = [post EXCEPT ![p] = NoPost] /\ post[p].pc = "read_jobs"
        /\ UNCHANGED <<world, known, updating, at>>
    BY <1>1 DEF PostReadsJobs
  <2> QED
    BY <2>1, PostDone
<1>2. CASE (PostReadsJobs(p) /\ at["job"].pc = "idle") \/ PostRaisesFlag(p)
  <2>1. PICK pc \in {"raise", "start"} :
          /\ PostGoto(p, pc) /\ UNCHANGED <<world, known, at>>
          /\ pc = "raise" => /\ post[p].pc = "read_jobs" /\ at["job"].pc = "idle"
                             /\ updating' = updating
          /\ pc = "start" => post[p].pc = "raise" /\ updating' = TRUE
    BY <1>2 DEF PostReadsJobs, PostRaisesFlag
  <2>2. pc \in PostPCs /\ TypeOK
    BY DEF PostPCs, IInv
  <2>3. /\ post' \in [Posts -> Request]
        /\ post'[p].pc = pc /\ post'[p].beside = post[p].beside
        /\ \A q \in Posts \ {p} : post'[q] = post[q]
    BY <2>1, <2>2, ToPostPC
  <2>4. InProgress(p) /\ \A q \in Posts : InProgress(q)' <=> InProgress(q)
    BY <2>1, <2>3 DEF InProgress
  <2>5. \A a \in Actors : InRun(a)' <=> InRun(a)
    BY <2>1 DEF InRun
  <2>6. ASSUME NEW q \in Posts PROVE PostIsAlone(q)'
    <3>1. CASE q = p
      BY <2>1, <2>3, <2>4, <2>5, <3>1 DEF IInv, FlagInv, PostIsAlone
    <3>2. CASE q # p
      BY <2>3, <2>4, <3>2 DEF IInv, FlagInv, PostIsAlone
    <3> QED
      BY <3>1, <3>2
  <2>7. ASSUME NEW a \in Actors PROVE RunIsCovered(a)'
    BY <2>1, <2>4, <2>5 DEF IInv, FlagInv, RunIsCovered
  <2>8. FlagHasReason'
    <3>1. CASE pc = "raise"
      BY <2>1, <2>3, <2>5, <3>1 DEF IInv, FlagInv, FlagHasReason
    <3>2. CASE pc = "start"
      BY <2>3, <3>2 DEF FlagHasReason
    <3> QED
      BY <2>1, <3>1, <3>2
  <2>9. updating' \in BOOLEAN
    BY <2>1 DEF IInv, TypeOK
  <2> QED
    BY <2>1, <2>3, <2>6, <2>7, <2>8, <2>9, PostMoves DEF FlagInv
<1> QED
  BY <1>1, <1>2

LEMMA PostStartsInv == ASSUME IInv, NEW p \in Posts, PostStarts(p) PROVE IInv'
<1>1. /\ post[p].pc = "start" /\ UNCHANGED <<world, known, updating>> /\ InProgress(p)
      /\ "job" \in Actors /\ TypeOK
  BY PostsAssumption DEF PostStarts, InProgress, IInv
<1>2. CASE at["job"].pc = "idle"
  <2>1. BeginRun("job", post[p].beside) /\ post' = [post EXCEPT ![p] = NoPost]
    BY <1>2 DEF PostStarts
  <2>2. /\ post' \in [Posts -> Request] /\ post'[p].pc = "idle"
        /\ \A q \in Posts \ {p} : post'[q] = post[q]
    BY <1>1, <2>1, NoPostIs, ToPost
  <2>3. post[p].beside \in BOOLEAN /\ updating' \in BOOLEAN
    BY <1>1 DEF TypeOK
  <2>4. /\ TypeOK' /\ local' <= steam' /\ OverlapsAreMarked'
        /\ \A b \in Actors : Knows(at'[b], local', unit')
        /\ InRun("job")' /\ at'["job"].raced = post[p].beside
        /\ \A b \in Actors \ {"job"} : (InRun(b)' <=> InRun(b)) /\ (InRun(b) => at'[b].beside)
    BY <1>1, <1>2, <2>1, <2>2, <2>3, BeginRunKeeps
  <2>5. \A q \in Posts : InProgress(q)' <=> q # p /\ InProgress(q)
    BY <2>2 DEF InProgress
  <2>6. ASSUME NEW q \in Posts PROVE PostIsAlone(q)'
    <3>1. CASE q = p
      BY <2>5, <3>1 DEF PostIsAlone
    <3>2. CASE q # p
      BY <1>1, <2>2, <2>5, <3>2 DEF IInv, FlagInv, PostIsAlone
    <3> QED
      BY <3>1, <3>2
  <2>7. ASSUME NEW b \in Actors PROVE RunIsCovered(b)'
    <3>1. CASE b = "job"
      BY <1>1, <2>4, <2>5, <3>1 DEF IInv, FlagInv, PostIsAlone, RunIsCovered
    <3>2. CASE b # "job"
      BY <2>4, <3>2 DEF RunIsCovered
    <3> QED
      BY <3>1, <3>2
  <2>8. FlagHasReason'
    BY <1>1, <2>4 DEF FlagHasReason
  <2> QED
    BY <2>4, <2>6, <2>7, <2>8 DEF IInv, FlagInv
<1>3. CASE at["job"].pc # "idle"
  <2>1. PostGoto(p, "lower") /\ UNCHANGED at /\ "lower" \in PostPCs
    BY <1>3 DEF PostStarts, PostPCs
  <2>2. /\ post' \in [Posts -> Request]
        /\ post'[p].pc = "lower" /\ post'[p].beside = post[p].beside
        /\ \A q \in Posts \ {p} : post'[q] = post[q]
    BY <1>1, <2>1, ToPostPC
  <2>3. \A q \in Posts : InProgress(q)' <=> InProgress(q)
    BY <1>1, <2>2 DEF InProgress
  <2>4. \A a \in Actors : InRun(a)' <=> InRun(a)
    BY <2>1 DEF InRun
  <2>5. ASSUME NEW q \in Posts PROVE PostIsAlone(q)'
    <3>1. CASE q = p
      BY <1>1, <1>3, <2>2, <3>1 DEF IInv, FlagInv, PostIsAlone
    <3>2. CASE q # p
      BY <1>1, <2>1, <2>2, <2>3, <2>4, <3>2 DEF IInv, FlagInv, PostIsAlone
    <3> QED
      BY <3>1, <3>2
  <2>6. ASSUME NEW a \in Actors PROVE RunIsCovered(a)'
    BY <1>1, <2>1, <2>3, <2>4 DEF IInv, FlagInv, RunIsCovered
  <2>7. FlagHasReason' /\ updating' \in BOOLEAN
    BY <1>1, <2>2 DEF FlagHasReason, TypeOK
  <2> QED
    BY <1>1, <2>1, <2>2, <2>5, <2>6, <2>7, PostMoves DEF FlagInv
<1> QED
  BY <1>2, <1>3

LEMMA PostStepInv == ASSUME IInv, NEW p \in Posts, PostStep(p) PROVE IInv'
<1>1. CASE PostRefused(p)
  <2>1. /\ post[p].pc = "lower" /\ updating' = FALSE /\ post' = [post EXCEPT ![p] = NoPost]
        /\ UNCHANGED <<world, known, at>>
    BY <1>1 DEF PostRefused
  <2> QED
    BY <2>1, PostDone
<1> QED
  BY <1>1, PostLooksInv, PostStartsInv DEF PostStep

------------------------------------------------------------------------------
\* systemd and the operator: who is in a Run then is marked as disturbed.
LEMMA SetUnitInv ==
    ASSUME IInv, NEW from,
           NEW to \in {"active", "inactive", "restarting"}, SetUnit(from, to)
    PROVE  IInv'
<1>1. TypeOK /\ at \in [Actors -> Goroutine]
  BY DEF IInv, TypeOK, Goroutine
<1>2. /\ unit' = to /\ players' = (IF to = "active" THEN players ELSE 0)
      /\ at' = [a \in Actors |-> [at[a] EXCEPT !.disturbed = @ \/ InRun(a)]]
      /\ UNCHANGED <<steam, local, known, updating, post>>
  BY DEF SetUnit
<1>3. \A a \in Actors :
        /\ at'[a] \in Goroutine
        /\ at'[a].pc = at[a].pc /\ at'[a].was = at[a].was
        /\ at'[a].stopped = at[a].stopped /\ at'[a].beside = at[a].beside
        /\ at'[a].raced = at[a].raced
        /\ at'[a].seen = at[a].seen /\ at'[a].got = at[a].got /\ at'[a].res = at[a].res
        /\ InRun(a) => at'[a].disturbed
  BY <1>1, <1>2 DEF Goroutine
<1>4. TypeOK'
  <2>1. at' \in [Actors -> Goroutine]
    BY <1>2, <1>3
  <2> QED
    BY <1>1, <1>2, <2>1, BoundsAssumption DEF TypeOK, Goroutine, known
<1>5. ASSUME NEW a \in Actors PROVE Knows(at'[a], local', unit')
  <2>1. WasIsWhatItStopped(at[a]) /\ ReadsStayBelow(at[a], local)
    BY DEF IInv, Knows
  <2>2. UnitIsAsLeft(at'[a], unit')
    BY <1>3 DEF UnitIsAsLeft, InRun, Running
  <2>3. WasIsWhatItStopped(at'[a])
    BY <1>3, <2>1 DEF WasIsWhatItStopped
  <2>4. local' = local
    BY <1>2
  <2>5. ReadsStayBelow(at'[a], local')
    BY <1>3, <2>1, <2>4 DEF ReadsStayBelow
  <2> QED
    BY <2>2, <2>3, <2>5 DEF Knows
<1>6. \A a \in Actors : InRun(a)' <=> InRun(a)
  BY <1>3 DEF InRun
<1>7. OverlapsAreMarked'
  BY <1>2, <1>3, <1>6 DEF IInv, OverlapsAreMarked
<1>8. Posts # {} /\ at["job"].pc = "idle" => at'["job"].pc = "idle"
  BY <1>3, PostsAssumption
<1>9. FlagInv'
  BY <1>2, <1>3, <1>6, <1>8, FlagStays DEF IInv
<1> QED
  BY <1>2, <1>4, <1>5, <1>7, <1>9 DEF IInv

LEMMA EnvironmentInv == ASSUME IInv, Environment PROVE IInv'
<1>1. TypeOK /\ local <= steam
  BY DEF IInv
<1>2. ASSUME UNCHANGED <<local, unit, updating, at, post>>, steam' \in Builds, steam <= steam',
             players' \in 0..MaxPlayers, UNCHANGED <<avail, pending, check>>,
             cache' \in [build : 0..MaxBuild, fresh : BOOLEAN]
      PROVE  IInv'
  <2>1. TypeOK'
    BY <1>1, <1>2 DEF TypeOK
  <2>2. local' <= steam'
    BY <1>1, <1>2 DEF TypeOK, Builds
  <2>3. \A a \in Actors : Knows(at'[a], local', unit')
    BY <1>2 DEF IInv
  <2>4. \A a \in Actors : InRun(a)' <=> InRun(a)
    BY <1>2 DEF InRun
  <2>5. OverlapsAreMarked'
    BY <1>2, <2>4 DEF IInv, OverlapsAreMarked
  <2>6. FlagInv /\ updating' = updating /\ post' = post /\ at' = at
    BY <1>2 DEF IInv
  <2>7. FlagInv'
    <3>1. /\ \A b \in Actors : InRun(b) => at'[b].beside = at[b].beside /\ at'[b].raced = at[b].raced
          /\ Posts # {} /\ at["job"].pc = "idle" => at'["job"].pc = "idle"
      BY <2>6
    <3>2. \A b \in Actors : /\ InRun(b)' <=> InRun(b)
                            /\ InRun(b) => /\ at'[b].beside = at[b].beside
                                           /\ at'[b].raced = at[b].raced
      BY <2>4, <3>1
    <3> QED
      BY <2>6, <3>1, <3>2, FlagStays
  <2> QED
    BY <2>1, <2>2, <2>3, <2>5, <2>7 DEF IInv
<1>3. CASE SteamPublishes
  <2>1. steam' \in Builds /\ steam <= steam'
    BY <1>1, <1>3, BoundsAssumption DEF SteamPublishes, TypeOK, Builds
  <2> QED
    BY <1>1, <1>2, <1>3, <2>1 DEF SteamPublishes, TypeOK, known
<1>4. CASE CacheExpires
  <2>1. steam <= steam
    BY <1>1 DEF TypeOK, Builds
  <2> QED
    BY <1>1, <1>2, <1>4, <2>1 DEF CacheExpires, TypeOK, world
<1>5. CASE PlayersMove
  <2>1. steam <= steam
    BY <1>1 DEF TypeOK, Builds
  <2> QED
    BY <1>1, <1>2, <1>5, <2>1 DEF PlayersMove, TypeOK, known
<1>6. CASE UnitStopped \/ GameDies \/ GameBack \/ OperatorStarts \/ OperatorStops
  BY <1>6, SetUnitInv
  DEF UnitStopped, GameDies, GameBack, OperatorStarts, OperatorStops
<1>7. CASE AgentRestarts
  <2>1. /\ at' = [a \in Actors |-> Idle] /\ updating' = FALSE /\ UNCHANGED world
        /\ cache' = [build |-> 0, fresh |-> FALSE] /\ avail' = FALSE /\ pending' = FALSE
        /\ check' = [err |-> FALSE, last |-> "never"]
        /\ post' = [p \in Posts |-> NoPost]
    BY <1>7 DEF AgentRestarts
  <2>2. /\ Idle \in Goroutine /\ Idle.pc \notin Running
        /\ Knows(Idle, local', unit')
    BY IdleKnows
  <2>3. TypeOK'
    <3>1. at' \in [Actors -> Goroutine]
      BY <2>1, <2>2
    <3>2. 0 \in 0..MaxBuild
      BY BoundsAssumption
    <3> QED
      BY <1>1, <2>1, <3>1, <3>2, NoPostIs DEF TypeOK, Goroutine, Request, world
  <2>4. \A a \in Actors : Knows(at'[a], local', unit') /\ ~InRun(a)'
    BY <2>1, <2>2 DEF InRun
  <2>5. ~updating' /\ \A p \in Posts : ~InProgress(p)'
    BY <2>1, NoPostIs DEF InProgress
  <2>6. FlagInv'
    BY <2>4, <2>5 DEF FlagInv, PostIsAlone, RunIsCovered, FlagHasReason
  <2> QED
    BY <1>1, <2>1, <2>3, <2>4, <2>6 DEF IInv, OverlapsAreMarked, world
<1> QED
  BY <1>3, <1>4, <1>5, <1>6, <1>7 DEF Environment

LEMMA NextInv == IInv /\ [Next]_vars => IInv'
<1> SUFFICES ASSUME IInv, [Next]_vars PROVE IInv'
  OBVIOUS
<1>1. ASSUME NEW a \in Actors, Step(a) PROVE IInv'
  BY <1>1, AnswerFromCacheInv, SteamAnswersInv, SteamIsSilentInv, StoreAnswerInv,
     RecordInv, RunBeginInv, AlreadyCurrentInv, ProbeInv, StopUnitInv, StopTimesOutInv,
     SteamcmdInv, VerifyInv, GiveUpInv, InstalledInv, RestartUnitInv, EndInv,
     JobSettlesInv
  DEF Step
<1>2. CASE AutoStep
  BY <1>2, AutoStepInv
<1>3. CASE Wake
  BY <1>3, AskInv DEF Wake
<1>4. CASE CheckBegin
  BY <1>4, AskInv DEF CheckBegin
<1>5. ASSUME NEW p \in Posts, PostReadsFlag(p) \/ PostStep(p) PROVE IInv'
  BY <1>5, PostReadsFlagInv, PostStepInv
<1>6. CASE Environment
  BY <1>6, EnvironmentInv
<1>7. CASE UNCHANGED vars
  BY <1>7, FlagStays DEF vars, IInv, TypeOK, OverlapsAreMarked, InRun
<1> QED
  BY <1>1, <1>2, <1>3, <1>4, <1>5, <1>6, <1>7 DEF Next

------------------------------------------------------------------------------
\* The strengthened invariant holds in every reachable state.
THEOREM Invariance == Spec => []IInv
BY InitInv, NextInv, PTL DEF Spec

\* Every variable keeps its type, through overlapping Runs, restarts of the
\* agent and whatever steamcmd and systemctl answer.
THEOREM Typing == Spec => []TypeOK
<1>1. IInv => TypeOK
  BY DEF IInv
<1> QED
  BY <1>1, Invariance, PTL

\* The game does not run while steamcmd rewrites its files, and a Run that
\* stopped the server has it up when it returns, unless the stop or the start
\* failed or somebody else meddled with the unit (updater.go Run).
THEOREM ServerIsRestored == Spec => []DownOnlyWhileWriting
<1>1. IInv => DownOnlyWhileWriting
  BY DEF IInv, Knows, UnitIsAsLeft, DownOnlyWhileWriting, StoppedWhileWriting,
         RestoresServer, Undisturbed
<1> QED
  BY <1>1, Invariance, PTL

\* A Run that reports success has the build it asked for on disk, or a newer one
\* (updater.go Run: "trust the manifest over the log line").
THEOREM SuccessInstalls == Spec => []SuccessIsInstalled
<1>1. IInv => SuccessIsInstalled
  <2> SUFFICES ASSUME IInv, NEW a \in Actors, at[a].pc = "finish", at[a].res = "ok"
               PROVE  local >= at[a].got
    BY DEF SuccessIsInstalled
  <2>1. at[a].got <= local
    BY DEF IInv, Knows, ReadsStayBelow
  <2>2. at[a].got \in 0..MaxBuild /\ local \in 0..MaxBuild
    BY DEF IInv, TypeOK
  <2> QED
    BY <2>1, <2>2, BoundsAssumption
<1> QED
  BY <1>1, Invariance, PTL

\* The flag the API's guards read is up only while a Run is in progress or a POST
\* is about to start one, and all through a Run that no other overlaps and whose
\* POST nothing overlapped, for any number of POSTs (updater.go SetUpdating,
\* autoPass; api.go handleServerUpdate).
THEOREM HonestFlag == Spec => []FlagIsHonest
<1>1. IInv => FlagIsHonest
  BY DEF IInv, FlagInv, FlagHasReason, RunIsCovered, FlagIsHonest
<1> QED
  BY <1>1, Invariance, PTL

\* What StartsOnlyWhatItStopped says of one step.
StartsItsOwn ==
    unit # "active" /\ unit' = "active" =>
         \/ \E a \in Actors : at[a].stopped /\ at[a].pc \in {"giveup", "restart"}
         \/ \A a \in Actors : at'[a].pc = at[a].pc

LEMMA StepStartsItsOwn == IInv /\ [Next]_vars => StartsItsOwn
<1> SUFFICES ASSUME IInv, [Next]_vars, unit # "active", unit' = "active"
             PROVE  \/ \E a \in Actors : at[a].stopped /\ at[a].pc \in {"giveup", "restart"}
                    \/ \A a \in Actors : at'[a].pc = at[a].pc
  BY DEF StartsItsOwn
<1>1. ASSUME NEW a \in Actors, Step(a)
      PROVE  at[a].stopped /\ at[a].pc \in {"giveup", "restart"}
  <2>1. GiveUp(a) \/ RestartUnit(a)
    BY <1>1 DEF Step, AnswerFromCache, SteamAnswers, SteamIsSilent, StoreAnswer, Record,
                RunBegin, AlreadyCurrent, Probe, StopUnit, StopTimesOut, SteamcmdInstalls,
                SteamcmdFails, Verify, Installed, End, JobSettles, world
  <2>2. WasIsWhatItStopped(at[a])
    BY DEF IInv, Knows
  <2>3. CASE GiveUp(a)
    BY <2>2, <2>3 DEF GiveUp, WasIsWhatItStopped
  <2>4. CASE RestartUnit(a)
    BY <2>2, <2>4 DEF RestartUnit, WasIsWhatItStopped
  <2> QED
    BY <2>1, <2>3, <2>4
<1>2. CASE Environment
  <2>1. \A a \in Actors : at[a] \in Goroutine
    BY DEF IInv, TypeOK, Goroutine
  <2>2. PICK from, to : SetUnit(from, to)
    BY <1>2 DEF Environment, SteamPublishes, CacheExpires, PlayersMove, AgentRestarts,
                UnitStopped, GameDies, GameBack, OperatorStarts, OperatorStops, world
  <2> QED
    BY <2>1, <2>2 DEF SetUnit, Goroutine
<1>3. ~(AutoStep \/ Wake \/ CheckBegin \/ UNCHANGED vars)
  BY DEF AutoStep, CountPlayers, AutoBegin, ReportError, Wake, CheckBegin, world, vars
<1>4. ASSUME NEW p \in Posts PROVE ~(PostReadsFlag(p) \/ PostStep(p))
  BY DEF PostReadsFlag, PostStep, PostReadsJobs, PostRaisesFlag, PostStarts, PostRefused, world
<1> QED
  BY <1>1, <1>2, <1>3, <1>4 DEF Next

\* "updating an offline server leaves it offline" (updater.go Run): whatever else
\* goes on, the agent starts no unit but one that the same Run stopped.
THEOREM StartsOnlyItsOwn == Spec => StartsOnlyWhatItStopped
<1>1. IInv /\ [Next]_vars => [StartsItsOwn]_vars
  BY StepStartsItsOwn
<1> QED
  BY <1>1, Invariance, PTL DEF Spec, StartsOnlyWhatItStopped, StartsItsOwn
==============================================================================
