----------------------------- MODULE AgentProofs ------------------------------
(***************************************************************************)
(* Theorems about the agent's long work, as MCAgent has its parts beside   *)
(* each other: the badge that checks and updates keep, and the config that *)
(* the boot and the repair of RCON both write, for any goroutines, builds, *)
(* plugins, requirements and faults.                                       *)
(***************************************************************************)
EXTENDS MCAgent, Integers, TLAPS

------------------------------------------------------------------------------
(***************************************************************************)
(* The badge.  A goroutine that nobody came between knows the manifest and *)
(* the cache from what it holds itself (Knows), and its comparison is true *)
(* when it records it.  The badge is true all the while that this          *)
(* comparison, or an install, is not being judged (Shown).  A goroutine    *)
(* that another one is under way beside is mixed, and nothing is claimed   *)
(* of it; the badge is then muddled, and nothing is claimed of that until  *)
(* one that is not mixed sets it right.                                    *)
(***************************************************************************)

Goroutine ==
    [pc : PCs, seen : Nat, got : Nat, was : BOOLEAN, stopped : BOOLEAN, beside : BOOLEAN,
     disturbed : BOOLEAN, raced : BOOLEAN,
     res : {"none", "ok", "error", "unstopped", "unstarted"}]

BadgeTypes ==
    /\ steam \in Nat \ {0} /\ local \in Nat /\ avail \in BOOLEAN
    /\ cache \in [build : Nat, fresh : BOOLEAN]
    /\ at \in [Actors -> Goroutine]
    /\ muddled \in BOOLEAN

\* What the badge v should say of the builds l and b: both known and different.
RightBadge(l, b, v) == v <=> (l # 0 /\ b # 0 /\ l # b)

\* What was read of the manifest is still what it says, up to the install.
SeenIsLocal(g, l) ==
    g.pc \in {"asking", "told", "answered", "run_asking", "run_told", "uptodate", "probe", "stop",
              "steamcmd"} => g.seen = l

ToldIsKnown(g) == g.pc \in {"told", "run_told"} => g.got # 0

AnswerIsCached(g, b) == g.pc = "answered" /\ g.got # 0 => g.got = b

\* A Run knows the cached build, and after its comparisons how they came out.
GotIsCached(g, l, b) ==
    /\ g.pc = "uptodate" => b = l
    /\ g.pc \in {"probe", "stop", "steamcmd", "verify", "giveup", "clear"} => b = g.got /\ g.got # 0
    /\ g.pc \in {"probe", "stop", "steamcmd"} => g.got # g.seen
    /\ g.pc = "giveup" => l # g.got
    /\ g.pc = "clear" => l = g.got

\* What a goroutine g that is not mixed knows of the manifest's build l and the
\* cached build b.
Knows(g, l, b) ==
    SeenIsLocal(g, l) /\ ToldIsKnown(g) /\ AnswerIsCached(g, b) /\ GotIsCached(g, l, b)

\* Nothing is being judged.
Settled(g) ==
    \/ g.pc \in {"idle", "settle", "asking", "told", "decide", "go", "run", "run_asking", "run_told",
                 "restart", "finish", "report"}
    \/ g.pc = "answered" /\ g.got = 0

\* From the pass that found an update to the end of the update.
Applying(g) ==
    g.pc \in {"decide", "go", "run", "run_asking", "run_told", "probe", "stop", "steamcmd", "verify",
              "giveup"}

\* The badge beside a's g: true, and up while the loop applies an update.  (The
\* job of the button applies one whether it is up or not.)
Shown(a, g, l, b, v) ==
    /\ Settled(g) => RightBadge(l, b, v)
    /\ a # "job" /\ Applying(g) => v /\ l # 0

Alone(a) == \A c \in Actors \ {a} : ~Busy(c)

\* Two at a time are mixed, and the badge with them; only who is busy is mixed.
MixedAreMarked ==
    /\ \A a \in mixed : a \in Actors /\ Busy(a)
    /\ \A a \in Actors : Busy(a) /\ ~Alone(a) => a \in mixed
    /\ mixed # {} => muddled

\* The manifest, once there, stays.
ManifestStays ==
    /\ avail => local # 0
    /\ \A a \in Actors : at[a].seen # 0 => local # 0

BadgeFollows ==
    /\ \A a \in Actors \ mixed : Alone(a) => Knows(at[a], local, cache.build)
    /\ ~muddled => \A a \in Actors : Alone(a) => Shown(a, at[a], local, cache.build, avail)
    /\ ~muddled /\ AtRest => RightBadge(local, cache.build, avail)

BadgeInv == BadgeTypes /\ MixedAreMarked /\ ManifestStays /\ BadgeFollows

LEMMA Held ==
    ASSUME BadgeInv, NEW me \in Actors
    PROVE  /\ at[me] \in Goroutine /\ at \in [Actors -> Goroutine]
           /\ steam \in Nat \ {0} /\ local \in Nat /\ avail \in BOOLEAN
           /\ cache \in [build : Nat, fresh : BOOLEAN] /\ cache.build \in Nat
           /\ at[me].seen # 0 => local # 0
           /\ avail => local # 0
BY DEF BadgeInv, BadgeTypes, ManifestStays

\* Who has nothing in hand knows nothing that could be wrong.
LEMMA RestKnows ==
    ASSUME NEW g, NEW l, NEW b,
           g.pc \in {"idle", "settle", "decide", "go", "run", "report", "restart", "finish"}
    PROVE  Knows(g, l, b)
BY DEF Knows, SeenIsLocal, ToldIsKnown, AnswerIsCached, GotIsCached

\* What the history records of a step.
LEMMA Marks ==
    ASSUME BadgeInv, BadgeNext
    PROVE  /\ \A a \in mixed' : a \in Actors /\ Busy(a)'
           /\ \A a \in Actors : Busy(a)' /\ ~Alone(a)' => a \in mixed'
           /\ \A a \in mixed : Busy(a)' => a \in mixed'
           /\ \A a \in mixed' : a \in mixed \/ muddled'
           /\ FailsInformed => muddled'
           /\ muddled /\ ~muddled' => AgentRestarts \/ \E a \in Actors : SetsRight(a)
           /\ muddled' \in BOOLEAN
<1>1. mixed' = {a \in mixed : Busy(a)'} \union Mixing'
  BY DEF BadgeNext
<1>2. Mixing' = {a \in Actors : Busy(a)' /\ \E c \in Actors \ {a} : Busy(c)'}
  BY DEF Mixing
<1>3. /\ Mixing' # {} => muddled'
      /\ FailsInformed => muddled'
      /\ muddled /\ ~muddled' => AgentRestarts \/ \E a \in Actors : SetsRight(a)
      /\ muddled' \in BOOLEAN
  <2>1. muddled' = \/ Mixing' # {}
                   \/ FailsInformed
                   \/ muddled /\ ~AgentRestarts /\ ~\E a \in Actors : SetsRight(a)
    BY DEF BadgeNext
  <2> QED BY <2>1, Zenon
<1>4. \A a \in mixed : a \in Actors
  BY DEF BadgeInv, MixedAreMarked
<1>5. \A a \in mixed' : (a \in mixed /\ Busy(a)') \/ a \in Mixing'
  BY <1>1
<1> QED
  BY <1>1, <1>2, <1>3, <1>4, <1>5 DEF Alone

\* The pass that sets the badge right is not mixed, has its comparison in hand
\* and is done with it.
LEMMA SettingRight ==
    ASSUME BadgeInv, NEW me \in Actors, SetsRight(me)
    PROVE  /\ me \notin mixed /\ Busy(me)
           /\ at'[me].pc # at[me].pc
           /\ Shown(me, at[me], local, cache.build, avail)
<1>1. at \in [Actors -> Goroutine]
  BY Held
<1>2. me \notin mixed
  BY DEF SetsRight
<1>3. CASE Record(me) /\ at[me].seen # 0 /\ at[me].got # 0
  <2>1. at[me].pc = "answered" /\ at'[me].pc \in {"idle", "decide"}
    BY <1>1, <1>3 DEF Record, Idle
  <2> QED BY <1>2, <1>3, <2>1 DEF Busy, Shown, Settled, Applying
<1>4. CASE AlreadyCurrent(me)
  <2>1. at[me].pc = "uptodate" /\ at'[me].pc = "finish"
    BY <1>1, <1>4 DEF AlreadyCurrent, Finish, Goroutine
  <2> QED BY <1>2, <2>1 DEF Busy, Shown, Settled, Applying
<1>5. CASE Installed(me)
  <2>1. at[me].pc = "clear" /\ at'[me].pc \in {"finish", "restart"}
    BY <1>1, <1>5 DEF Installed, Finish, Goto, Goroutine
  <2> QED BY <1>2, <2>1 DEF Busy, Shown, Settled, Applying
<1> QED BY <1>3, <1>4, <1>5 DEF SetsRight

\* What the rest of a goroutine's record has to be for this.
Same(a) == at'[a].pc = at[a].pc /\ at'[a].seen = at[a].seen /\ at'[a].got = at[a].got

\* One goroutine moves.  What it has to do for the invariant: to know what it
\* knew, and to leave the badge true if it was, or to have it muddled.
LEMMA OneMoves ==
    ASSUME BadgeInv, BadgeNext, ~AgentRestarts, NEW me \in Actors, BadgeTypes',
           \A a \in Actors \ {me} : Same(a),
           local # 0 => local' # 0, avail' => local' # 0, at'[me].seen # 0 => local' # 0,
           \/ Busy(me) \/ Busy(me)'
           \/ UNCHANGED <<local, avail>> /\ cache'.build = cache.build,
           Knows(at[me], local, cache.build) => Knows(at'[me], local', cache'.build),
           Knows(at[me], local, cache.build) /\ Shown(me, at[me], local, cache.build, avail)
               => Shown(me, at'[me], local', cache'.build, avail') \/ FailsInformed
    PROVE  BadgeInv'
<1>1. /\ \A a \in Actors \ {me} : Busy(a)' <=> Busy(a)
      /\ Alone(me)' <=> Alone(me)
  BY DEF Same, Busy, Alone
<1>2. ASSUME NEW a \in Actors \ {me}, SetsRight(a) PROVE FALSE
  BY <1>2, SettingRight DEF Same
<1>3. MixedAreMarked'
  <2> SUFFICES ASSUME mixed' # {}, ~muddled' PROVE FALSE
    BY Marks DEF MixedAreMarked
  <2>1. PICK a \in mixed' : a \in mixed /\ Busy(a)'
    BY Marks
  <2>2. a \in Actors /\ Busy(a) /\ muddled
    BY <2>1 DEF BadgeInv, MixedAreMarked
  <2>3. SetsRight(me)
    BY <1>2, <2>2, Marks
  <2>4. me \notin mixed /\ Busy(me)
    BY <2>3, SettingRight
  <2> QED
    BY <2>1, <2>2, <2>4 DEF BadgeInv, MixedAreMarked, Alone
<1>4. ManifestStays'
  BY DEF BadgeInv, ManifestStays, Same
<1>5. Alone(me) /\ me \notin mixed => Knows(at'[me], local', cache'.build)
  BY DEF BadgeInv, BadgeFollows
<1>6. ASSUME Alone(me), ~muddled' PROVE Shown(me, at'[me], local', cache'.build, avail')
  <2>1. CASE SetsRight(me)
    <3>1. me \notin mixed /\ Shown(me, at[me], local, cache.build, avail)
      BY <2>1, SettingRight
    <3>2. Knows(at[me], local, cache.build)
      BY <1>6, <3>1 DEF BadgeInv, BadgeFollows
    <3> QED
      BY <1>6, <3>1, <3>2, Marks
  <2>2. CASE ~SetsRight(me)
    <3>1. ~muddled
      BY <1>2, <1>6, <2>2, Marks
    <3>2. me \notin mixed
      BY <3>1 DEF BadgeInv, MixedAreMarked
    <3>3. /\ Knows(at[me], local, cache.build)
          /\ Shown(me, at[me], local, cache.build, avail)
      BY <1>6, <3>1, <3>2 DEF BadgeInv, BadgeFollows
    <3> QED
      BY <1>6, <3>3, Marks
  <2> QED
    BY <2>1, <2>2
<1>7. ASSUME AtRest', ~muddled' PROVE RightBadge(local', cache'.build, avail')
  <2>1. Alone(me)' /\ at'[me].pc \in {"idle", "settle"}
    BY <1>7 DEF AtRest, Alone, Busy
  <2> QED
    BY <1>1, <1>6, <1>7, <2>1 DEF Shown, Settled
<1>8. ASSUME NEW a \in Actors \ {me}, Alone(a)', ~Busy(a)
      PROVE  /\ Knows(at'[a], local', cache'.build)
             /\ ~muddled' => Shown(a, at'[a], local', cache'.build, avail')
  <2>1. at'[a].pc \in {"idle", "settle"}
    BY <1>8 DEF Same, Busy
  <2>2. AtRest'
    BY <1>1, <1>8 DEF AtRest, Alone
  <2> QED
    BY <1>7, <2>1, <2>2, RestKnows DEF Shown, Settled, Applying
<1>9. ASSUME NEW a \in Actors \ {me}, Alone(a)', Busy(a)
      PROVE  /\ a \notin mixed' => Knows(at'[a], local', cache'.build)
             /\ ~muddled' => Shown(a, at'[a], local', cache'.build, avail')
  <2>1. ~Busy(me)' /\ Busy(a)'
    BY <1>1, <1>9 DEF Alone
  <2>2. CASE Busy(me)
    <3>1. a \in mixed
      BY <1>9, <2>2 DEF BadgeInv, MixedAreMarked, Alone
    <3>2. a \in mixed' /\ muddled'
      BY <1>3, <2>1, <3>1, Marks DEF MixedAreMarked
    <3> QED
      BY <3>2
  <2>3. CASE ~Busy(me)
    <3>1. Alone(a) /\ UNCHANGED <<local, avail>> /\ cache'.build = cache.build
      BY <1>1, <1>9, <2>1, <2>3 DEF Alone
    <3>2. ~muddled' => ~muddled
      BY <1>2, <2>3, SettingRight, Marks
    <3>3. a \notin mixed' => a \notin mixed
      BY <2>1, Marks
    <3>4. /\ Knows(at[a], local, cache.build) <=> Knows(at'[a], local', cache'.build)
          /\ Shown(a, at[a], local, cache.build, avail)
                <=> Shown(a, at'[a], local', cache'.build, avail')
      BY <3>1 DEF Same, Knows, SeenIsLocal, ToldIsKnown, AnswerIsCached, GotIsCached, Shown,
                  Settled, Applying, RightBadge
    <3> QED
      BY <3>1, <3>2, <3>3, <3>4 DEF BadgeInv, BadgeFollows
  <2> QED
    BY <2>2, <2>3
<1>10. ASSUME me \notin mixed', Alone(me) PROVE Knows(at'[me], local', cache'.build)
  <2>1. CASE me \notin mixed
    BY <1>5, <1>10, <2>1
  <2>2. CASE me \in mixed
    <3>1. at'[me].pc \in {"idle", "settle"}
      BY <1>10, <2>2, Marks DEF Busy
    <3> QED
      BY <3>1, RestKnows
  <2> QED
    BY <2>1, <2>2
<1>11. BadgeFollows'
  BY <1>1, <1>6, <1>7, <1>8, <1>9, <1>10 DEF BadgeFollows
<1> QED
  BY <1>3, <1>4, <1>11 DEF BadgeInv

\* Nobody moves, and neither do the builds and the badge.
LEMMA NobodyMoves ==
    ASSUME BadgeInv, BadgeNext, ~AgentRestarts, BadgeTypes', \A a \in Actors : Same(a),
           UNCHANGED <<local, avail>>, cache'.build = cache.build
    PROVE  BadgeInv'
<1>1. \A a \in Actors : Busy(a)' <=> Busy(a)
  BY DEF Same, Busy
<1>2. \A a \in Actors : ~SetsRight(a)
  BY SettingRight DEF Same
<1>3. ~muddled' => ~muddled
  BY <1>2, Marks
<1>4. \A a \in mixed : a \in mixed'
  BY <1>1, Marks DEF BadgeInv, MixedAreMarked
<1>5. MixedAreMarked'
  <2> SUFFICES ASSUME mixed' # {}, ~muddled' PROVE FALSE
    BY Marks DEF MixedAreMarked
  <2> QED
    BY <1>3, Marks DEF BadgeInv, MixedAreMarked
<1>6. ManifestStays'
  BY DEF BadgeInv, ManifestStays, Same
<1>7. \A a \in Actors :
        /\ Alone(a)' <=> Alone(a)
        /\ Knows(at[a], local, cache.build) => Knows(at'[a], local', cache'.build)
        /\ Shown(a, at[a], local, cache.build, avail)
              => Shown(a, at'[a], local', cache'.build, avail')
  <2> SUFFICES ASSUME NEW a \in Actors
               PROVE  /\ Alone(a)' <=> Alone(a)
                      /\ Knows(at[a], local, cache.build) => Knows(at'[a], local', cache'.build)
                      /\ Shown(a, at[a], local, cache.build, avail)
                            => Shown(a, at'[a], local', cache'.build, avail')
    OBVIOUS
  <2>1. Alone(a)' <=> Alone(a)
    BY <1>1 DEF Alone
  <2>2. /\ Knows(at[a], local, cache.build) => Knows(at'[a], local', cache'.build)
        /\ Shown(a, at[a], local, cache.build, avail)
              => Shown(a, at'[a], local', cache'.build, avail')
    BY DEF Same, Knows, SeenIsLocal, ToldIsKnown, AnswerIsCached, GotIsCached, Shown, Settled,
           Applying, RightBadge
  <2> QED
    BY <2>1, <2>2
<1>8. BadgeFollows'
  <2>1. AtRest' /\ ~muddled' => RightBadge(local', cache'.build, avail')
    BY <1>1, <1>3 DEF BadgeInv, BadgeFollows, AtRest, RightBadge
  <2> QED
    BY <1>3, <1>4, <1>7, <2>1 DEF BadgeInv, BadgeFollows
<1> QED
  BY <1>5, <1>6, <1>8 DEF BadgeInv

\* Most steps of a goroutine leave the builds and the badge alone.
LEMMA GoesOn ==
    ASSUME BadgeInv, BadgeNext, ~AgentRestarts, NEW me \in Actors,
           NEW q \in Goroutine, at' = [at EXCEPT ![me] = q],
           UNCHANGED <<steam, local, avail, cache>>, q.seen # 0 => local # 0,
           Knows(at[me], local, cache.build) => Knows(q, local, cache.build),
           Knows(at[me], local, cache.build) /\ Shown(me, at[me], local, cache.build, avail)
               => Shown(me, q, local, cache.build, avail) \/ FailsInformed
    PROVE  BadgeInv'
<1>1. at' \in [Actors -> Goroutine] /\ at'[me] = q /\ \A a \in Actors \ {me} : Same(a)
  BY Held DEF Same
<1>2. BadgeTypes'
  BY <1>1, Marks DEF BadgeInv, BadgeTypes
<1>3. avail' => local' # 0
  BY Held
<1> QED
  BY <1>1, <1>2, <1>3, OneMoves


\* A Run that ends, with the badge true or as it was.
LEMMA ToFinish ==
    ASSUME NEW me \in Actors, BadgeInv, Finish(me, "ok") \/ Finish(me, "error")
                  \/ Finish(me, "unstopped") \/ Finish(me, "unstarted")
    PROVE  \E q \in Goroutine : /\ at' = [at EXCEPT ![me] = q]
                                /\ q.pc = "finish" /\ q.seen = at[me].seen
<1>1. PICK res \in {"ok", "error", "unstopped", "unstarted"} : Finish(me, res)
  OBVIOUS
<1> DEFINE q == [at[me] EXCEPT !.pc = "finish", !.res = res]
<1>2. at' = [at EXCEPT ![me] = q]
  BY <1>1, Held DEF Finish
<1>3. q \in Goroutine /\ q.pc = "finish" /\ q.seen = at[me].seen
  BY Held DEF Goroutine, PCs, Running
<1> QED
  BY <1>2, <1>3

\* A goroutine that goes to another pc with what it has.
LEMMA ToPC ==
    ASSUME NEW me \in Actors, BadgeInv, NEW pc \in PCs, at' = [at EXCEPT ![me].pc = pc]
    PROVE  \E q \in Goroutine : /\ at' = [at EXCEPT ![me] = q]
                                /\ q.pc = pc /\ q.seen = at[me].seen /\ q.got = at[me].got
<1> DEFINE q == [at[me] EXCEPT !.pc = pc]
<1>1. at' = [at EXCEPT ![me] = q]
  BY Held
<1>2. q \in Goroutine /\ q.pc = pc /\ q.seen = at[me].seen /\ q.got = at[me].got
  BY Held DEF Goroutine
<1> QED
  BY <1>1, <1>2

LEMMA AnswerFollows ==
    ASSUME BadgeInv, BadgeNext, ~AgentRestarts, NEW me \in Actors,
           AnswerFromCache(me) \/ SteamAnswers(me)
    PROVE  BadgeInv'
<1> DEFINE g == at[me]
<1>1. g \in Goroutine /\ UNCHANGED <<steam, local, avail, cache>>
  BY Held DEF AnswerFromCache, SteamAnswers, world, known
<1>2. CASE AnswerFromCache(me)
  <2> DEFINE q == [g EXCEPT !.pc = "answered", !.got = cache.build]
  <2>1. at' = [at EXCEPT ![me] = q] /\ g.pc = "asking"
    BY <1>2, Held DEF AnswerFromCache, UsesCache
  <2>2. q \in Goroutine /\ q.pc = "answered" /\ q.got = cache.build /\ q.seen = g.seen
    BY Held DEF Goroutine, PCs, Checking
  <2> HIDE DEF q
  <2>3. /\ Knows(g, local, cache.build) => Knows(q, local, cache.build)
        /\ Shown(me, g, local, cache.build, avail) => Shown(me, q, local, cache.build, avail)
    BY <2>1, <2>2 DEF Knows, SeenIsLocal, ToldIsKnown, AnswerIsCached, GotIsCached, Shown, Settled,
                      Applying
  <2> QED
    BY <1>1, <2>1, <2>2, <2>3, Held, GoesOn
<1>3. CASE SteamAnswers(me)
  <2>1. PICK pc \in {"told", "run_told"} :
          /\ at' = [at EXCEPT ![me].pc = pc, ![me].got = steam]
          /\ g.pc = IF pc = "told" THEN "asking" ELSE "run_asking"
    <3>1. DOMAIN Told = {"asking", "run_asking"} /\ g.pc \in {"asking", "run_asking"}
      BY <1>3 DEF Told, SteamAnswers
    <3>2. at' = [at EXCEPT ![me].pc = Told[g.pc], ![me].got = steam]
      BY <1>3, Held DEF SteamAnswers
    <3>3. Told["asking"] = "told" /\ Told["run_asking"] = "run_told"
      BY DEF Told
    <3> QED BY <3>1, <3>2, <3>3
  <2> DEFINE q == [g EXCEPT !.pc = pc, !.got = steam]
  <2>2. at' = [at EXCEPT ![me] = q]
    BY <2>1, Held
  <2>3. q \in Goroutine /\ q.pc = pc /\ q.got = steam /\ q.seen = g.seen
    BY <2>1, Held DEF Goroutine, PCs, Checking, Running
  <2> HIDE DEF q
  <2>4. steam # 0 /\ (g.seen # 0 => local # 0)
    BY Held
  <2>5. /\ Knows(g, local, cache.build) => Knows(q, local, cache.build)
        /\ Shown(me, g, local, cache.build, avail) => Shown(me, q, local, cache.build, avail)
    BY <2>1, <2>3, <2>4 DEF Knows, SeenIsLocal, ToldIsKnown, AnswerIsCached, GotIsCached, Shown,
                            Settled, Applying
  <2> QED
    BY <1>1, <2>2, <2>3, <2>4, <2>5, GoesOn
<1> QED
  BY <1>2, <1>3

\* The end of a Run that changes nothing more.
LEMMA RunEnds ==
    ASSUME BadgeInv, BadgeNext, ~AgentRestarts, NEW me \in Actors,
           Finish(me, "ok") \/ Finish(me, "error")
                  \/ Finish(me, "unstopped") \/ Finish(me, "unstarted"),
           UNCHANGED <<steam, local, avail, cache>>,
           Knows(at[me], local, cache.build) /\ Shown(me, at[me], local, cache.build, avail)
               => RightBadge(local, cache.build, avail) \/ FailsInformed
    PROVE  BadgeInv'
<1>1. PICK q \in Goroutine : /\ at' = [at EXCEPT ![me] = q]
                             /\ q.pc = "finish" /\ q.seen = at[me].seen
  BY ToFinish
<1>2. Knows(q, local, cache.build)
  BY <1>1, RestKnows
<1>3. RightBadge(local, cache.build, avail) => Shown(me, q, local, cache.build, avail)
  BY <1>1 DEF Shown, Applying
<1> QED
  BY <1>1, <1>2, <1>3, Held, GoesOn

LEMMA SilenceFollows ==
    ASSUME BadgeInv, BadgeNext, ~AgentRestarts, NEW me \in Actors, SteamIsSilent(me)
    PROVE  BadgeInv'
<1> DEFINE g == at[me]
<1>1. UNCHANGED <<steam, local, avail, cache>>
  BY DEF SteamIsSilent, world, known
<1>2. CASE g.pc = "asking"
  <2> DEFINE q == [g EXCEPT !.pc = "answered", !.got = 0]
  <2>1. at' = [at EXCEPT ![me] = q]
    BY <1>2, Held DEF SteamIsSilent
  <2>2. q \in Goroutine /\ q.pc = "answered" /\ q.got = 0 /\ q.seen = g.seen
    BY Held DEF Goroutine, PCs, Checking
  <2> HIDE DEF q
  <2>3. /\ Knows(g, local, cache.build) => Knows(q, local, cache.build)
        /\ Shown(me, g, local, cache.build, avail) => Shown(me, q, local, cache.build, avail)
    BY <1>2, <2>2 DEF Knows, SeenIsLocal, ToldIsKnown, AnswerIsCached, GotIsCached, Shown, Settled,
                      Applying
  <2> QED
    BY <1>1, <2>1, <2>2, <2>3, Held, GoesOn
<1>3. CASE g.pc = "run_asking"
  <2>1. Finish(me, "error")
    BY <1>3 DEF SteamIsSilent
  <2>2. Shown(me, g, local, cache.build, avail) => RightBadge(local, cache.build, avail)
    BY <1>3 DEF Shown, Settled
  <2> QED
    BY <1>1, <2>1, <2>2, RunEnds
<1>4. g.pc \in {"asking", "run_asking"}
  BY DEF SteamIsSilent, Told
<1> QED
  BY <1>2, <1>3, <1>4

LEMMA StoredFollows ==
    ASSUME BadgeInv, BadgeNext, ~AgentRestarts, NEW me \in Actors, StoreAnswer(me)
    PROVE  BadgeInv'
<1> DEFINE g == at[me]
<1>1. /\ g.pc \in {"told", "run_told"} /\ cache' = [build |-> g.got, fresh |-> TRUE]
      /\ UNCHANGED <<steam, local, avail>>
  BY DEF StoreAnswer, world
<1>2. PICK pc \in {"answered", "uptodate", "probe"} :
        /\ at' = [at EXCEPT ![me].pc = pc]
        /\ g.pc = "told" => pc = "answered"
        /\ g.pc = "run_told" => pc = IF g.got = g.seen THEN "uptodate" ELSE "probe"
  BY <1>1 DEF StoreAnswer, Goto
<1>3. pc \in PCs
  BY <1>2 DEF PCs, Checking, Running
<1>4. PICK q \in Goroutine : /\ at' = [at EXCEPT ![me] = q]
                             /\ q.pc = pc /\ q.seen = g.seen /\ q.got = g.got
  BY <1>2, <1>3, ToPC
<1>5. cache' \in [build : Nat, fresh : BOOLEAN] /\ cache'.build = g.got
  BY <1>1, Held DEF Goroutine
<1>6. at' \in [Actors -> Goroutine] /\ at'[me] = q /\ \A a \in Actors \ {me} : Same(a)
  BY <1>4, Held DEF Same
<1>7. BadgeTypes' /\ Busy(me)
  BY <1>1, <1>5, <1>6, Marks DEF BadgeInv, BadgeTypes, Busy
<1>8. Knows(g, local, cache.build) => Knows(q, local, cache'.build)
  BY <1>1, <1>2, <1>4, <1>5
  DEF Knows, SeenIsLocal, ToldIsKnown, AnswerIsCached, GotIsCached
<1>9. Knows(g, local, cache.build) /\ Shown(me, g, local, cache.build, avail)
        => Shown(me, q, local, cache'.build, avail)
  BY <1>1, <1>2, <1>4, <1>5 DEF Knows, ToldIsKnown, Shown, Settled, Applying
<1> QED
  BY <1>1, <1>4, <1>6, <1>7, <1>8, <1>9, Held, OneMoves

LEMMA RecordFollows ==
    ASSUME BadgeInv, BadgeNext, ~AgentRestarts, NEW me \in Actors, Record(me)
    PROVE  BadgeInv'
<1> DEFINE g == at[me]
<1> DEFINE fails == g.seen = 0 \/ g.got = 0
<1>1. PICK shown \in BOOLEAN : shown = IF fails THEN avail ELSE Outdated(me)
  BY Held DEF Outdated
<1>2. PICK q : q = IF me = "auto" /\ shown /\ AutoUpdate
                   THEN [Idle EXCEPT !.pc = "decide"] ELSE Idle
  OBVIOUS
<1>3. /\ g.pc = "answered" /\ avail' = shown /\ UNCHANGED <<steam, local, cache>>
      /\ at' = [at EXCEPT ![me] = q]
  BY <1>1, <1>2 DEF Record, world
<1>4. q \in Goroutine /\ (q.pc = "idle" \/ (q.pc = "decide" /\ shown)) /\ q.seen = 0
  BY <1>2 DEF Idle, Goroutine, PCs
<1>5. at' \in [Actors -> Goroutine] /\ at'[me] = q /\ \A a \in Actors \ {me} : Same(a)
  BY <1>3, <1>4, Held DEF Same
<1>6. BadgeTypes' /\ Busy(me)
  BY <1>1, <1>3, <1>5, Marks DEF BadgeInv, BadgeTypes, Busy
<1>7. Knows(q, local, cache.build)
  BY <1>4, RestKnows
<1>8. shown => local # 0
  BY <1>1, Held DEF Outdated
<1>9. Knows(g, local, cache.build) /\ Shown(me, g, local, cache.build, avail)
        => RightBadge(local, cache.build, shown)
  <2>1. CASE fails
    BY <1>1, <1>3, <2>1, Held
    DEF Knows, SeenIsLocal, Shown, Settled, RightBadge
  <2>2. CASE ~fails
    BY <1>1, <1>3, <2>2, Held
    DEF Knows, SeenIsLocal, AnswerIsCached, RightBadge, Outdated
  <2> QED
    BY <2>1, <2>2
<1>10. RightBadge(local, cache.build, shown) => Shown(me, q, local, cache.build, shown)
  BY <1>4, <1>8 DEF Shown, Applying
<1> QED
  BY <1>3, <1>4, <1>5, <1>6, <1>7, <1>8, <1>9, <1>10, OneMoves

LEMMA RunBeginFollows ==
    ASSUME BadgeInv, BadgeNext, ~AgentRestarts, NEW me \in Actors, RunBegin(me)
    PROVE  BadgeInv'
<1> DEFINE g == at[me]
<1>1. g.pc = "run" /\ UNCHANGED <<steam, local, avail, cache>>
  BY DEF RunBegin, world, known
<1>2. CASE local = 0
  <2>1. Finish(me, "error")
    BY <1>2 DEF RunBegin
  <2>2. Shown(me, g, local, cache.build, avail) => RightBadge(local, cache.build, avail)
    BY <1>1 DEF Shown, Settled
  <2> QED
    BY <1>1, <2>1, <2>2, RunEnds
<1>3. CASE local # 0
  <2> DEFINE q == [g EXCEPT !.pc = "run_asking", !.seen = local]
  <2>1. at' = [at EXCEPT ![me] = q]
    BY <1>3, Held DEF RunBegin
  <2>2. q \in Goroutine /\ q.pc = "run_asking" /\ q.seen = local
    BY Held DEF Goroutine, PCs, Running
  <2> HIDE DEF q
  <2>3. Knows(q, local, cache.build)
    BY <2>2 DEF Knows, SeenIsLocal, ToldIsKnown, AnswerIsCached, GotIsCached
  <2>4. Shown(me, g, local, cache.build, avail) => Shown(me, q, local, cache.build, avail)
    BY <1>1, <2>2 DEF Shown, Settled, Applying
  <2> QED
    BY <1>1, <1>3, <2>1, <2>2, <2>3, <2>4, GoesOn
<1> QED
  BY <1>2, <1>3

\* An update that ends well: the badge falls, and the cache holds what is
\* installed.
LEMMA ClearedFollows ==
    ASSUME BadgeInv, BadgeNext, ~AgentRestarts, NEW me \in Actors,
           AlreadyCurrent(me) \/ Installed(me)
    PROVE  BadgeInv'
<1>1. /\ avail' = FALSE /\ cache' = [build |-> local, fresh |-> TRUE]
      /\ UNCHANGED <<steam, local>> /\ Busy(me)
  BY DEF AlreadyCurrent, Installed, ClearAvailable, world, Busy
<1>2. PICK q \in Goroutine : /\ at' = [at EXCEPT ![me] = q]
                             /\ q.pc \in {"finish", "restart"} /\ q.seen = at[me].seen
  <2>1. CASE Finish(me, "ok")
    BY <2>1, ToFinish
  <2>2. CASE at' = [at EXCEPT ![me].pc = "restart"]
    <3>1. PICK pc \in PCs : pc = "restart"
      BY DEF PCs, Running
    <3>2. at' = [at EXCEPT ![me].pc = pc]
      BY <2>2, <3>1
    <3>3. PICK q \in Goroutine : /\ at' = [at EXCEPT ![me] = q]
                                 /\ q.pc = pc /\ q.seen = at[me].seen /\ q.got = at[me].got
      BY <3>1, <3>2, ToPC
    <3> QED
      BY <3>1, <3>3
  <2> QED
    BY <2>1, <2>2 DEF AlreadyCurrent, Installed, Goto
<1>3. at' \in [Actors -> Goroutine] /\ at'[me] = q /\ \A a \in Actors \ {me} : Same(a)
  BY <1>2, Held DEF Same
<1>4. cache' \in [build : Nat, fresh : BOOLEAN] /\ cache'.build = local
  BY <1>1, Held
<1>5. BadgeTypes'
  BY <1>1, <1>3, <1>4, Marks DEF BadgeInv, BadgeTypes
<1>6. Knows(q, local, cache'.build)
  BY <1>2, RestKnows
<1>7. Shown(me, q, local, cache'.build, avail')
  BY <1>1, <1>2, <1>4 DEF Shown, Settled, Applying, RightBadge
<1> QED
  BY <1>1, <1>2, <1>3, <1>5, <1>6, <1>7, Held, OneMoves

LEMMA StopFollows ==
    ASSUME BadgeInv, BadgeNext, ~AgentRestarts, NEW me \in Actors, Probe(me) \/ StopUnit(me)
    PROVE  BadgeInv'
<1> DEFINE g == at[me]
<1>1. UNCHANGED <<steam, local, avail, cache>> /\ g.pc \in {"probe", "stop"}
  BY DEF Probe, StopUnit, world, known
<1>2. PICK q \in Goroutine : /\ at' = [at EXCEPT ![me] = q]
                             /\ q.pc \in {"stop", "steamcmd"}
                             /\ q.seen = g.seen /\ q.got = g.got
  <2>1. CASE Probe(me)
    <3>1. PICK pc \in {"stop", "steamcmd"} :
            at' = [at EXCEPT ![me].was = (unit = "active"), ![me].pc = pc]
      BY <2>1 DEF Probe
    <3>2. PICK was \in BOOLEAN : was = (unit = "active")
      OBVIOUS
    <3> DEFINE q == [g EXCEPT !.was = was, !.pc = pc]
    <3>3. at' = [at EXCEPT ![me] = q]
      BY <3>1, <3>2, Held
    <3>4. q \in Goroutine /\ q.pc = pc /\ q.seen = g.seen /\ q.got = g.got
      BY <3>1, <3>2, Held DEF Goroutine, PCs, Running
    <3> QED
      BY <3>1, <3>3, <3>4
  <2>2. CASE StopUnit(me)
    <3> DEFINE q == [g EXCEPT !.pc = "steamcmd", !.stopped = TRUE]
    <3>1. at' = [at EXCEPT ![me] = q]
      BY <2>2, Held DEF StopUnit
    <3>2. q \in Goroutine /\ q.pc = "steamcmd" /\ q.seen = g.seen /\ q.got = g.got
      BY Held DEF Goroutine, PCs, Running
    <3> QED
      BY <3>1, <3>2
  <2> QED
    BY <2>1, <2>2
<1>3. /\ Knows(g, local, cache.build) => Knows(q, local, cache.build)
      /\ Shown(me, g, local, cache.build, avail) => Shown(me, q, local, cache.build, avail)
  BY <1>1, <1>2 DEF Knows, SeenIsLocal, ToldIsKnown, AnswerIsCached, GotIsCached, Shown, Settled,
                    Applying
<1> QED
  BY <1>1, <1>2, <1>3, Held, GoesOn

\* A Run that gives up with Steam's new build in the cache: the badge of the loop
\* is up for it, and that of the job is muddled.
LEMMA GivenUpFollows ==
    ASSUME BadgeInv, BadgeNext, ~AgentRestarts, NEW me \in Actors, StopTimesOut(me) \/ GiveUp(me)
    PROVE  BadgeInv'
<1> DEFINE g == at[me]
<1>1. UNCHANGED <<steam, local, avail, cache>> /\ g.pc \in {"stop", "giveup"}
  BY DEF StopTimesOut, GiveUp, known
<1>2. Finish(me, "error") \/ Finish(me, "unstopped") \/ Finish(me, "unstarted")
  BY DEF StopTimesOut, GiveUp
<1>3. Knows(g, local, cache.build) /\ Shown(me, g, local, cache.build, avail)
        => RightBadge(local, cache.build, avail) \/ FailsInformed
  <2>1. CASE me = "job"
    BY <2>1 DEF FailsInformed
  <2>2. CASE me # "job"
    BY <1>1, <2>2, Held DEF Knows, SeenIsLocal, GotIsCached, Shown, Applying, RightBadge
  <2> QED
    BY <2>1, <2>2
<1> QED
  BY <1>1, <1>2, <1>3, RunEnds

LEMMA SteamcmdFollows ==
    ASSUME BadgeInv, BadgeNext, ~AgentRestarts, NEW me \in Actors,
           SteamcmdInstalls(me) \/ SteamcmdFails(me)
    PROVE  BadgeInv'
<1> DEFINE g == at[me]
<1>1. /\ g.pc = "steamcmd" /\ local' \in {local, steam} /\ UNCHANGED <<steam, avail, cache>>
      /\ at' = [at EXCEPT ![me].pc = "verify"] /\ Busy(me)
  BY DEF SteamcmdInstalls, SteamcmdFails, Goto, world, known, Busy
<1>2. "verify" \in PCs
  BY DEF PCs, Running
<1>3. PICK q \in Goroutine : /\ at' = [at EXCEPT ![me] = q]
                             /\ q.pc = "verify" /\ q.seen = g.seen /\ q.got = g.got
  BY <1>1, <1>2, ToPC
<1>4. at' \in [Actors -> Goroutine] /\ at'[me] = q /\ \A a \in Actors \ {me} : Same(a)
  BY <1>3, Held DEF Same
<1>5. local' \in Nat /\ (local # 0 => local' # 0)
  BY <1>1, Held
<1>6. BadgeTypes'
  BY <1>1, <1>4, <1>5, Marks DEF BadgeInv, BadgeTypes
<1>7. Knows(g, local, cache.build) => Knows(q, local', cache.build)
  BY <1>1, <1>3 DEF Knows, SeenIsLocal, ToldIsKnown, AnswerIsCached, GotIsCached
<1>8. Shown(me, g, local, cache.build, avail) => Shown(me, q, local', cache.build, avail)
  BY <1>1, <1>3, <1>5 DEF Shown, Settled, Applying
<1> QED
  BY <1>1, <1>3, <1>4, <1>5, <1>6, <1>7, <1>8, Held, OneMoves

LEMMA VerifyFollows ==
    ASSUME BadgeInv, BadgeNext, ~AgentRestarts, NEW me \in Actors, Verify(me)
    PROVE  BadgeInv'
<1> DEFINE g == at[me]
<1>1. PICK pc \in {"clear", "giveup"} :
        at' = [at EXCEPT ![me].pc = pc] /\ (pc = "clear" <=> local = g.got)
  BY DEF Verify, Goto
<1>2. g.pc = "verify" /\ UNCHANGED <<steam, local, avail, cache>> /\ pc \in PCs
  BY <1>1 DEF Verify, world, known, PCs, Running
<1>3. PICK q \in Goroutine : /\ at' = [at EXCEPT ![me] = q]
                             /\ q.pc = pc /\ q.seen = g.seen /\ q.got = g.got
  BY <1>1, <1>2, ToPC
<1>4. /\ Knows(g, local, cache.build) => Knows(q, local, cache.build)
      /\ Shown(me, g, local, cache.build, avail) => Shown(me, q, local, cache.build, avail)
  BY <1>1, <1>2, <1>3 DEF Knows, SeenIsLocal, ToldIsKnown, AnswerIsCached, GotIsCached, Shown,
                          Settled, Applying
<1> QED
  BY <1>2, <1>3, <1>4, Held, GoesOn

LEMMA RestartFollows ==
    ASSUME BadgeInv, BadgeNext, ~AgentRestarts, NEW me \in Actors, RestartUnit(me)
    PROVE  BadgeInv'
<1>1. at[me].pc = "restart" /\ UNCHANGED <<steam, local, avail, cache>>
  BY DEF RestartUnit, known
<1>2. Finish(me, "ok") \/ Finish(me, "unstarted")
  BY DEF RestartUnit
<1>3. Shown(me, at[me], local, cache.build, avail) => RightBadge(local, cache.build, avail)
  BY <1>1 DEF Shown, Settled
<1> QED
  BY <1>1, <1>2, <1>3, RunEnds

LEMMA EndFollows ==
    ASSUME BadgeInv, BadgeNext, ~AgentRestarts, NEW me \in Actors, End(me) \/ JobSettles(me)
    PROVE  BadgeInv'
<1> DEFINE g == at[me]
<1>1. g.pc \in {"finish", "settle"} /\ UNCHANGED <<steam, local, avail, cache>>
  BY DEF End, JobSettles, world, known
<1>2. PICK q \in Goroutine : /\ at' = [at EXCEPT ![me] = q] /\ q.pc \in {"idle", "settle", "report"}
                             /\ q.seen = 0 \/ q.seen = g.seen
  <2>1. CASE End(me)
    <3>1. at' = [at EXCEPT ![me] = After(me)]
      BY <2>1 DEF End
    <3>2. After(me) \in Goroutine /\ After(me).pc \in {"idle", "settle", "report"}
          /\ After(me).seen = 0
      BY DEF After, Idle, Goroutine, PCs
    <3> QED
      BY <3>1, <3>2
  <2>2. CASE JobSettles(me)
    <3>1. PICK pc \in PCs : pc = "idle"
      BY DEF PCs
    <3>2. at' = [at EXCEPT ![me].pc = pc]
      BY <2>2, <3>1 DEF JobSettles, Goto
    <3>3. PICK q \in Goroutine : /\ at' = [at EXCEPT ![me] = q]
                                 /\ q.pc = pc /\ q.seen = g.seen /\ q.got = g.got
      BY <3>1, <3>2, ToPC
    <3> QED
      BY <3>1, <3>3
  <2> QED
    BY <2>1, <2>2
<1>3. Knows(q, local, cache.build)
  BY <1>2, RestKnows
<1>4. Shown(me, g, local, cache.build, avail) => Shown(me, q, local, cache.build, avail)
  BY <1>1, <1>2 DEF Shown, Settled, Applying
<1> QED
  BY <1>1, <1>2, <1>3, <1>4, Held, GoesOn

\* autoPass, after its Check and after its Run.
LEMMA PassFollows ==
    ASSUME BadgeInv, BadgeNext, ~AgentRestarts, CountPlayers \/ ReportError
    PROVE  BadgeInv'
<1> DEFINE g == at["auto"]
<1>1. "auto" \in Actors
  BY DEF CountPlayers, ReportError
<1>2. PICK pc \in {"idle", "go"} :
        at' = [at EXCEPT !["auto"].pc = pc] /\ (g.pc = "report" => pc = "idle")
  BY DEF CountPlayers, ReportError, Goto
<1>3. /\ pc \in PCs /\ g.pc \in {"decide", "report"}
      /\ UNCHANGED <<steam, local, avail, cache>>
  BY <1>2 DEF PCs, CountPlayers, ReportError, world
<1>4. PICK q \in Goroutine : /\ at' = [at EXCEPT !["auto"] = q]
                             /\ q.pc = pc /\ q.seen = g.seen /\ q.got = g.got
  BY <1>1, <1>2, <1>3, ToPC
<1>5. Knows(q, local, cache.build)
  BY <1>2, <1>4, RestKnows
<1>6. Shown("auto", g, local, cache.build, avail) => Shown("auto", q, local, cache.build, avail)
  BY <1>2, <1>3, <1>4 DEF Shown, Settled, Applying
<1> QED
  BY <1>1, <1>3, <1>4, <1>5, <1>6, Held, GoesOn

\* A Run begins: those beside it are marked, which changes nothing of this.
LEMMA BegunFollows ==
    ASSUME BadgeInv, BadgeNext, ~AgentRestarts, NEW me \in Actors, NEW raced \in BOOLEAN,
           BeginRun(me, raced), UNCHANGED <<world, known>>,
           at[me].pc = IF me = "job" THEN "idle" ELSE "go"
    PROVE  BadgeInv'
<1> DEFINE g == at[me]
<1> DEFINE others == {c \in Actors \ {me} : InRun(c)}
<1>1. at' = [a \in Actors |->
               IF a = me THEN [g EXCEPT !.pc = "run", !.beside = others # {}, !.raced = raced]
               ELSE [at[a] EXCEPT !.beside = @ \/ a \in others]]
  BY DEF BeginRun
<1>2. /\ at'[me] \in Goroutine /\ at'[me].pc = "run" /\ at'[me].seen = g.seen
  BY <1>1, Held DEF Goroutine, PCs, Running
<1>3. ASSUME NEW a \in Actors \ {me} PROVE Same(a) /\ at'[a] \in Goroutine
  <2>1. at[a] \in Goroutine
    BY Held
  <2>2. PICK overlapped \in BOOLEAN : overlapped = (at[a].beside \/ a \in others)
    OBVIOUS
  <2>3. at'[a] = [at[a] EXCEPT !.beside = at[a].beside \/ a \in others]
    BY <1>1
  <2>4. at'[a] = [at[a] EXCEPT !.beside = overlapped]
    BY <2>2, <2>3
  <2> QED
    BY <2>1, <2>2, <2>4 DEF Goroutine, Same
<1>4. BadgeTypes'
  <2>1. at' \in [Actors -> Goroutine]
    BY <1>1, <1>2, <1>3
  <2> QED
    BY <2>1, Marks DEF BadgeInv, BadgeTypes, world, known
<1>5. UNCHANGED <<local, avail, cache>>
  BY DEF world, known
<1>6. Knows(at'[me], local, cache.build)
  BY <1>2, RestKnows
<1>7. Shown(me, g, local, cache.build, avail) => Shown(me, at'[me], local, cache.build, avail)
  BY <1>2 DEF Shown, Settled, Applying
<1> QED
  BY <1>2, <1>3, <1>4, <1>5, <1>6, <1>7, Held, OneMoves

\* POST /server/update/check, and the timer of the loop.
LEMMA AskFollows ==
    ASSUME BadgeInv, BadgeNext, ~AgentRestarts, Wake \/ CheckBegin
    PROVE  BadgeInv'
<1>1. PICK me \in Actors : /\ at[me].pc = "idle"
                           /\ at' = [at EXCEPT ![me].pc = "asking", ![me].seen = local]
  BY DEF Wake, CheckBegin
<1>2. UNCHANGED <<steam, local, avail, cache>>
  BY DEF Wake, CheckBegin, world, known
<1> DEFINE g == at[me]
<1> DEFINE q == [g EXCEPT !.pc = "asking", !.seen = local]
<1>3. at' = [at EXCEPT ![me] = q]
  BY <1>1, Held
<1>4. q \in Goroutine /\ q.pc = "asking" /\ q.seen = local
  BY Held DEF Goroutine, PCs, Checking
<1> HIDE DEF q
<1>5. Knows(q, local, cache.build)
  BY <1>4 DEF Knows, SeenIsLocal, ToldIsKnown, AnswerIsCached, GotIsCached
<1>6. Shown(me, g, local, cache.build, avail) => Shown(me, q, local, cache.build, avail)
  BY <1>1, <1>4 DEF Shown, Settled, Applying
<1> QED
  BY <1>2, <1>3, <1>4, <1>5, <1>6, GoesOn

\* Steam, time, systemd and the players.
LEMMA AroundFollows ==
    ASSUME BadgeInv, BadgeNext, ~AgentRestarts,
           \/ SteamPublishes \/ CacheExpires \/ UnitStopped \/ GameDies \/ GameBack
           \/ OperatorStarts \/ OperatorStops \/ PlayersMove
    PROVE  BadgeInv'
<1>1. /\ steam' \in Nat \ {0} /\ UNCHANGED <<local, avail>>
      /\ cache' = cache \/ cache' = [cache EXCEPT !.fresh = FALSE]
  BY DEF BadgeInv, BadgeTypes, SteamPublishes, CacheExpires, UnitStopped, GameDies, GameBack,
         OperatorStarts, OperatorStops, PlayersMove, SetUnit, world, known
<1>2. cache' \in [build : Nat, fresh : BOOLEAN] /\ cache'.build = cache.build
  BY <1>1 DEF BadgeInv, BadgeTypes
<1>3. CASE at' = at
  BY <1>1, <1>2, <1>3, NobodyMoves, Marks DEF BadgeInv, BadgeTypes, Same
<1>4. CASE at' = [a \in Actors |-> [at[a] EXCEPT !.disturbed = @ \/ InRun(a)]]
  <2>1. \A a \in Actors : Same(a) /\ at'[a] \in Goroutine
    BY <1>4 DEF BadgeInv, BadgeTypes, Goroutine, Same
  <2>2. at' \in [Actors -> Goroutine]
    BY <1>4, <2>1
  <2> QED
    BY <1>1, <1>2, <2>1, <2>2, NobodyMoves, Marks DEF BadgeInv, BadgeTypes
<1> QED
  BY <1>3, <1>4 DEF SteamPublishes, CacheExpires, UnitStopped, GameDies, GameBack,
                    OperatorStarts, OperatorStops, PlayersMove, SetUnit

LEMMA DeathFollows == ASSUME BadgeInv, BadgeNext, AgentRestarts PROVE BadgeInv'
<1>1. /\ at' = [a \in Actors |-> Idle] /\ cache' = [build |-> 0, fresh |-> FALSE]
      /\ avail' = FALSE /\ UNCHANGED <<steam, local>>
  BY DEF AgentRestarts, world
<1>2. Idle \in Goroutine /\ Idle.pc = "idle" /\ Idle.seen = 0
  BY DEF Idle, Goroutine, PCs
<1>3. at' \in [Actors -> Goroutine] /\ \A a \in Actors : ~Busy(a)'
  BY <1>1, <1>2 DEF Busy
<1>4. BadgeTypes'
  BY <1>1, <1>3, Marks DEF BadgeInv, BadgeTypes
<1>5. MixedAreMarked'
  BY <1>3, Marks DEF MixedAreMarked
<1>6. ManifestStays'
  BY <1>1, <1>2 DEF ManifestStays
<1>7. RightBadge(local', cache'.build, avail')
  BY <1>1 DEF RightBadge
<1>8. \A a \in Actors : /\ Knows(at'[a], local', cache'.build)
                        /\ Shown(a, at'[a], local', cache'.build, avail')
  BY <1>1, <1>2, <1>7, RestKnows DEF Shown, Applying
<1> QED
  BY <1>4, <1>5, <1>6, <1>7, <1>8 DEF BadgeInv, BadgeFollows

LEMMA BadgeInitInv == BadgeInit => BadgeInv
<1> SUFFICES ASSUME BadgeInit PROVE BadgeInv
  OBVIOUS
<1>1. /\ at = [a \in Actors |-> Idle] /\ cache = [build |-> 0, fresh |-> FALSE]
      /\ avail = FALSE /\ steam = 1 /\ local \in {0, 1} /\ mixed = {} /\ muddled = FALSE
  BY DEF BadgeInit, Init, FreshMemory
<1>2. Idle \in Goroutine /\ Idle.pc = "idle" /\ Idle.seen = 0
  BY DEF Idle, Goroutine, PCs
<1>3. at \in [Actors -> Goroutine] /\ \A a \in Actors : ~Busy(a)
  BY <1>1, <1>2 DEF Busy
<1>4. at \in [Actors -> Goroutine] /\ (\A a \in Actors : at[a] = Idle /\ at[a].seen = 0)
  BY <1>1, <1>2, <1>3
<1>7. BadgeTypes
  <2>1. steam \in Nat \ {0} /\ local \in Nat /\ cache \in [build : Nat, fresh : BOOLEAN]
    BY <1>1
  <2> QED
    BY <1>1, <1>4, <2>1 DEF BadgeTypes
<1>8. MixedAreMarked
  BY <1>1, <1>3 DEF MixedAreMarked
<1>9. ManifestStays
  BY <1>1, <1>4 DEF ManifestStays
<1>5. RightBadge(local, cache.build, avail)
  BY <1>1 DEF RightBadge
<1>6. \A a \in Actors : /\ Knows(at[a], local, cache.build)
                        /\ Shown(a, at[a], local, cache.build, avail)
  <2> SUFFICES ASSUME NEW a \in Actors
               PROVE  /\ Knows(at[a], local, cache.build)
                      /\ Shown(a, at[a], local, cache.build, avail)
    OBVIOUS
  <2>1. at[a].pc = "idle"
    BY <1>2, <1>4
  <2> QED
    BY <1>5, <2>1, RestKnows DEF Shown, Applying
<1> QED
  BY <1>5, <1>6, <1>7, <1>8, <1>9 DEF BadgeInv, BadgeFollows

\* The POSTs are of no consequence but for what they hand to the job's Run.
PostTypes == post \in [Posts -> [pc : PostPCs, beside : BOOLEAN]]

LEMMA PostsTyped == BadgeSpec => []PostTypes
<1>1. NoPost \in [pc : PostPCs, beside : BOOLEAN]
  BY DEF NoPost, PostPCs
<1>2. BadgeInit => PostTypes
  BY <1>1 DEF BadgeInit, Init, FreshMemory, PostTypes
<1>3. PostTypes /\ [BadgeNext]_badgeVars => PostTypes'
  <2> SUFFICES ASSUME PostTypes, Next \/ UNCHANGED vars PROVE PostTypes'
    BY DEF BadgeNext, badgeVars
  <2>1. ASSUME NEW p \in Posts, PostReadsFlag(p) PROVE PostTypes'
    <3> DEFINE others == {q \in Posts \ {p} : InProgress(q)}
    <3> DEFINE alone == others = {} /\ \A a \in Actors : ~InRun(a)
    <3>1. post' = [q \in Posts |->
                     IF q = p THEN [pc |-> "read_jobs", beside |-> ~alone]
                     ELSE [post[q] EXCEPT !.beside = @ \/ q \in others]]
      BY <2>1 DEF PostReadsFlag
    <3>2. \A q \in Posts : post'[q] \in [pc : PostPCs, beside : BOOLEAN]
      BY <3>1 DEF PostTypes, PostPCs
    <3> QED
      BY <3>1, <3>2 DEF PostTypes
  <2>2. ASSUME NEW p \in Posts, PostStep(p) PROVE PostTypes'
    BY <1>1, <2>2
    DEF PostStep, PostReadsJobs, PostRaisesFlag, PostStarts, PostRefused, PostGoto, PostTypes,
        PostPCs
  <2>3. CASE AutoBegin
    <3>1. post' = [p \in Posts |-> [post[p] EXCEPT !.beside = InProgress(p)]]
      BY <2>3 DEF AutoBegin
    <3>2. \A p \in Posts : post'[p] \in [pc : PostPCs, beside : BOOLEAN]
      BY <3>1 DEF PostTypes, InProgress
    <3> QED
      BY <3>1, <3>2 DEF PostTypes
  <2>4. CASE AgentRestarts
    BY <1>1, <2>4 DEF AgentRestarts, PostTypes
  <2>5. CASE UNCHANGED post
    BY <2>5 DEF PostTypes
  <2>6. ASSUME NEW a \in Actors, Step(a) PROVE UNCHANGED post
    BY <2>6 DEF Step, AnswerFromCache, SteamAnswers, SteamIsSilent, StoreAnswer, Record, RunBegin,
                AlreadyCurrent, Probe, StopUnit, StopTimesOut, SteamcmdInstalls, SteamcmdFails,
                Verify, GiveUp, Installed, RestartUnit, End, JobSettles
  <2>7. ASSUME \/ CountPlayers \/ ReportError \/ Wake \/ CheckBegin
               \/ (Environment /\ ~AgentRestarts) \/ UNCHANGED vars
        PROVE  UNCHANGED post
    BY <2>7 DEF CountPlayers, ReportError, Wake, CheckBegin, Environment, SteamPublishes,
                CacheExpires, UnitStopped, GameDies, GameBack, OperatorStarts, OperatorStops,
                PlayersMove, SetUnit, vars
  <2> QED
    BY <2>1, <2>2, <2>3, <2>4, <2>5, <2>6, <2>7 DEF Next, AutoStep
<1> QED
  BY <1>2, <1>3, PTL DEF BadgeSpec

LEMMA BadgeStep == PostTypes /\ BadgeInv /\ [BadgeNext]_badgeVars => BadgeInv'
<1> SUFFICES ASSUME PostTypes, BadgeInv, [BadgeNext]_badgeVars PROVE BadgeInv'
  OBVIOUS
<1>1. CASE BadgeNext /\ AgentRestarts
  BY <1>1, DeathFollows
<1>2. CASE BadgeNext /\ ~AgentRestarts
  <2>1. ASSUME NEW me \in Actors, Step(me) PROVE BadgeInv'
    BY <1>2, <2>1, AnswerFollows, SilenceFollows, StoredFollows, RecordFollows, RunBeginFollows,
       ClearedFollows, StopFollows, GivenUpFollows, SteamcmdFollows, VerifyFollows,
       RestartFollows, EndFollows
    DEF Step
  <2>2. ASSUME NEW p \in Posts, PostReadsFlag(p) \/ PostStep(p) PROVE BadgeInv'
    <3>1. CASE PostStarts(p) /\ at["job"].pc = "idle"
      <4>1. "job" \in Actors /\ BeginRun("job", post[p].beside) /\ UNCHANGED <<world, known>>
        BY <3>1, PostsAssumption DEF PostStarts
      <4>2. post[p].beside \in BOOLEAN
        BY DEF PostTypes
      <4> QED
        BY <1>2, <3>1, <4>1, <4>2, BegunFollows
    <3>2. CASE ~(PostStarts(p) /\ at["job"].pc = "idle")
      <4>1. UNCHANGED <<world, known, at>>
        BY <2>2, <3>2
        DEF PostReadsFlag, PostStep, PostReadsJobs, PostRaisesFlag, PostStarts, PostRefused
      <4> QED
        BY <1>2, <4>1, NobodyMoves, Marks DEF BadgeInv, BadgeTypes, Same, world, known
    <3> QED
      BY <3>1, <3>2
  <2>3. CASE CountPlayers \/ ReportError
    BY <1>2, <2>3, PassFollows
  <2>4. CASE AutoBegin
    BY <1>2, <2>4, BegunFollows DEF AutoBegin
  <2>5. CASE Wake \/ CheckBegin
    BY <1>2, <2>5, AskFollows
  <2>6. CASE Environment
    BY <1>2, <2>6, AroundFollows DEF Environment
  <2> QED
    BY <1>2, <2>1, <2>2, <2>3, <2>4, <2>5, <2>6 DEF BadgeNext, Next, AutoStep
<1>3. CASE UNCHANGED badgeVars
  BY <1>3 DEF badgeVars, vars, BadgeInv, BadgeTypes, MixedAreMarked, ManifestStays, BadgeFollows,
              Alone, Busy, AtRest
<1> QED
  BY <1>1, <1>2, <1>3

\* Between checks and updates the badge says whether the build that is installed
\* and the one last heard of differ, whatever goroutines, POSTs and faults there
\* are: but for the time from when two passes overlapped, or a Run of the button
\* failed, to the next pass that has the goroutines to itself and ends with a
\* comparison (updater.go, UpdateInfo, Check, Run).
THEOREM BadgeTellsTheTruth == BadgeSpec => []BadgeIsTrue
<1>1. BadgeInv => BadgeIsTrue
  BY DEF BadgeInv, BadgeFollows, BadgeIsTrue, RightBadge
<1> QED
  BY <1>1, BadgeInitInv, BadgeStep, PostsTyped, PTL DEF BadgeSpec

------------------------------------------------------------------------------
(***************************************************************************)
(* The boot.  Two copies of the config are in memory while the driver      *)
(* works; what both hold of the pending ids, and where each of these ids   *)
(* has got to, is what makes a write of either safe.                       *)
(***************************************************************************)

\* What the driver has still to do, has under way, and has failed to do.
Taken == todo \union failed \union {i \in Plugins : task[i] = "driver"}

\* The copies of a running agent list what the file lists, and the same as long
\* as the driver works.
CopiesAgree ==
    /\ agent # "down" => config.pending \subseteq srv.pending
    /\ agent = "installing" => config.pending = main.pending /\ srv.pending = main.pending

\* The driver works on pending ids, and on all of them that it has not seen
\* installed or left to the panel.
DriverHasThem ==
    /\ agent # "installing" => Taken = {}
    /\ agent = "installing" =>
          /\ Taken \subseteq main.pending
          /\ main.pending \intersect Plugins \subseteq Taken \union seen \union skipped

\* Whatever was asked for has been seen installed, is in the file, or was left
\* to the panel.
FileRemembers == Asked \intersect Plugins \subseteq seen \union config.pending \union skipped

BootInv == B!TypeOK /\ CopiesAgree /\ DriverHasThem /\ FileRemembers

LEMMA BootInit == B!Init => BootInv
BY BootAssumption DEF B!Init, BootInv, B!TypeOK, B!Config, B!NoJobs, CopiesAgree, DriverHasThem,
   FileRemembers, Taken, B!AskedAssumption

\* A config file that is rewritten holds what the copy holds, or what it held.
LEMMA PersistWrites ==
    ASSUME NEW copy, B!Persist(copy)
    PROVE  config' = copy \/ config' = config
BY DEF B!Persist

\* The driver begins, skips an id, or ends; the list is cleared.
LEMMA BootDriver == BootInv /\ B!Driver => BootInv'
<1> SUFFICES ASSUME BootInv, B!Driver PROVE BootInv'
  OBVIOUS
<1> USE DEF BootInv
<1>1. CASE B!BootInstalls
  <2> USE <1>1 DEF B!BootInstalls, B!LoadConfig, B!Missing
  <2>1. B!TypeOK'
    BY DEF B!TypeOK, B!Config
  <2>2. CopiesAgree'
    BY DEF CopiesAgree
  <2>3. DriverHasThem'
    BY DEF DriverHasThem, Taken, B!TypeOK
  <2>4. FileRemembers'
    BY DEF FileRemembers
  <2> QED BY <2>1, <2>2, <2>3, <2>4
<1>2. CASE B!BootClears
  <2>1. /\ agent = "down" /\ agent' = "up" /\ srv' = config
        /\ main' = [config EXCEPT !.pending = {}]
        /\ config' = main' \/ config' = config
        /\ UNCHANGED <<todo, failed, task, installed, seen, skipped>>
    BY <1>2, PersistWrites DEF B!BootClears
  <2>2. config.pending \intersect Plugins \subseteq seen
    BY <1>2 DEF B!BootClears, B!Missing, B!TypeOK
  <2>3. B!TypeOK'
    BY <2>1 DEF B!TypeOK, B!Config
  <2>4. CopiesAgree'
    BY <2>1 DEF CopiesAgree, B!TypeOK, B!Config
  <2>5. DriverHasThem'
    BY <2>1 DEF DriverHasThem, Taken
  <2>6. FileRemembers'
    BY <2>1, <2>2 DEF FileRemembers
  <2> QED BY <2>3, <2>4, <2>5, <2>6
<1>3. CASE B!BootPlain
  <2> USE <1>3 DEF B!BootPlain, B!LoadConfig
  <2>1. B!TypeOK'
    BY DEF B!TypeOK, B!Config
  <2>2. CopiesAgree'
    BY DEF CopiesAgree
  <2>3. DriverHasThem'
    BY DEF DriverHasThem, Taken
  <2>4. FileRemembers'
    BY DEF FileRemembers
  <2> QED BY <2>1, <2>2, <2>3, <2>4
<1>4. CASE B!DriverDone
  <2>1. /\ agent = "installing" /\ agent' = "up" /\ todo = {} /\ failed' = {}
        /\ \A i \in Plugins : task[i] # "driver"
        /\ main' = [main EXCEPT !.pending = failed] \/ main' = main
        /\ config' = [main EXCEPT !.pending = failed] \/ config' = config
        /\ UNCHANGED <<srv, todo, task, installed, seen, skipped>>
    BY <1>4, PersistWrites DEF B!DriverDone, B!Drained
  <2>2. Taken = failed /\ Taken' = {}
    BY <2>1 DEF Taken
  <2>3. failed \subseteq main.pending
    BY <2>1, <2>2 DEF DriverHasThem
  <2>4. B!TypeOK'
    BY <2>1 DEF B!TypeOK, B!Config
  <2>5. CopiesAgree'
    <3>1. config'.pending \subseteq srv.pending
      BY <2>1, <2>3 DEF CopiesAgree, B!TypeOK, B!Config
    <3> QED BY <2>1, <3>1 DEF CopiesAgree
  <2>6. DriverHasThem'
    BY <2>1, <2>2 DEF DriverHasThem
  <2>7. FileRemembers'
    <3>1. CASE config' = config
      BY <2>1, <3>1 DEF FileRemembers
    <3>2. CASE config' = [main EXCEPT !.pending = failed]
      <4>1. config'.pending = failed
        BY <3>2 DEF B!TypeOK, B!Config
      <4>2. config.pending \intersect Plugins \subseteq failed \union seen \union skipped
        BY <2>1, <2>2 DEF DriverHasThem, CopiesAgree
      <4> QED BY <2>1, <4>1, <4>2 DEF FileRemembers
    <3> QED BY <2>1, <3>1, <3>2
  <2> QED BY <2>4, <2>5, <2>6, <2>7
<1>5. ASSUME NEW id \in Plugins, B!DriverStarts(id) PROVE BootInv'
  <2>1. /\ agent = "installing" /\ agent' = agent /\ id \in todo /\ todo' = todo \ {id}
        /\ task' = [task EXCEPT ![id] = "driver"]
        /\ UNCHANGED <<config, main, srv, failed, installed, seen, skipped>>
    BY <1>5 DEF B!DriverStarts, B!MyTurn, B!configs
  <2>2. B!TypeOK'
    BY <2>1 DEF B!TypeOK
  <2>3. Taken' = Taken
    BY <2>1 DEF Taken, B!TypeOK
  <2>4. CopiesAgree' /\ DriverHasThem' /\ FileRemembers'
    BY <2>1, <2>3 DEF CopiesAgree, DriverHasThem, FileRemembers
  <2> QED BY <2>2, <2>4
<1>6. ASSUME NEW id \in Plugins, B!DriverSkips(id) PROVE BootInv'
  <2>1. /\ agent = "installing" /\ agent' = agent /\ id \in todo /\ todo' = todo \ {id}
        /\ skipped' = skipped \union {id}
        /\ UNCHANGED <<config, main, srv, failed, task, installed, seen>>
    BY <1>6 DEF B!DriverSkips, B!MyTurn, B!configs
  <2>2. B!TypeOK'
    BY <2>1 DEF B!TypeOK
  <2>3. Taken \subseteq Taken' \union {id} /\ Taken' \subseteq Taken
    BY <2>1 DEF Taken
  <2>4. CopiesAgree' /\ DriverHasThem' /\ FileRemembers'
    BY <2>1, <2>3 DEF CopiesAgree, DriverHasThem, FileRemembers
  <2> QED BY <2>2, <2>4
<1> QED BY <1>1, <1>2, <1>3, <1>4, <1>5, <1>6 DEF B!Driver

\* Jobs end, the panel acts, RCON is repaired, the process is killed.
LEMMA BootOthers ==
    ASSUME BootInv,
           \/ \E id \in Plugins : \/ B!JobEnds(id)
                                      \/ B!PanelInstalls(id) \/ B!PanelUninstalls(id)
           \/ B!RepairRCON \/ B!Kill
    PROVE  BootInv'
<1> USE DEF BootInv
<1>1. ASSUME NEW id \in Plugins, B!JobSucceeds(id) PROVE BootInv'
  <2> DEFINE more == {id} \union {d \in Plugins : <<id, d>> \in B!DependsOn}
  <2>1. /\ installed' = installed \union more /\ seen' = seen \union installed'
        /\ task' = [task EXCEPT ![id] = "none"]
        /\ UNCHANGED <<config, main, srv, agent, todo, failed, skipped>>
    BY <1>1 DEF B!JobSucceeds, B!configs, B!driver
  <2>2. more \subseteq Plugins /\ id \in more
    OBVIOUS
  <2> HIDE DEF more
  <2>3. B!TypeOK'
    BY <2>1, <2>2 DEF B!TypeOK
  <2>4. Taken \subseteq Taken' \union {id} /\ Taken' \subseteq Taken
    BY <2>1 DEF Taken, B!TypeOK
  <2>5. id \in seen' /\ seen \subseteq seen'
    BY <2>1, <2>2
  <2>6. CopiesAgree' /\ DriverHasThem' /\ FileRemembers'
    BY <2>1, <2>4, <2>5 DEF CopiesAgree, DriverHasThem, FileRemembers
  <2> QED BY <2>3, <2>6
<1>2. ASSUME NEW id \in Plugins, B!JobFails(id) PROVE BootInv'
  <2>1. PICK some \in SUBSET Plugins :
            /\ installed' = installed \union some /\ seen' = seen \union installed'
            /\ failed' = IF task[id] = "driver" THEN failed \union {id} ELSE failed
            /\ task' = [task EXCEPT ![id] = "none"]
            /\ UNCHANGED <<config, main, srv, agent, todo, skipped>>
    BY <1>2 DEF B!JobFails, B!configs
  <2>2. B!TypeOK'
    BY <2>1 DEF B!TypeOK
  <2>3. Taken' = Taken
    BY <2>1 DEF Taken, B!TypeOK
  <2>4. seen \subseteq seen'
    BY <2>1
  <2>5. CopiesAgree' /\ DriverHasThem' /\ FileRemembers'
    BY <2>1, <2>3, <2>4 DEF CopiesAgree, DriverHasThem, FileRemembers
  <2> QED BY <2>2, <2>5
<1>3. ASSUME NEW id \in Plugins, B!PanelInstalls(id) PROVE BootInv'
  <2>1. /\ task[id] = "none" /\ task' = [task EXCEPT ![id] = "panel"]
        /\ UNCHANGED <<config, main, srv, agent, todo, failed, installed, seen, skipped>>
    BY <1>3 DEF B!PanelInstalls, B!configs, B!driver
  <2>2. B!TypeOK'
    BY <2>1 DEF B!TypeOK
  <2>3. Taken' = Taken
    BY <2>1 DEF Taken, B!TypeOK
  <2>4. CopiesAgree' /\ DriverHasThem' /\ FileRemembers'
    BY <2>1, <2>3 DEF CopiesAgree, DriverHasThem, FileRemembers
  <2> QED BY <2>2, <2>4
<1>4. ASSUME NEW id \in Plugins, B!PanelUninstalls(id) PROVE BootInv'
  <2>1. /\ installed' = installed \ {id}
        /\ UNCHANGED <<config, main, srv, agent, todo, failed, task, seen, skipped>>
    BY <1>4 DEF B!PanelUninstalls, B!configs, B!driver
  <2>2. B!TypeOK'
    BY <2>1 DEF B!TypeOK
  <2>3. Taken' = Taken
    BY <2>1 DEF Taken
  <2>4. CopiesAgree' /\ DriverHasThem' /\ FileRemembers'
    BY <2>1, <2>3 DEF CopiesAgree, DriverHasThem, FileRemembers
  <2> QED BY <2>2, <2>4
<1>5. CASE B!RepairRCON
  <2>1. /\ agent # "down" /\ srv' = [srv EXCEPT !.addr = "corrected"]
        /\ config' = srv' \/ config' = config
        /\ UNCHANGED <<main, agent, todo, failed, task, installed, seen, skipped>>
    BY <1>5, PersistWrites DEF B!RepairRCON, B!driver
  <2>2. B!TypeOK'
    BY <2>1 DEF B!TypeOK, B!Config
  <2>3. srv'.pending = srv.pending /\ (config'.pending = srv.pending \/ config' = config)
    BY <2>1 DEF B!TypeOK, B!Config
  <2>4. Taken' = Taken /\ config.pending \subseteq config'.pending
    BY <2>1, <2>3 DEF Taken, CopiesAgree
  <2>5. CopiesAgree' /\ DriverHasThem' /\ FileRemembers'
    BY <2>1, <2>3, <2>4 DEF CopiesAgree, DriverHasThem, FileRemembers
  <2> QED BY <2>2, <2>5
<1>6. CASE B!Kill
  <2>1. PICK some \in SUBSET Plugins :
            installed' = installed \union some
    BY <1>6 DEF B!Kill
  <2>2. /\ agent' = "down" /\ todo' = {} /\ failed' = {} /\ task' = B!NoJobs
        /\ seen' = seen \union installed' /\ UNCHANGED <<config, main, srv, skipped>>
    BY <1>6 DEF B!Kill, B!configs
  <2>3. B!TypeOK'
    BY <2>1, <2>2 DEF B!TypeOK, B!NoJobs
  <2>4. Taken' = {}
    BY <2>2 DEF Taken, B!NoJobs
  <2>5. CopiesAgree' /\ DriverHasThem' /\ FileRemembers'
    BY <2>2, <2>4 DEF CopiesAgree, DriverHasThem, FileRemembers
  <2> QED BY <2>3, <2>5
<1> QED BY <1>1, <1>2, <1>3, <1>4, <1>5, <1>6 DEF B!JobEnds

LEMMA BootStutters == BootInv /\ UNCHANGED bootVars => BootInv'
BY DEF BootInv, B!TypeOK, CopiesAgree, DriverHasThem, FileRemembers, Taken, bootVars

LEMMA BootStep ==
    ASSUME BootInv, [AgentNext]_<<focus, badgeVars, bootVars>>
    PROVE  BootInv'
<1>1. CASE B!Next
  BY <1>1, BootDriver, BootOthers DEF B!Next
<1>2. CASE UNCHANGED bootVars
  BY <1>2, BootStutters
<1> QED BY <1>1, <1>2 DEF AgentNext

LEMMA BootInvariance == AgentSpec => []BootInv
<1>1. AgentInit => BootInv
  BY BootInit DEF AgentInit
<1>2. BootInv /\ [AgentNext]_<<focus, badgeVars, bootVars>> => BootInv'
  BY BootStep
<1> QED BY <1>1, <1>2, PTL DEF AgentSpec

\* What the bootstrap asked for was installed, is being installed, or stays in
\* the file: a failure, a kill at any moment or a config that could not be
\* written loses no id (main.go: the failed ids go back for the next boot).
\* This is the part of PendingIsServed that is about safety.
THEOREM NothingIsForgotten == AgentSpec => []B!NothingForgotten
<1>1. BootInv => B!NothingForgotten
  BY DEF BootInv, FileRemembers, B!NothingForgotten
<1> QED BY <1>1, BootInvariance, PTL

\* A write of main's copy brings back no id that the file no longer has.
LEMMA NoIdReturns ==
    ASSUME BootInv, B!Next \/ UNCHANGED B!vars, srv' = srv \/ agent = "down"
    PROVE  config'.pending \subseteq config.pending
<1> USE DEF BootInv
<1>1. CASE config' = config
  BY <1>1
<1>2. CASE B!BootClears
  <2>1. config' = [config EXCEPT !.pending = {}] \/ config' = config
    BY <1>2, PersistWrites DEF B!BootClears
  <2> QED BY <2>1 DEF B!TypeOK, B!Config
<1>3. CASE B!DriverDone
  <2>1. /\ agent = "installing" /\ todo = {} /\ \A i \in Plugins : task[i] # "driver"
        /\ config' = [main EXCEPT !.pending = failed] \/ config' = config
    BY <1>3, PersistWrites DEF B!DriverDone, B!Drained
  <2>2. failed \subseteq config.pending
    BY <2>1 DEF DriverHasThem, CopiesAgree, Taken
  <2> QED BY <2>1, <2>2 DEF B!TypeOK, B!Config
<1>4. CASE B!RepairRCON
  <2>1. agent # "down" /\ srv.addr = "guessed" /\ srv' = [srv EXCEPT !.addr = "corrected"]
    BY <1>4 DEF B!RepairRCON
  <2>2. srv' # srv
    BY <2>1 DEF B!TypeOK, B!Config
  <2> QED BY <2>1, <2>2
<1>5. B!Next => config' = config \/ B!BootClears \/ B!DriverDone \/ B!RepairRCON
  BY DEF B!Next, B!Driver, B!BootInstalls, B!BootPlain, B!DriverStarts, B!DriverSkips, B!JobEnds,
     B!JobSucceeds, B!JobFails, B!PanelInstalls, B!PanelUninstalls, B!Kill, B!configs
<1> QED BY <1>1, <1>2, <1>3, <1>4, <1>5 DEF B!vars

\* A corrected address stays in the file through every write but the driver's.
LEMMA AddressStays ==
    ASSUME BootInv, B!Next \/ UNCHANGED B!vars, config.addr = "corrected", agent # "installing"
    PROVE  config'.addr = "corrected"
<1> USE DEF BootInv
<1>1. CASE config' = config
  BY <1>1
<1>2. CASE B!BootClears
  <2>1. config' = [config EXCEPT !.pending = {}] \/ config' = config
    BY <1>2, PersistWrites DEF B!BootClears
  <2> QED BY <2>1 DEF B!TypeOK, B!Config
<1>3. CASE B!DriverDone
  BY <1>3 DEF B!DriverDone, B!Drained
<1>4. CASE B!RepairRCON
  <2>1. config' = [srv EXCEPT !.addr = "corrected"] \/ config' = config
    BY <1>4, PersistWrites DEF B!RepairRCON
  <2> QED BY <2>1 DEF B!TypeOK, B!Config
<1>5. B!Next => config' = config \/ B!BootClears \/ B!DriverDone \/ B!RepairRCON
  BY DEF B!Next, B!Driver, B!BootInstalls, B!BootPlain, B!DriverStarts, B!DriverSkips, B!JobEnds,
     B!JobSucceeds, B!JobFails, B!PanelInstalls, B!PanelUninstalls, B!Kill, B!configs
<1> QED BY <1>1, <1>2, <1>3, <1>4, <1>5 DEF B!vars

\* No write of one copy of the config undoes what the other has written: an id
\* that a boot has cleared does not come back, and a corrected RCON address
\* survives, but for the two writes that the property names (config.go,
\* Persist; main.go; server.go, setRCONAddr).
THEOREM NeitherCopyUndoes == AgentSpec => CopiesDoNotUndo
<1>1. BootInv /\ [AgentNext]_<<focus, badgeVars, bootVars>> =>
        /\ [srv' = srv \/ agent = "down" => config'.pending \subseteq config.pending]_(B!vars)
        /\ [config.addr = "corrected" /\ agent # "installing" => config'.addr = "corrected"]_(B!vars)
  <2> SUFFICES ASSUME BootInv, [AgentNext]_<<focus, badgeVars, bootVars>>
               PROVE  /\ srv' = srv \/ agent = "down" => config'.pending \subseteq config.pending
                      /\ config.addr = "corrected" /\ agent # "installing"
                            => config'.addr = "corrected"
    OBVIOUS
  <2>1. B!Next \/ UNCHANGED B!vars
    BY DEF AgentNext, B!vars, bootVars
  <2> QED BY <2>1, NoIdReturns, AddressStays
<1> QED BY <1>1, BootInvariance, PTL
        DEF AgentSpec, CopiesDoNotUndo, B!CopiesDoNotUndo, B!ClearedStaysCleared,
            B!CorrectionSurvives
=============================================================================
