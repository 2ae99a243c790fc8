---------------------------- MODULE ServerProofs ----------------------------
(***************************************************************************)
(* Theorems about the map, the unit and the settings, as MCServer has them *)
(* beside each other, for any numbers of operators, maps, values, lines    *)
(* and restarts.                                                           *)
(***************************************************************************)
EXTENDS MCServer, Integers, TLAPS, WellFoundedInduction, SequenceTheorems, FiniteSetTheorems

------------------------------------------------------------
(***************************************************************************)
(* The map that is played and the map of the next start.                   *)
(***************************************************************************)
Maps == Installed \union Workshop
NoMap == "none"
Reason(r) == r \in apart

MapTypes ==
    /\ env \in M!Recordable /\ sent \in M!Recordable
    /\ map \in Maps \union {NoMap}
    /\ coming \in M!Requested \union {NoMap}
    /\ changer \in [Clients -> [pc : {"idle", "fire", "record", "reload"},
                                map : M!Requested \union {NoMap}]]
    /\ \A c \in Clients : changer[c].pc \in {"fire", "record"} => changer[c].map \in M!Requested
    /\ \A c \in Clients : changer[c].pc = "reload" => changer[c].map \in Installed
    /\ map = NoMap => coming = NoMap

\* Where no two requests have overlapped, one at most is in progress.
OneAtATime ==
    ~Reason("crossed") =>
        \A c, d \in Clients : changer[c].pc # "idle" /\ changer[d].pc # "idle" => c = d

\* The map that was sent last is on record, or a request is about to record it.
SentIsRecorded ==
    ~Reason("crossed") =>
        /\ \A c \in Clients : changer[c].pc = "record" /\ changer[c].map \notin Workshop
                                  => sent = changer[c].map
        /\ ~Reason("unrecorded") /\ (\A c \in Clients : changer[c].pc # "record") => env = sent

\* A name that the game does not have is remembered as one.
ForeignIsMarked ==
    ~Reason("foreign") =>
        /\ env \in Installed
        /\ coming \notin Foreign
        /\ \A c \in Clients : changer[c].map \notin Foreign

\* What the game plays once it has done what it was sent.
Playing == IF coming = NoMap THEN map ELSE coming

GameFollows ==
    apart = {} =>
        /\ map # NoMap /\ (\A c \in Clients : changer[c].pc # "record") => Playing = env
        /\ \A c \in Clients : changer[c].pc = "record" => map # NoMap /\ Playing = changer[c].map
        /\ \A c \in Clients : changer[c].pc = "reload" => map # NoMap /\ env = changer[c].map

MapInv == MapTypes /\ OneAtATime /\ SentIsRecorded /\ ForeignIsMarked /\ GameFollows

\* The invariant holds at the start ...
LEMMA MapInit == M!Init => MapInv
<1> SUFFICES ASSUME M!Init PROVE MapInv
    OBVIOUS
<1> USE ConstantsAssumption DEF M!MapsAssumption, M!Init, M!Idle
<1>1. MapTypes
    BY DEF MapTypes, M!Recordable, NoMap
<1>2. OneAtATime /\ SentIsRecorded
    BY DEF OneAtATime, SentIsRecorded
<1>3. ForeignIsMarked
    BY DEF ForeignIsMarked
<1>4. GameFollows
    BY DEF GameFollows, NoMap
<1> QED BY <1>1, <1>2, <1>3, <1>4 DEF MapInv

\* ... and every step of the map and of its requests keeps it.
LEMMA MapNext == MapInv /\ M!Next => MapInv'
<1> SUFFICES ASSUME MapInv, M!Next PROVE MapInv'
    OBVIOUS
<1> USE ConstantsAssumption DEF M!MapsAssumption
<1>1. ASSUME NEW c \in Clients, NEW m \in M!Requested, NEW force \in BOOLEAN,
             M!AskMap(c, m, force)
      PROVE  MapInv'
  <2>1. MapTypes'
    BY <1>1 DEF MapInv, MapTypes, M!AskMap
  <2>2. OneAtATime'
    BY <1>1 DEF OneAtATime, M!AskMap, M!At, M!Alone, M!Crossing, Reason
  <2>3. SentIsRecorded'
    BY <1>1 DEF MapInv, SentIsRecorded, M!AskMap, M!At, Reason
  <2>4. ForeignIsMarked'
    BY <1>1 DEF MapInv, ForeignIsMarked, M!AskMap, Reason
  <2>5. GameFollows'
    BY <1>1 DEF MapInv, GameFollows, M!AskMap, M!At, Playing
  <2> QED BY <2>1, <2>2, <2>3, <2>4, <2>5 DEF MapInv
<1>2. ASSUME NEW c \in Clients, M!Fire(c) PROVE MapInv'
  <2>1. MapTypes'
    BY <1>2 DEF MapInv, MapTypes, M!Fire, M!At, M!Sent, M!Requested, NoMap
  <2>2. OneAtATime'
    BY <1>2 DEF MapInv, OneAtATime, M!Fire, M!At, M!Sent, Reason
  <2>3. SentIsRecorded'
    BY <1>2 DEF MapInv, MapTypes, SentIsRecorded, M!Fire, M!At, M!Sent, Reason, OneAtATime
  <2>4. ForeignIsMarked'
    BY <1>2 DEF MapInv, ForeignIsMarked, M!Fire, M!Sent, Reason
  <2>5. GameFollows'
    BY <1>2 DEF MapInv, MapTypes, GameFollows, M!Fire, M!At, M!Sent, M!Recordable,
                M!Requested, NoMap, Reason, Playing, OneAtATime
  <2> QED BY <2>1, <2>2, <2>3, <2>4, <2>5 DEF MapInv
<1>3. ASSUME NEW c \in Clients, M!FireFails(c) PROVE MapInv'
  <2>1. MapTypes'
    BY <1>3 DEF MapInv, MapTypes, M!FireFails, M!Return, M!Idle, NoMap
  <2>2. OneAtATime'
    BY <1>3 DEF MapInv, OneAtATime, M!FireFails, M!Return, M!Idle, Reason
  <2>3. SentIsRecorded'
    BY <1>3 DEF MapInv, SentIsRecorded, M!FireFails, M!At, M!Return, M!Idle, Reason
  <2>4. ForeignIsMarked'
    BY <1>3 DEF MapInv, ForeignIsMarked, M!FireFails, M!Return, M!Idle, Reason
  <2>5. GameFollows'
    BY <1>3 DEF MapInv, GameFollows, M!FireFails, M!At, M!Return, M!Idle, Playing
  <2> QED BY <2>1, <2>2, <2>3, <2>4, <2>5 DEF MapInv
<1>4. ASSUME NEW c \in Clients, M!Record(c) PROVE MapInv'
  <2>1. MapTypes'
    BY <1>4 DEF MapInv, MapTypes, M!Record, M!At, M!Return, M!Idle, M!Requested, NoMap
  <2>2. OneAtATime'
    BY <1>4 DEF MapInv, OneAtATime, M!Record, M!Return, M!Idle, Reason
  <2>3. SentIsRecorded'
    BY <1>4 DEF MapInv, SentIsRecorded, M!Record, M!At, M!Return, M!Idle, Reason
  <2>4. ForeignIsMarked'
    BY <1>4 DEF MapInv, MapTypes, ForeignIsMarked, M!Record, M!At, M!Return, M!Idle,
                M!Recordable, M!Requested, Reason
  <2>5. GameFollows'
    BY <1>4 DEF MapInv, GameFollows, M!Record, M!At, M!Return, M!Idle, Reason, Playing, OneAtATime
  <2> QED BY <2>1, <2>2, <2>3, <2>4, <2>5 DEF MapInv
<1>5. ASSUME NEW c \in Clients, M!AskReload(c) PROVE MapInv'
  <2>1. MapTypes'
    BY <1>5 DEF MapInv, MapTypes, M!AskReload, M!Recordable, M!Requested, Maps, NoMap
  <2>2. OneAtATime'
    BY <1>5 DEF OneAtATime, M!AskReload, M!At, M!Alone, M!Crossing, Reason
  <2>3. SentIsRecorded'
    BY <1>5 DEF MapInv, SentIsRecorded, M!AskReload, M!At, Reason
  <2>4. ForeignIsMarked'
    BY <1>5 DEF MapInv, MapTypes, ForeignIsMarked, M!AskReload, Maps, Reason
  <2>5. GameFollows'
    BY <1>5 DEF MapInv, GameFollows, M!AskReload, M!At, M!Alone, M!Crossing, NoMap, Playing
  <2> QED BY <2>1, <2>2, <2>3, <2>4, <2>5 DEF MapInv
<1>6. ASSUME NEW c \in Clients, M!Reload(c) PROVE MapInv'
  <2>1. MapTypes'
    BY <1>6 DEF MapInv, MapTypes, M!Reload, M!Return, M!Idle, M!Sent, NoMap
  <2>2. OneAtATime'
    BY <1>6 DEF MapInv, OneAtATime, M!Reload, M!Return, M!Idle, M!Sent, Reason
  <2>3. SentIsRecorded'
    BY <1>6 DEF MapInv, SentIsRecorded, M!Reload, M!At, M!Return, M!Idle, M!Sent, Reason
  <2>4. ForeignIsMarked'
    BY <1>6 DEF MapInv, ForeignIsMarked, M!Reload, M!Return, M!Idle, M!Sent, Reason
  <2>5. GameFollows'
    BY <1>6 DEF MapInv, GameFollows, M!Reload, M!At, M!Return, M!Idle, M!Sent, Reason,
                Playing, OneAtATime
  <2> QED BY <2>1, <2>2, <2>3, <2>4, <2>5 DEF MapInv
<1>7. ASSUME NEW c \in Clients, M!ReloadFails(c) PROVE MapInv'
  <2>1. MapTypes'
    BY <1>7 DEF MapInv, MapTypes, M!ReloadFails, M!Return, M!Idle, NoMap
  <2>2. OneAtATime'
    BY <1>7 DEF MapInv, OneAtATime, M!ReloadFails, M!Return, M!Idle, Reason
  <2>3. SentIsRecorded'
    BY <1>7 DEF MapInv, SentIsRecorded, M!ReloadFails, M!At, M!Return, M!Idle, Reason
  <2>4. ForeignIsMarked'
    BY <1>7 DEF MapInv, ForeignIsMarked, M!ReloadFails, M!Return, M!Idle, Reason
  <2>5. GameFollows'
    BY <1>7 DEF MapInv, GameFollows, M!ReloadFails, M!At, M!Return, M!Idle, Playing
  <2> QED BY <2>1, <2>2, <2>3, <2>4, <2>5 DEF MapInv
<1>8. ASSUME M!MapLoads PROVE MapInv'
  <2>1. MapTypes'
    BY <1>8 DEF MapInv, MapTypes, M!MapLoads, M!Recordable, M!Requested, Maps, NoMap
  <2>2. OneAtATime'
    BY <1>8 DEF MapInv, OneAtATime, M!MapLoads, Reason
  <2>3. SentIsRecorded'
    BY <1>8 DEF MapInv, SentIsRecorded, M!MapLoads, Reason
  <2>4. ForeignIsMarked'
    BY <1>8 DEF MapInv, ForeignIsMarked, M!MapLoads, Reason
  <2>5. GameFollows'
    BY <1>8 DEF MapInv, MapTypes, GameFollows, M!MapLoads, NoMap, Reason, Playing, ForeignIsMarked
  <2> QED BY <2>1, <2>2, <2>3, <2>4, <2>5 DEF MapInv
<1>9. ASSUME M!Rotates PROVE MapInv'
  <2>1. MapTypes'
    BY <1>9 DEF MapInv, MapTypes, M!Rotates, Maps, NoMap
  <2>2. OneAtATime'
    BY <1>9 DEF MapInv, OneAtATime, M!Rotates, Reason
  <2>3. SentIsRecorded'
    BY <1>9 DEF MapInv, SentIsRecorded, M!Rotates, Reason
  <2>4. ForeignIsMarked'
    BY <1>9 DEF MapInv, ForeignIsMarked, M!Rotates, Reason
  <2>5. GameFollows'
    BY <1>9 DEF GameFollows, M!Rotates
  <2> QED BY <2>1, <2>2, <2>3, <2>4, <2>5 DEF MapInv
<1>10. ASSUME M!Starts PROVE MapInv'
  <2>1. MapTypes'
    BY <1>10 DEF MapInv, MapTypes, M!Starts, Maps
  <2>2. OneAtATime'
    BY <1>10 DEF MapInv, OneAtATime, M!Starts, Reason
  <2>3. SentIsRecorded'
    BY <1>10 DEF MapInv, SentIsRecorded, M!Starts, Reason
  <2>4. ForeignIsMarked'
    BY <1>10 DEF MapInv, ForeignIsMarked, M!Starts, Reason
  <2>5. GameFollows'
    BY <1>10 DEF MapInv, GameFollows, M!Starts, M!At, M!Quiet, NoMap, Reason, Playing,
                 ForeignIsMarked
  <2> QED BY <2>1, <2>2, <2>3, <2>4, <2>5 DEF MapInv
<1>11. ASSUME M!Stops PROVE MapInv'
  <2>1. MapTypes'
    BY <1>11 DEF MapInv, MapTypes, M!Stops, NoMap
  <2>2. OneAtATime'
    BY <1>11 DEF MapInv, OneAtATime, M!Stops, Reason
  <2>3. SentIsRecorded'
    BY <1>11 DEF MapInv, SentIsRecorded, M!Stops, Reason
  <2>4. ForeignIsMarked'
    BY <1>11 DEF MapInv, ForeignIsMarked, M!Stops, Reason
  <2>5. GameFollows'
    BY <1>11 DEF GameFollows, M!Stops, M!At, M!Quiet, NoMap
  <2> QED BY <2>1, <2>2, <2>3, <2>4, <2>5 DEF MapInv
<1> QED BY <1>1, <1>2, <1>3, <1>4, <1>5, <1>6, <1>7, <1>8, <1>9, <1>10, <1>11 DEF M!Next

\* Whatever the operators and the game do, the invariant of the map holds.
THEOREM MapInvariance == ServerSpec => []MapInv
<1>1. ServerInit => MapInv
  BY MapInit DEF ServerInit
<1>2. MapInv /\ [ServerNext]_<<focus, vars, mapVars, unitVars>> => MapInv'
  <2>1. MapInv /\ UNCHANGED mapVars => MapInv'
    BY DEF mapVars, MapInv, MapTypes, OneAtATime, SentIsRecorded, ForeignIsMarked, GameFollows,
           Reason, Playing
  <2> QED BY <2>1, MapNext DEF ServerNext
<1> QED BY <1>1, <1>2, PTL DEF ServerSpec

\* Once the requests on the map are done, the next start plays the last map that
\* was sent, and the game that runs plays it now: handleMapChange records a map
\* after it has sent it, and SetPassword reloads the very map that is played.
THEOREM MapSurvives == ServerSpec => []MapSurvivesRestart
<1>1. MapInv => MapSurvivesRestart
  BY DEF MapInv, MapTypes, SentIsRecorded, GameFollows, Reason, Playing, NoMap,
         MapSurvivesRestart, M!MapSurvivesRestart, M!Quiet, M!At
<1> QED BY <1>1, MapInvariance, PTL

------------------------------------------------------------
(***************************************************************************)
(* The buttons.  What a request that nobody meddled with will answer is    *)
(* decided by what the unit did since its call.                            *)
(***************************************************************************)
Press ==
    [pc : {"idle", "call", "await", "answer", "refused"},
     action : {"none", "start", "stop", "restart"},
     until : Nat, polled : Nat, active : BOOLEAN, lived : Int,
     gone : BOOLEAN, meddled : BOOLEAN]

UnitType ==
    /\ now \in Nat /\ delay \in Nat /\ wakes \in Nat /\ nRestarts \in Nat
    /\ unit \in {"inactive", "running", "auto-restart", "failed"}
    /\ starts \in Seq(Nat) /\ limited \in BOOLEAN
    /\ activated \in Int /\ activated <= now
    /\ button \in [Clients -> Press]
    /\ \A c \in Clients : button[c].polled <= now + 1

\* A call comes in the instant of its ResetFailed, which counts at most the one
\* start that was due.
CallIsFresh(b) ==
    b.pc = "call" /\ b.action # "stop" /\ ~C!Quick =>
        /\ Len(starts) <= 1
        /\ unit = "auto-restart" /\ wakes <= now => Len(starts) = 0

\* A start or a restart that is being watched: a unit that left off is not back
\* before the next poll.
StartIsWatched(b) ==
    b.pc = "await" /\ b.action # "stop" =>
        /\ unit = "running" \/ b.gone
        /\ ~C!Quick => /\ unit = "running" => activated + Settle <= b.until
                       /\ unit = "auto-restart" => wakes > now /\ wakes > b.polled

StartIsJudged(b) ==
    b.pc = "answer" /\ b.action # "stop" =>
        /\ unit = "running" \/ b.gone
        /\ ~b.active => b.gone
        /\ b.active /\ ~C!Quick => b.lived >= Settle

StopIsWatched(b) ==
    b.action = "stop" =>
        /\ b.pc = "await" => unit \in {"inactive", "failed"}
        /\ b.pc = "answer" => ~b.active

PressInv(b) ==
    ~b.meddled =>
        /\ CallIsFresh(b) /\ StartIsWatched(b) /\ StartIsJudged(b) /\ StopIsWatched(b)
        /\ b.pc = "refused" => C!Quick /\ b.action # "stop"

UnitInv == UnitType /\ \A c \in Clients : PressInv(button[c])

------------------------------------------------------------
LEMMA UnitAssumed == C!ControlAssumption
BY ConstantsAssumption

LEMMA Counted == \A S : C!Cardinality(S) = Cardinality(S)
BY Zenon DEF C!Cardinality, Cardinality

\* No more starts are recent than there are.
LEMMA RecentIs ==
    ASSUME NEW s \in Seq(Nat)
    PROVE  C!Recent(s) \in Seq(Nat) /\ Len(C!Recent(s)) <= Len(s)
<1> DEFINE Old == {i \in DOMAIN s : now - s[i] >= Window}
           k == Cardinality(Old)
<1>1. Len(s) \in Nat /\ DOMAIN s = 1 .. Len(s)
  OBVIOUS
<1>2. IsFiniteSet(1 .. Len(s)) /\ Cardinality(1 .. Len(s)) = Len(s)
  <2>1. 1 \in Int /\ Len(s) \in Int
    BY <1>1
  <2>2. /\ IsFiniteSet(1 .. Len(s))
        /\ Cardinality(1 .. Len(s)) = IF 1 > Len(s) THEN 0 ELSE Len(s) - 1 + 1
    BY <2>1, FS_Interval
  <2> QED BY <1>1, <2>2
<1>3. Old \subseteq 1 .. Len(s)
  BY <1>1
<1>4. k \in Nat /\ k <= Len(s)
  BY <1>2, <1>3, FS_Subset, FS_CardinalityType
<1>5. C!Recent(s) = SubSeq(s, 1 + k, Len(s))
  BY Counted DEF C!Recent
<1> HIDE DEF Old, k
<1> QED BY <1>1, <1>4, <1>5

LEMMA UnitInit == C!Init => UnitInv
<1> SUFFICES ASSUME C!Init PROVE UnitInv
  OBVIOUS
<1>1. /\ now = 0 /\ delay \in Nat /\ wakes = 0 /\ nRestarts = 0 /\ unit = "inactive"
      /\ starts = <<>> /\ limited = FALSE /\ activated = -1
      /\ button = [c \in Clients |-> C!Idle]
  BY UnitAssumed DEF C!Init, C!Never, C!ControlAssumption
<1>2. C!Idle \in Press /\ C!Idle.pc = "idle" /\ C!Idle.polled = 0 /\ C!Idle.action = "none"
  BY DEF C!Idle, Press
<1>3. UnitType
  <2>1. button \in [Clients -> Press] /\ \A c \in Clients : button[c].polled <= now + 1
    BY <1>1, <1>2
  <2>2. starts \in Seq(Nat)
    BY <1>1
  <2>3. now \in Nat /\ wakes \in Nat /\ nRestarts \in Nat /\ activated \in Int /\ activated <= now
    BY <1>1
  <2>4. unit \in {"inactive", "running", "auto-restart", "failed"} /\ limited \in BOOLEAN
    BY <1>1
  <2> QED BY <1>1, <2>1, <2>2, <2>3, <2>4 DEF UnitType
<1>4. PressInv(C!Idle)
  BY <1>2 DEF PressInv, CallIsFresh, StartIsWatched, StartIsJudged, StopIsWatched
<1> QED BY <1>1, <1>3, <1>4 DEF UnitInv

\* What presses become under another's hand.
LEMMA MeddlingIs ==
    ASSUME UnitType, NEW c \in Clients
    PROVE  /\ C!Meddling(c) \in [Clients -> Press]
           /\ C!Meddling(c)[c] = button[c]
           /\ \A d \in Clients : d # c =>
                /\ C!Meddling(c)[d].polled = button[d].polled
                /\ C!Meddling(c)[d].pc = button[d].pc
                /\ C!Meddling(c)[d].action = button[d].action
                /\ C!Meddling(c)[d].meddled \/ button[d].pc = "idle"
<1>1. C!Meddling(c) = [d \in Clients |-> IF d = c \/ button[d].pc = "idle" THEN button[d]
                                         ELSE [button[d] EXCEPT !.meddled = TRUE]]
  BY DEF C!Meddling, C!At
<1>2. \A d \in Clients : button[d] \in Press
  BY DEF UnitType
<1>3. \A b \in Press : /\ [b EXCEPT !.meddled = TRUE] \in Press
                       /\ [b EXCEPT !.meddled = TRUE].polled = b.polled
                       /\ [b EXCEPT !.meddled = TRUE].pc = b.pc
                       /\ [b EXCEPT !.meddled = TRUE].action = b.action
                       /\ [b EXCEPT !.meddled = TRUE].meddled
  BY DEF Press
<1> QED BY <1>1, <1>2, <1>3

\* A press that changes the unit: the others are meddled with.
LEMMA PressGoes ==
    ASSUME UnitInv, UnitType', NEW c \in Clients, NEW b \in Press, now' = now, delay' = delay,
           button' = [C!Meddling(c) EXCEPT ![c] = b], PressInv(b)'
    PROVE  UnitInv'
<1>1. UnitType
  BY DEF UnitInv
<1>2. button'[c] = b
  BY <1>1, MeddlingIs
<1>3. ASSUME NEW d \in Clients, d # c PROVE PressInv(button[d])'
  <2>1. button'[d] = C!Meddling(c)[d]
    BY <1>1, <1>3, MeddlingIs
  <2>2. PICK x : x = button'[d]
    OBVIOUS
  <2>3. x.meddled \/ x.pc = "idle"
    BY <1>1, <1>3, <2>1, <2>2, MeddlingIs
  <2>4. PressInv(x)'
    BY <2>3 DEF PressInv, CallIsFresh, StartIsWatched, StartIsJudged, StopIsWatched
  <2> QED BY <2>2, <2>4 DEF PressInv, CallIsFresh, StartIsWatched, StartIsJudged, StopIsWatched
<1>4. PressInv(button[c])'
  BY <1>2 DEF PressInv, CallIsFresh, StartIsWatched, StartIsJudged, StopIsWatched
<1> QED BY <1>3, <1>4 DEF UnitInv

\* A request that reads the unit only.
LEMMA LookKeeps ==
    ASSUME UnitInv, NEW c \in Clients, NEW b \in Press, b.polled <= now + 1, PressInv(b),
           button' = [button EXCEPT ![c] = b],
           UNCHANGED <<now, delay, unit, wakes, nRestarts, starts, limited, activated>>
    PROVE  UnitInv'
<1>1. UnitType
  BY DEF UnitInv
<1>2. button'[c] = b /\ \A d \in Clients : d # c => button'[d] = button[d]
  BY <1>1 DEF UnitType
<1>3. UnitType'
  BY <1>1, <1>2 DEF UnitType
<1>4. \A x : PressInv(x) => PressInv(x)'
  BY DEF PressInv, CallIsFresh, StartIsWatched, StartIsJudged, StopIsWatched, C!Quick
<1>5. ASSUME NEW d \in Clients PROVE PressInv(button[d])'
  <2>1. PICK x : x = button'[d]
    OBVIOUS
  <2>2. PressInv(x)
    BY <1>2, <2>1 DEF UnitInv
  <2> QED BY <1>4, <2>1, <2>2 DEF PressInv, CallIsFresh, StartIsWatched, StartIsJudged, StopIsWatched
<1> QED BY <1>3, <1>5 DEF UnitInv

LEMMA BeginKeeps ==
    ASSUME UnitInv, NEW c \in Clients, NEW action \in {"start", "stop", "restart"},
           C!Begin(c, action)
    PROVE  UnitInv'
<1> DEFINE b == [C!Idle EXCEPT !.pc = "call", !.action = action]
<1>1. UnitType
  BY DEF UnitInv
<1>2. /\ b \in Press /\ b.pc = "call" /\ b.action = action /\ b.polled = 0
  <2>1. C!Idle \in Press /\ C!Idle.polled = 0
    BY DEF C!Idle, Press
  <2>2. ASSUME NEW x \in Press
        PROVE  /\ [x EXCEPT !.pc = "call", !.action = action] \in Press
               /\ [x EXCEPT !.pc = "call", !.action = action].pc = "call"
               /\ [x EXCEPT !.pc = "call", !.action = action].action = action
               /\ [x EXCEPT !.pc = "call", !.action = action].polled = x.polled
    BY DEF Press
  <2> QED BY <2>1, <2>2
<1>3. /\ button' = [C!Meddling(c) EXCEPT ![c] = b] /\ now' = now /\ delay' = delay
      /\ wakes' = wakes /\ activated' = activated
  BY DEF C!Begin, C!systemd
<1>4. /\ unit' \in {"inactive", "running", "auto-restart", "failed"}
      /\ nRestarts' \in Nat /\ starts' \in Seq(Nat) /\ limited' \in BOOLEAN
      /\ action # "stop" => starts' = <<>>
  <2>1. CASE action = "stop"
    <3>1. UNCHANGED <<unit, nRestarts, starts, limited>>
      BY <2>1 DEF C!Begin, C!systemd
    <3> QED BY <1>1, <2>1, <3>1 DEF UnitType
  <2>2. CASE action # "stop"
    <3>1. /\ unit' = IF unit = "failed" THEN "inactive" ELSE unit
          /\ nRestarts' = 0 /\ starts' = <<>> /\ limited' = FALSE
      BY <2>2 DEF C!Begin
    <3>2. unit' \in {"inactive", "running", "auto-restart", "failed"}
      BY <1>1, <3>1 DEF UnitType
    <3>3. nRestarts' \in Nat
      BY <3>1
    <3>4. starts' \in Seq(Nat)
      BY <3>1
    <3>5. limited' \in BOOLEAN
      BY <3>1
    <3> QED BY <3>1, <3>2, <3>3, <3>4, <3>5
  <2> QED BY <2>1, <2>2
<1> HIDE DEF b
<1>5. UnitType'
  <2>1. button' \in [Clients -> Press] /\ \A d \in Clients : button'[d].polled <= now' + 1
    BY <1>1, <1>2, <1>3, MeddlingIs DEF UnitType
  <2> QED BY <1>1, <1>3, <1>4, <2>1 DEF UnitType
<1>6. PICK x \in Press : x = b
  BY <1>2
<1>7. PressInv(x)'
  BY <1>2, <1>4, <1>6 DEF PressInv, CallIsFresh, StartIsWatched, StartIsJudged, StopIsWatched
<1>8. PressInv(b)'
  BY <1>6, <1>7 DEF PressInv, CallIsFresh, StartIsWatched, StartIsJudged, StopIsWatched
<1> QED BY <1>2, <1>3, <1>5, <1>6, <1>7, PressGoes

\* A call that systemd takes: the unit is watched from then on.
LEMMA AwaitsGoes ==
    ASSUME UnitInv, NEW c \in Clients, C!At(c, "call"), C!Awaits(c), now' = now, delay' = delay,
           unit' \in {"inactive", "running", "auto-restart", "failed"},
           wakes' \in Nat, nRestarts' \in Nat, starts' \in Seq(Nat), limited' \in BOOLEAN,
           activated' \in Int, activated' <= now,
           button[c].action # "stop" => unit' = "running",
           button[c].action = "stop" => unit' \in {"inactive", "failed"}
    PROVE  UnitInv'
<1>1. UnitType
  BY DEF UnitInv
<1>2. PICK x \in Press : x = button[c]
  BY <1>1 DEF UnitType
<1> DEFINE b == [x EXCEPT !.pc = "await", !.until = now + Settle]
<1>3. now + Settle \in Nat
  BY <1>1, UnitAssumed DEF C!ControlAssumption, UnitType
<1>4. /\ b \in Press /\ b.pc = "await" /\ b.until = now + Settle /\ b.polled = x.polled
      /\ b.action = x.action /\ b.meddled = x.meddled
  BY <1>3 DEF Press
<1>5. button' = [C!Meddling(c) EXCEPT ![c] = b]
  <2>1. button' = [C!Meddling(c) EXCEPT ![c] = [[@ EXCEPT !.pc = "await"] EXCEPT !.until = now + Settle]]
    BY DEF C!Awaits
  <2>2. C!Meddling(c)[c] = x
    BY <1>1, <1>2, MeddlingIs
  <2>3. [[x EXCEPT !.pc = "await"] EXCEPT !.until = now + Settle] = b
    OBVIOUS
  <2> QED BY <2>1, <2>2, <2>3
<1> HIDE DEF b
<1>6. UnitType'
  <2>1. button' \in [Clients -> Press] /\ \A d \in Clients : button'[d].polled <= now' + 1
    BY <1>1, <1>2, <1>4, <1>5, MeddlingIs DEF UnitType
  <2> QED BY <1>1, <2>1 DEF UnitType
<1>7. PICK y \in Press : y = b
  BY <1>4
<1>8. activated' + Settle <= y.until
  BY <1>1, <1>4, <1>7, UnitAssumed DEF C!ControlAssumption, UnitType
<1>9. PressInv(y)'
  BY <1>2, <1>4, <1>7, <1>8 DEF PressInv, CallIsFresh, StartIsWatched, StartIsJudged, StopIsWatched
<1> QED BY <1>5, <1>6, <1>7, <1>9, PressGoes

\* A start of the unit is counted.
LEMMA RunsIs ==
    ASSUME UnitType, C!Runs
    PROVE  /\ unit' = "running" /\ activated' = now /\ activated' \in Int /\ activated' <= now
           /\ starts' \in Seq(Nat) /\ Len(starts') <= Len(starts) + 1
<1>1. C!Recent(starts) \in Seq(Nat) /\ Len(C!Recent(starts)) <= Len(starts) /\ now \in Nat
  BY RecentIs DEF UnitType
<1>2. starts' = Append(C!Recent(starts), now) /\ unit' = "running" /\ activated' = now
  BY DEF C!Runs
<1>3. \A s \in Seq(Nat), n \in Nat : Append(s, n) \in Seq(Nat) /\ Len(Append(s, n)) = Len(s) + 1
  OBVIOUS
<1>4. starts' \in Seq(Nat) /\ Len(starts') = Len(C!Recent(starts)) + 1
  BY <1>1, <1>2, <1>3
<1>5. \A s \in Seq(Nat) : Len(s) \in Nat
  OBVIOUS
<1>6. Len(C!Recent(starts)) \in Nat /\ Len(starts) \in Nat
  BY <1>1, <1>5 DEF UnitType
<1> HIDE DEF C!Recent
<1> QED BY <1>1, <1>2, <1>4, <1>6

LEMMA CallKeeps ==
    ASSUME UnitInv, NEW c \in Clients, C!CallStart(c) \/ C!CallRestart(c) \/ C!CallStop(c)
    PROVE  UnitInv'
<1>1. UnitType
  BY DEF UnitInv
<1>2. C!At(c, "call") /\ C!Awaits(c) /\ now' = now /\ delay' = delay
  BY DEF C!CallStart, C!CallRestart, C!CallStop
<1>3. CASE C!CallStart(c)
  <2>1. button[c].action = "start" 
    BY <1>3 DEF C!CallStart
  <2>2. CASE unit = "running"
    <3>1. UNCHANGED <<unit, wakes, nRestarts, starts, limited, activated>>
      BY <1>3, <2>2 DEF C!CallStart, C!systemd
    <3> QED BY <1>1, <1>2, <2>1, <2>2, <3>1, AwaitsGoes DEF UnitType
  <2>3. CASE unit # "running"
    <3>1. C!Runs /\ UNCHANGED <<wakes, nRestarts, limited>>
      BY <1>3, <2>3 DEF C!CallStart
    <3> QED BY <1>1, <1>2, <2>1, <3>1, RunsIs, AwaitsGoes DEF UnitType
  <2> QED BY <2>2, <2>3
<1>4. CASE C!CallRestart(c)
  <2>1. button[c].action = "restart" /\ C!Runs /\ UNCHANGED <<wakes, nRestarts, limited>>
    BY <1>4 DEF C!CallRestart
  <2> QED BY <1>1, <1>2, <2>1, RunsIs, AwaitsGoes DEF UnitType
<1>5. CASE C!CallStop(c)
  <2>1. /\ button[c].action = "stop" /\ unit' \in {"inactive", "failed"}
        /\ UNCHANGED <<wakes, nRestarts, starts, limited, activated>>
    BY <1>5 DEF C!CallStop
  <2> QED BY <1>1, <1>2, <2>1, AwaitsGoes DEF UnitType
<1> QED BY <1>3, <1>4, <1>5

LEMMA RefusedKeeps ==
    ASSUME UnitInv, NEW c \in Clients, C!CallRefused(c) PROVE UnitInv'
<1>1. UnitType
  BY DEF UnitInv
<1>2. PICK x \in Press : x = button[c]
  BY <1>1 DEF UnitType
<1> DEFINE b == [x EXCEPT !.pc = "refused"]
<1>3. /\ b \in Press /\ b.pc = "refused" /\ b.polled = x.polled
      /\ b.action = x.action /\ b.meddled = x.meddled
  BY DEF Press
<1>4. /\ x.pc = "call" /\ x.action # "stop" /\ C!TooOften
      /\ unit' = "failed" /\ limited' = TRUE
      /\ UNCHANGED <<now, delay, wakes, nRestarts, starts, activated>>
  BY <1>2 DEF C!CallRefused, C!At
<1>5. button' = [C!Meddling(c) EXCEPT ![c] = b]
  <2>1. button' = [C!Meddling(c) EXCEPT ![c] = [@ EXCEPT !.pc = "refused"]]
    BY DEF C!CallRefused
  <2>2. C!Meddling(c)[c] = x
    BY <1>1, <1>2, MeddlingIs
  <2> QED BY <2>1, <2>2
<1> HIDE DEF b
<1>6. UnitType'
  <2>1. button' \in [Clients -> Press] /\ \A d \in Clients : button'[d].polled <= now' + 1
    BY <1>1, <1>2, <1>3, <1>4, <1>5, MeddlingIs DEF UnitType
  <2> QED BY <1>1, <1>4, <2>1 DEF UnitType
<1>7. ASSUME ~x.meddled PROVE C!Quick
  <2>1. Len(C!Recent(starts)) <= Len(starts) /\ Len(C!Recent(starts)) \in Nat /\ Len(starts) \in Nat
    BY <1>1, RecentIs DEF UnitType
  <2>2. Len(C!Recent(starts)) >= Burst /\ Burst \in Nat /\ Burst > 1
    BY <1>4, UnitAssumed DEF C!TooOften, C!ControlAssumption
  <2>3. ~C!Quick => Len(starts) <= 1
    BY <1>2, <1>4, <1>7 DEF UnitInv, PressInv, CallIsFresh
  <2> HIDE DEF C!Recent
  <2> QED BY <2>1, <2>2, <2>3
<1>8. PICK y \in Press : y = b
  BY <1>3
<1>9. C!Quick' <=> C!Quick
  BY <1>4 DEF C!Quick
<1>10. PressInv(y)'
  BY <1>3, <1>4, <1>7, <1>8, <1>9
     DEF PressInv, CallIsFresh, StartIsWatched, StartIsJudged, StopIsWatched
<1> QED BY <1>4, <1>5, <1>6, <1>8, <1>10, PressGoes

LEMMA AnswerKeeps ==
    ASSUME UnitInv, NEW c \in Clients, C!Answer(c) PROVE UnitInv'
<1>1. C!Idle \in Press /\ C!Idle.polled = 0 /\ C!Idle.pc = "idle" /\ C!Idle.action = "none"
  BY DEF C!Idle, Press
<1>2. PressInv(C!Idle)
  BY <1>1 DEF PressInv, CallIsFresh, StartIsWatched, StartIsJudged, StopIsWatched
<1>3. /\ button' = [button EXCEPT ![c] = C!Idle]
      /\ UNCHANGED <<now, delay, unit, wakes, nRestarts, starts, limited, activated>>
  BY DEF C!Answer, C!systemd
<1>4. C!Idle.polled <= now + 1
  BY <1>1 DEF UnitInv, UnitType
<1> QED BY <1>1, <1>2, <1>3, <1>4, LookKeeps

LEMMA PollKeeps ==
    ASSUME UnitInv, NEW c \in Clients, C!Poll(c) PROVE UnitInv'
<1>1. UnitType
  BY DEF UnitInv
<1>2. PICK x \in Press : x = button[c]
  BY <1>1 DEF UnitType
<1>3. PressInv(x) /\ x.pc = "await"
  BY <1>2 DEF UnitInv, C!Poll, C!At
<1>4. UNCHANGED <<now, delay, unit, wakes, nRestarts, starts, limited, activated>>
  BY DEF C!Poll, C!systemd
<1>5. CASE C!Settled(c)
  <2> DEFINE b == [x EXCEPT !.pc = "answer", !.polled = 0, !.until = 0,
                            !.active = (unit = "running"), !.lived = now - activated]
  <2>1. button' = [button EXCEPT ![c] = b]
    BY <1>2, <1>5 DEF C!Poll
  <2>2. /\ b \in Press /\ b.pc = "answer" /\ b.polled = 0 /\ b.active = (unit = "running")
        /\ b.lived = now - activated /\ b.action = x.action /\ b.meddled = x.meddled
        /\ b.gone = x.gone
    <3>1. now - activated \in Int
      BY <1>1 DEF UnitType
    <3> QED BY <3>1 DEF Press
  <2>3. unit = "running" => now >= x.until
    BY <1>2, <1>5 DEF C!Settled
  <2> HIDE DEF b
  <2>4. ASSUME unit = "running", ~x.meddled, x.action # "stop", ~C!Quick PROVE now - activated >= Settle
    <3>1. activated + Settle <= x.until
      BY <1>3, <2>4 DEF PressInv, StartIsWatched
    <3>2. x.until \in Nat /\ Settle \in Nat /\ now \in Nat /\ activated \in Int
      BY <1>1, UnitAssumed DEF Press, UnitType, C!ControlAssumption
    <3> QED BY <2>3, <2>4, <3>1, <3>2
  <2>5. PressInv(b)
    BY <1>3, <2>2, <2>4 DEF PressInv, CallIsFresh, StartIsWatched, StartIsJudged, StopIsWatched
  <2>6. b.polled <= now + 1
    BY <1>1, <2>2 DEF UnitType
  <2> QED BY <1>4, <2>1, <2>2, <2>5, <2>6, LookKeeps
<1>6. CASE ~C!Settled(c)
  <2>6. PICK n \in Nat, m \in Nat : n = now + 1 /\ m = x.until
    <3>1. now + 1 \in Nat /\ x.until \in Nat
      BY <1>1 DEF UnitType, Press
    <3> QED BY <3>1
  <2>8. PICK f \in BOOLEAN : f = FALSE
    OBVIOUS
  <2>9. PICK z \in Int : z = 0
    OBVIOUS
  <2> DEFINE b == [x EXCEPT !.pc = "await", !.polled = n, !.until = m, !.active = f, !.lived = z]
  <2>1. button' = [button EXCEPT ![c] = b]
    BY <1>2, <1>6, <2>6, <2>8, <2>9 DEF C!Poll
  <2>7. /\ b \in Press /\ b.pc = "await" /\ b.polled = n /\ b.until = m
        /\ b.action = x.action /\ b.meddled = x.meddled /\ b.gone = x.gone
    <3>2. b \in Press
      BY DEF Press
    <3>3. b.pc = "await" /\ b.polled = n /\ b.until = m
      BY DEF Press
    <3>4. b.action = x.action /\ b.meddled = x.meddled /\ b.gone = x.gone
      BY DEF Press
    <3> QED BY <3>2, <3>3, <3>4
  <2>2. b.polled = now + 1 /\ b.until = x.until
    BY <2>6, <2>7
  <2>3. unit = "running"
    BY <1>6 DEF C!Settled
  <2> HIDE DEF b
  <2>4. PressInv(b)
    BY <1>3, <2>2, <2>3, <2>7 DEF PressInv, CallIsFresh, StartIsWatched, StartIsJudged, StopIsWatched
  <2>5. b.polled <= now + 1
    BY <1>1, <2>2 DEF UnitType
  <2> QED BY <1>4, <2>1, <2>7, <2>4, <2>5, LookKeeps
<1> QED BY <1>5, <1>6

\* The run ends: those who watch learn of it.
LEMMA EndedIs ==
    ASSUME UnitType, button' = C!Ended
    PROVE  /\ button' \in [Clients -> Press]
           /\ \A c \in Clients : \E x, y \in Press :
                /\ x = button[c] /\ y = button'[c]
                /\ y.pc = x.pc /\ y.action = x.action /\ y.until = x.until /\ y.polled = x.polled
                /\ y.active = x.active /\ y.lived = x.lived /\ y.meddled = x.meddled
                /\ x.pc \in {"await", "answer"} => y.gone
<1>1. button' = [c \in Clients |-> [button[c] EXCEPT !.gone = button[c].gone \/ button[c].pc \in {"await", "answer"}]]
  BY DEF C!Ended
<1>2. ASSUME NEW c \in Clients
      PROVE  \E x, y \in Press :
                /\ x = button[c] /\ y = button'[c]
                /\ y.pc = x.pc /\ y.action = x.action /\ y.until = x.until /\ y.polled = x.polled
                /\ y.active = x.active /\ y.lived = x.lived /\ y.meddled = x.meddled
                /\ x.pc \in {"await", "answer"} => y.gone
  <2>1. PICK x \in Press : x = button[c]
    BY DEF UnitType
  <2>2. PICK g \in BOOLEAN : g = (x.gone \/ x.pc \in {"await", "answer"})
    OBVIOUS
  <2>3. button'[c] = [x EXCEPT !.gone = g]
    BY <1>1, <2>1, <2>2
  <2>4. /\ [x EXCEPT !.gone = g] \in Press /\ [x EXCEPT !.gone = g].pc = x.pc
        /\ [x EXCEPT !.gone = g].action = x.action /\ [x EXCEPT !.gone = g].until = x.until
        /\ [x EXCEPT !.gone = g].polled = x.polled /\ [x EXCEPT !.gone = g].active = x.active
        /\ [x EXCEPT !.gone = g].lived = x.lived /\ [x EXCEPT !.gone = g].meddled = x.meddled
        /\ [x EXCEPT !.gone = g].gone = g
    BY DEF Press
  <2>5. x.pc \in {"await", "answer"} => g
    BY <2>2
  <2> QED BY <2>1, <2>3, <2>4, <2>5
<1>3. \A c \in Clients : button'[c] \in Press
  BY <1>2
<1> QED BY <1>1, <1>2, <1>3

LEMMA EndsKeeps ==
    ASSUME UnitInv, C!Dies \/ C!Quits PROVE UnitInv'
<1>1. UnitType
  BY DEF UnitInv
<1>2. /\ unit = "running" /\ button' = C!Ended
      /\ UNCHANGED <<now, delay, nRestarts, starts, limited, activated>>
  BY DEF C!Dies, C!Quits
<1>3. \/ unit' = "auto-restart" /\ wakes' = now + delay
      \/ unit' = "inactive" /\ wakes' = wakes
  BY DEF C!Dies, C!Quits
<1>4. UnitType'
  <2>1. \A c \in Clients : button'[c].polled <= now' + 1
    BY <1>1, <1>2, EndedIs DEF UnitType
  <2>2. wakes' \in Nat
    BY <1>1, <1>3 DEF UnitType
  <2> QED BY <1>1, <1>2, <1>3, <2>1, <2>2, EndedIs DEF UnitType
<1>5. ASSUME NEW c \in Clients PROVE PressInv(button[c])'
  <2>1. PICK x, y \in Press :
          /\ x = button[c] /\ y = button'[c]
          /\ y.pc = x.pc /\ y.action = x.action /\ y.until = x.until /\ y.polled = x.polled
          /\ y.active = x.active /\ y.lived = x.lived /\ y.meddled = x.meddled
          /\ x.pc \in {"await", "answer"} => y.gone
    BY <1>1, <1>2, EndedIs
  <2>2. PressInv(x)
    BY <2>1 DEF UnitInv
  <2>3. ~C!Quick /\ unit' = "auto-restart" => wakes' > now' /\ wakes' > y.polled
    <3>1. now \in Nat /\ delay \in Nat /\ y.polled <= now + 1 /\ y.polled \in Nat
      BY <1>1, <2>1 DEF UnitType, Press
    <3>2. ~C!Quick => delay >= 2
      BY <3>1 DEF C!Quick
    <3>3. unit' = "auto-restart" => wakes' = now + delay
      BY <1>3
    <3> HIDE DEF C!Quick
    <3> QED BY <1>2, <3>1, <3>2, <3>3
  <2>4. C!Quick' <=> C!Quick
    BY <1>2 DEF C!Quick
  <2>5. unit' \in {"auto-restart", "inactive"}
    BY <1>3
  <2>6. Len(starts) <= 1 => Len(starts') <= 1
    BY <1>2
  <2> HIDE DEF C!Quick
  <2>7. ~y.meddled => CallIsFresh(y)'
    BY <1>2, <2>1, <2>2, <2>3, <2>4, <2>6, <1>4 DEF PressInv, CallIsFresh, UnitType
  <2>8. ~y.meddled => StartIsWatched(y)'
    BY <2>1, <2>3, <2>4, <2>5 DEF StartIsWatched
  <2>9. ~y.meddled => StartIsJudged(y)'
    BY <2>1, <2>2, <2>4 DEF PressInv, StartIsJudged
  <2>10. ~y.meddled => StopIsWatched(y)'
    BY <1>2, <2>1, <2>2 DEF PressInv, StopIsWatched
  <2>11. ~y.meddled /\ y.pc = "refused" => C!Quick' /\ y.action # "stop"
    BY <2>1, <2>2, <2>4 DEF PressInv
  <2>12. PressInv(y)'
    BY <2>7, <2>8, <2>9, <2>10, <2>11 DEF PressInv
  <2> QED BY <2>1, <2>12 DEF PressInv, CallIsFresh, StartIsWatched, StartIsJudged, StopIsWatched
<1> QED BY <1>4, <1>5 DEF UnitInv

LEMMA AutoRestartKeeps ==
    ASSUME UnitInv, C!AutoRestarts PROVE UnitInv'
<1>1. UnitType
  BY DEF UnitInv
<1>2. /\ unit = "auto-restart" /\ now >= wakes /\ nRestarts' = nRestarts + 1 /\ wakes' = 0
      /\ UNCHANGED <<now, delay, button>>
  BY DEF C!AutoRestarts
<1>3. \/ C!Runs /\ limited' = limited
      \/ unit' = "failed" /\ limited' = TRUE /\ UNCHANGED <<starts, activated>>
  BY DEF C!AutoRestarts
<1>4. /\ unit' \in {"running", "failed"} /\ activated' \in Int /\ activated' <= now
      /\ starts' \in Seq(Nat) /\ Len(starts') <= Len(starts) + 1
      /\ Len(starts') \in Nat /\ Len(starts) \in Nat
  <2>1. \A s \in Seq(Nat) : Len(s) \in Nat /\ Len(s) <= Len(s) + 1
    OBVIOUS
  <2> QED BY <1>1, <1>3, <2>1, RunsIs DEF UnitType
<1>5. UnitType'
  <2>1. nRestarts' \in Nat /\ wakes' \in Nat
    BY <1>1, <1>2 DEF UnitType
  <2>2. limited' \in BOOLEAN
    BY <1>1, <1>3 DEF UnitType
  <2>3. unit' \in {"inactive", "running", "auto-restart", "failed"}
    BY <1>4
  <2> QED BY <1>1, <1>2, <1>4, <2>1, <2>2, <2>3 DEF UnitType
<1>6. C!Quick' <=> C!Quick
  BY <1>2 DEF C!Quick
<1>7. ASSUME NEW x, PressInv(x) PROVE PressInv(x)'
  <2>1. wakes <= now
    BY <1>1, <1>2 DEF UnitType
  <2>2. ~(wakes > now)
    BY <1>1, <1>2 DEF UnitType
  <2> HIDE DEF C!Quick
  <2>3. ~x.meddled => CallIsFresh(x)'
    BY <1>2, <1>4, <1>6, <1>7, <2>1 DEF PressInv, CallIsFresh
  <2>4. ~x.meddled => StartIsWatched(x)'
    BY <1>2, <1>6, <1>7, <2>2 DEF PressInv, StartIsWatched
  <2>5. ~x.meddled => StartIsJudged(x)'
    BY <1>2, <1>6, <1>7 DEF PressInv, StartIsJudged
  <2>6. ~x.meddled => StopIsWatched(x)'
    BY <1>2, <1>7 DEF PressInv, StopIsWatched
  <2> QED BY <1>6, <1>7, <2>3, <2>4, <2>5, <2>6 DEF PressInv
<1>8. ASSUME NEW c \in Clients PROVE PressInv(button[c])'
  <2>1. PICK x : x = button[c]
    OBVIOUS
  <2>2. PressInv(x)'
    BY <1>7, <2>1 DEF UnitInv
  <2> QED BY <1>2, <2>1, <2>2 DEF PressInv, CallIsFresh, StartIsWatched, StartIsJudged, StopIsWatched
<1> QED BY <1>5, <1>8 DEF UnitInv

LEMMA TickKeeps ==
    ASSUME UnitInv, C!Tick PROVE UnitInv'
<1>1. UnitType
  BY DEF UnitInv
<1>2. /\ unit = "auto-restart" => now < wakes
      /\ \A c \in Clients : button[c].pc # "call" /\ (button[c].pc = "await" => button[c].polled = now + 1)
      /\ now' = now + 1
      /\ UNCHANGED <<delay, unit, wakes, nRestarts, starts, limited, activated, button>>
  BY DEF C!Tick, C!systemd, C!At
<1>3. UnitType'
  <2>1. now' \in Nat /\ activated' <= now'
    BY <1>1, <1>2 DEF UnitType
  <2>2. \A c \in Clients : button'[c].polled <= now' + 1
    <3>1. \A c \in Clients : button[c].polled \in Nat
      BY <1>1 DEF UnitType, Press
    <3> QED BY <1>1, <1>2, <3>1 DEF UnitType
  <2> QED BY <1>1, <1>2, <2>1, <2>2 DEF UnitType
<1>4. C!Quick' <=> C!Quick
  BY <1>2 DEF C!Quick
<1>5. ASSUME NEW c \in Clients PROVE PressInv(button[c])'
  <2>1. PICK x : x = button[c]
    OBVIOUS
  <2>2. PressInv(x) /\ x.pc # "call" /\ (x.pc = "await" => x.polled = now')
    BY <1>2, <2>1 DEF UnitInv
  <2> HIDE DEF C!Quick
  <2>3. PressInv(x)'
    BY <1>2, <1>4, <2>2 DEF PressInv, CallIsFresh, StartIsWatched, StartIsJudged, StopIsWatched
  <2> QED BY <1>2, <2>1, <2>3 DEF PressInv, CallIsFresh, StartIsWatched, StartIsJudged, StopIsWatched
<1> QED BY <1>3, <1>5 DEF UnitInv

LEMMA UnitNext == UnitInv /\ [C!Next]_unitVars => UnitInv'
<1>1. UnitInv /\ C!Next => UnitInv'
  BY BeginKeeps, CallKeeps, RefusedKeeps, PollKeeps, AnswerKeeps, EndsKeeps, AutoRestartKeeps,
     TickKeeps DEF C!Next
<1>2. UnitInv /\ UNCHANGED unitVars => UnitInv'
  BY DEF UnitInv, unitVars, UnitType, PressInv, CallIsFresh, StartIsWatched, StartIsJudged,
         StopIsWatched, C!Quick
<1> QED BY <1>1, <1>2

\* What the invariant says of an answer.
LEMMA VerdictIsJudged == UnitInv => C!VerdictIsTrue
<1> SUFFICES ASSUME UnitInv, NEW c \in Clients, C!Answering(c), ~button[c].meddled
             PROVE  /\ C!Verdict(c) = "running" => button[c].lived >= Settle \/ C!Quick
                    /\ C!Verdict(c) \in {"did not stay running", "crash loop"} => button[c].gone
                    /\ C!Verdict(c) # "still running"
                    /\ C!Verdict(c) = "refused" => C!Quick
  BY DEF C!VerdictIsTrue
<1>1. PressInv(button[c]) /\ button[c].pc \in {"answer", "refused"}
  BY DEF UnitInv, C!Answering
<1>2. CASE button[c].pc = "refused"
  <2>1. C!Verdict(c) = "refused"
    BY <1>2 DEF C!Verdict, C!At
  <2> QED BY <1>1, <1>2, <2>1 DEF PressInv
<1>3. CASE button[c].pc = "answer" /\ button[c].action # "stop"
  <2>1. C!Verdict(c) = IF C!CrashLooping THEN "crash loop"
                       ELSE IF button[c].active THEN "running" ELSE "did not stay running"
    BY <1>3 DEF C!Verdict, C!At
  <2>2. C!CrashLooping => unit # "running"
    BY DEF C!CrashLooping
  <2> HIDE DEF C!CrashLooping, C!Quick
  <2> QED BY <1>1, <1>3, <2>1, <2>2 DEF PressInv, StartIsJudged
<1>4. CASE button[c].pc = "answer" /\ button[c].action = "stop"
  <2>1. C!Verdict(c) = "stopped"
    BY <1>1, <1>4 DEF C!Verdict, C!At, PressInv, StopIsWatched
  <2> QED BY <2>1
<1> QED BY <1>1, <1>2, <1>3, <1>4

------------------------------------------------------------
(***************************************************************************)
(* The count that crash loops are told by.  A request that is about to     *)
(* start the unit is counted ahead.                                        *)
(***************************************************************************)
\* So few that what systemd counts of theirs leaves a loop's restarts.
FewOperators ==
    IsFiniteSet(Clients) /\ Cardinality(Clients) + LoopRestarts <= Burst + 1

Starting == {c \in Clients : button[c].pc = "call" /\ button[c].action # "stop"}

CountInv ==
    /\ Len(starts) + Cardinality(Starting) <= nRestarts + Cardinality(Clients)
    /\ limited => nRestarts >= LoopRestarts

LEMMA CountInit == FewOperators /\ C!Init => CountInv
<1> SUFFICES ASSUME FewOperators, C!Init PROVE CountInv
  OBVIOUS
<1>1. starts = <<>> /\ nRestarts = 0 /\ limited = FALSE /\ button = [c \in Clients |-> C!Idle]
  BY DEF C!Init
<1>2. Starting = {}
  BY <1>1 DEF Starting, C!Idle
<1>3. Cardinality(Starting) = 0 /\ Cardinality(Clients) \in Nat
  BY <1>2, FS_EmptySet, FS_CardinalityType DEF FewOperators
<1>4. Len(starts) = 0
  BY <1>1
<1>5. Len(starts) + Cardinality(Starting) <= nRestarts + Cardinality(Clients)
  BY <1>1, <1>3, <1>4
<1> QED BY <1>1, <1>5 DEF CountInv

\* The numbers of the count.
LEMMA Numbers ==
    ASSUME FewOperators, UnitType
    PROVE  /\ Len(starts) \in Nat /\ nRestarts \in Nat /\ Len(C!Recent(starts)) \in Nat
           /\ Len(C!Recent(starts)) <= Len(starts)
           /\ LoopRestarts \in Nat /\ Burst \in Nat
           /\ Cardinality(Clients) \in Nat /\ Cardinality(Starting) \in Nat
           /\ Cardinality(Starting) <= Cardinality(Clients) /\ IsFiniteSet(Starting)
<1>1. Starting \subseteq Clients
  BY DEF Starting
<1>2. /\ Cardinality(Clients) \in Nat /\ Cardinality(Starting) \in Nat
      /\ Cardinality(Starting) <= Cardinality(Clients) /\ IsFiniteSet(Starting)
  BY <1>1, FS_Subset, FS_CardinalityType DEF FewOperators
<1>3. C!Recent(starts) \in Seq(Nat) /\ Len(C!Recent(starts)) <= Len(starts)
  BY RecentIs DEF UnitType
<1>4. \A s \in Seq(Nat) : Len(s) \in Nat
  OBVIOUS
<1>5. Len(starts) \in Nat /\ nRestarts \in Nat /\ Len(C!Recent(starts)) \in Nat
  BY <1>3, <1>4 DEF UnitType
<1> QED BY <1>2, <1>3, <1>5, UnitAssumed DEF C!ControlAssumption

\* What was started too often was restarted often.
LEMMA OftenIsMany ==
    ASSUME FewOperators, UnitType, CountInv, C!TooOften
    PROVE  nRestarts + 1 >= LoopRestarts + Cardinality(Starting)
<1>1. Len(C!Recent(starts)) >= Burst
  BY DEF C!TooOften
<1> QED BY <1>1, Numbers DEF CountInv, FewOperators

\* A request other than c's is still what it was.
Unturned(c) ==
    \A d \in Clients : d # c => /\ button'[d].pc = button[d].pc
                                /\ button'[d].action = button[d].action

\* A request that is no longer about to start the unit is no longer counted ahead.
LEMMA OneLess ==
    ASSUME FewOperators, UnitType, NEW c \in Clients, Unturned(c), button'[c].pc # "call"
    PROVE  /\ Cardinality(Starting') \in Nat /\ Cardinality(Starting') <= Cardinality(Starting)
           /\ c \in Starting => Cardinality(Starting') + 1 <= Cardinality(Starting)
<1>1. Starting' = Starting \ {c}
  BY DEF Starting, Unturned
<1>2. IsFiniteSet(Starting) /\ Cardinality(Starting) \in Nat
  BY Numbers
<1>3. CASE c \in Starting
  <2>1. /\ IsFiniteSet(Starting \ {c})
        /\ Cardinality(Starting \ {c}) = IF c \in Starting THEN Cardinality(Starting) - 1
                                                          ELSE Cardinality(Starting)
    BY <1>2, FS_RemoveElement
  <2>2. Cardinality(Starting \ {c}) \in Nat
    BY <2>1, FS_CardinalityType
  <2> QED BY <1>1, <1>2, <1>3, <2>1, <2>2
<1>4. CASE c \notin Starting
  <2>1. Starting' = Starting
    BY <1>1, <1>4
  <2> QED BY <1>2, <1>4, <2>1
<1> QED BY <1>3, <1>4

LEMMA MeddlingTurns ==
    ASSUME UnitType, NEW c \in Clients, \A d \in Clients : d # c => button'[d] = C!Meddling(c)[d]
    PROVE  Unturned(c)
BY MeddlingIs DEF Unturned

LEMMA CallCounts ==
    ASSUME FewOperators, UnitInv, CountInv, NEW c \in Clients,
           C!CallStart(c) \/ C!CallRestart(c) \/ C!CallStop(c) \/ C!CallRefused(c)
    PROVE  CountInv'
<1>1. UnitType
  BY DEF UnitInv
<1>2. Unturned(c) /\ button[c].pc = "call" /\ button'[c].pc # "call"
  <2>1. C!Meddling(c) \in [Clients -> Press]
    BY <1>1, MeddlingIs
  <2>2. CASE C!CallRefused(c)
    <3>1. button[c].pc = "call" /\ button' = [C!Meddling(c) EXCEPT ![c] = [@ EXCEPT !.pc = "refused"]]
      BY <2>2 DEF C!CallRefused, C!At
    <3>2. \A x \in Press : [x EXCEPT !.pc = "refused"].pc = "refused"
      BY DEF Press
    <3> QED BY <1>1, <2>1, <3>1, <3>2, MeddlingTurns
  <2>3. CASE C!CallStart(c) \/ C!CallRestart(c) \/ C!CallStop(c)
    <3>1. /\ button[c].pc = "call"
          /\ button' = [C!Meddling(c) EXCEPT ![c] = [[@ EXCEPT !.pc = "await"] EXCEPT !.until = now + Settle]]
      BY <2>3 DEF C!CallStart, C!CallRestart, C!CallStop, C!At, C!Awaits
    <3>2. \A x \in Press : [[x EXCEPT !.pc = "await"] EXCEPT !.until = now + Settle].pc = "await"
      BY DEF Press
    <3> QED BY <1>1, <2>1, <3>1, <3>2, MeddlingTurns
  <2> QED BY <2>2, <2>3
<1>3. /\ Cardinality(Starting') \in Nat /\ Cardinality(Starting') <= Cardinality(Starting)
      /\ c \in Starting => Cardinality(Starting') + 1 <= Cardinality(Starting)
  BY <1>1, <1>2, OneLess
<1>4. c \in Starting <=> button[c].action # "stop"
  BY <1>2 DEF Starting
<1>5. CASE C!CallRefused(c)
  <2>1. /\ c \in Starting /\ C!TooOften /\ starts' = starts /\ nRestarts' = nRestarts
    BY <1>4, <1>5 DEF C!CallRefused
  <2>2. nRestarts + 1 >= LoopRestarts + Cardinality(Starting)
    BY <1>1, <2>1, OftenIsMany
  <2> HIDE DEF Starting
  <2> QED BY <1>1, <1>3, <2>1, <2>2, Numbers DEF CountInv
<1>6. CASE C!Runs /\ c \in Starting /\ nRestarts' = nRestarts /\ limited' = limited
  <2>1. Len(starts') <= Len(starts) + 1 /\ Len(starts') \in Nat
    <3>1. \A s \in Seq(Nat) : Len(s) \in Nat
      OBVIOUS
    <3> QED BY <1>1, <1>6, <3>1, RunsIs
  <2> HIDE DEF Starting
  <2> QED BY <1>1, <1>3, <1>6, <2>1, Numbers DEF CountInv
<1>7. CASE UNCHANGED <<starts, nRestarts, limited>>
  BY <1>1, <1>3, <1>7, Numbers DEF CountInv
<1>8. CASE C!CallStart(c)
  <2>1. button[c].action = "start"
    BY <1>8 DEF C!CallStart
  <2>2. \/ C!Runs /\ UNCHANGED <<nRestarts, limited>>
        \/ UNCHANGED <<starts, nRestarts, limited>>
    BY <1>8 DEF C!CallStart, C!systemd
  <2> QED BY <1>4, <1>6, <1>7, <2>1, <2>2
<1>9. CASE C!CallRestart(c)
  BY <1>4, <1>6, <1>9 DEF C!CallRestart
<1>10. CASE C!CallStop(c)
  BY <1>7, <1>10 DEF C!CallStop
<1> QED BY <1>5, <1>8, <1>9, <1>10

LEMMA BeginCounts ==
    ASSUME FewOperators, UnitInv, UnitType', CountInv, NEW c \in Clients,
           NEW action \in {"start", "stop", "restart"}, C!Begin(c, action)
    PROVE  CountInv'
<1>1. UnitType
  BY DEF UnitInv
<1>2. CASE action # "stop"
  <2>1. nRestarts' = 0 /\ starts' = <<>> /\ limited' = FALSE
    BY <1>2 DEF C!Begin
  <2>2. Cardinality(Starting') <= Cardinality(Clients) /\ Cardinality(Starting') \in Nat
        /\ Cardinality(Clients) \in Nat
    <3>1. Starting' \subseteq Clients
      BY DEF Starting
    <3> QED BY <3>1, FS_Subset, FS_CardinalityType DEF FewOperators
  <2>3. Len(starts') = 0
    BY <2>1
  <2>4. Len(starts') + Cardinality(Starting') <= nRestarts' + Cardinality(Clients)
    BY <2>1, <2>2, <2>3
  <2> QED BY <2>1, <2>4 DEF CountInv
<1>3. CASE action = "stop"
  <2>1. UNCHANGED <<starts, nRestarts, limited>>
    BY <1>3 DEF C!Begin, C!systemd
  <2>2. /\ button[c].pc = "idle"
        /\ button' = [C!Meddling(c) EXCEPT ![c] = [C!Idle EXCEPT !.pc = "call", !.action = action]]
    BY DEF C!Begin, C!At
  <2>3. [C!Idle EXCEPT !.pc = "call", !.action = action].action = action
    BY DEF C!Idle
  <2>4. button'[c].action = "stop" /\ Unturned(c)
    BY <1>1, <1>3, <2>2, <2>3, MeddlingIs, MeddlingTurns
  <2>5. Starting' = Starting
    BY <2>2, <2>4 DEF Starting, Unturned
  <2> QED BY <2>1, <2>5 DEF CountInv
<1> QED BY <1>2, <1>3

LEMMA LookCounts ==
    ASSUME FewOperators, UnitInv, CountInv, NEW c \in Clients, C!Poll(c) \/ C!Answer(c)
    PROVE  CountInv'
<1>1. UnitType
  BY DEF UnitInv
<1>2. UNCHANGED <<starts, nRestarts, limited>>
  BY DEF C!Poll, C!Answer, C!systemd
<1>3. Unturned(c) /\ button'[c].pc # "call"
  <2>1. CASE C!Answer(c)
    BY <1>1, <2>1 DEF C!Answer, Unturned, UnitType, C!Idle
  <2>2. CASE C!Poll(c)
    <3>1. \A d \in Clients : d # c => button'[d] = button[d]
      BY <1>1, <2>2 DEF C!Poll, UnitType
    <3>2. button'[c].pc \in {"answer", "await"}
      BY <1>1, <2>2 DEF C!Poll, UnitType, Press
    <3> QED BY <3>1, <3>2 DEF Unturned
  <2> QED BY <2>1, <2>2
<1>4. Cardinality(Starting') \in Nat /\ Cardinality(Starting') <= Cardinality(Starting)
  BY <1>1, <1>3, OneLess
<1> QED BY <1>1, <1>2, <1>4, Numbers DEF CountInv

LEMMA UnitCounts ==
    ASSUME FewOperators, UnitInv, CountInv, C!Dies \/ C!Quits \/ C!AutoRestarts \/ C!Tick
    PROVE  CountInv'
<1>1. UnitType
  BY DEF UnitInv
<1>2. Starting' = Starting
  <2>1. CASE C!Dies \/ C!Quits
    <3>1. button' = C!Ended
      BY <2>1 DEF C!Dies, C!Quits
    <3>2. \A c \in Clients : button'[c].pc = button[c].pc /\ button'[c].action = button[c].action
      BY <1>1, <3>1, EndedIs
    <3> QED BY <3>2 DEF Starting
  <2>2. CASE C!AutoRestarts \/ C!Tick
    BY <2>2 DEF Starting, C!AutoRestarts, C!Tick
  <2> QED BY <2>1, <2>2
<1>3. CASE C!Dies \/ C!Quits \/ C!Tick
  <2>1. UNCHANGED <<starts, nRestarts, limited>>
    BY <1>3 DEF C!Dies, C!Quits, C!Tick, C!systemd
  <2> QED BY <1>2, <2>1 DEF CountInv
<1>4. CASE C!AutoRestarts
  <2>1. nRestarts' = nRestarts + 1
    BY <1>4 DEF C!AutoRestarts
  <2>2. CASE C!Runs /\ limited' = limited
    <3>1. Len(starts') <= Len(starts) + 1 /\ Len(starts') \in Nat
      <4>1. \A s \in Seq(Nat) : Len(s) \in Nat
        OBVIOUS
      <4> QED BY <1>1, <2>2, <4>1, RunsIs
    <3> HIDE DEF Starting
    <3> QED BY <1>1, <1>2, <2>1, <2>2, <3>1, Numbers DEF CountInv
  <2>3. CASE C!TooOften /\ starts' = starts
    <3>1. nRestarts + 1 >= LoopRestarts + Cardinality(Starting)
      BY <1>1, <2>3, OftenIsMany
    <3> HIDE DEF Starting
    <3> QED BY <1>1, <1>2, <2>1, <2>3, <3>1, Numbers DEF CountInv
  <2> QED BY <1>4, <2>2, <2>3 DEF C!AutoRestarts
<1> QED BY <1>3, <1>4

LEMMA CountNext == FewOperators /\ UnitInv /\ CountInv /\ [C!Next]_unitVars => CountInv'
<1>1. FewOperators /\ UnitInv /\ CountInv /\ C!Next => CountInv'
  <2> SUFFICES ASSUME FewOperators, UnitInv, CountInv, C!Next PROVE CountInv'
    OBVIOUS
  <2>1. UnitType'
    BY UnitNext DEF UnitInv
  <2> QED BY <2>1, BeginCounts, CallCounts, LookCounts, UnitCounts DEF C!Next
<1>2. CountInv /\ UNCHANGED unitVars => CountInv'
  BY DEF CountInv, Starting, unitVars
<1> QED BY <1>1, <1>2

------------------------------------------------------------
\* Whatever systemd, the game and the operators do, the invariant of the unit
\* holds, and with few operators that of the count.
THEOREM UnitInvariance == ServerSpec => []UnitInv
<1>1. ServerInit => UnitInv
  BY UnitInit DEF ServerInit
<1>2. UnitInv /\ [ServerNext]_<<focus, vars, mapVars, unitVars>> => UnitInv'
  <2>1. ServerNext => [C!Next]_unitVars
    BY DEF ServerNext
  <2> QED BY <2>1, UnitNext
<1> QED BY <1>1, <1>2, PTL DEF ServerSpec

LEMMA CountInvariance == FewOperators => (ServerSpec => []CountInv)
<1> SUFFICES ASSUME FewOperators PROVE ServerSpec => []CountInv
  OBVIOUS
<1>1. ServerInit => CountInv
  BY CountInit DEF ServerInit
<1>2. UnitInv /\ CountInv /\ [ServerNext]_<<focus, vars, mapVars, unitVars>> => CountInv'
  <2>1. ServerNext => [C!Next]_unitVars
    BY DEF ServerNext
  <2> QED BY <2>1, CountNext
<1> QED BY <1>1, <1>2, UnitInvariance, PTL DEF ServerSpec

\* However many operators press the buttons, the answer to a request that no
\* other meddled with is true: what Control calls running has run for the whole
\* settle window, what it calls crashed or looping has ended since the call, a
\* stop has stopped, and ResetFailed keeps a start from being refused for the
\* crashes before it.
THEOREM VerdictsAreTrue == ServerSpec => []C!VerdictIsTrue
BY VerdictIsJudged, UnitInvariance, PTL

\* And a loop that systemd has given up is told as one, where so few operators
\* press the buttons that their own starts leave the count its slack.
THEOREM ButtonsAreTrue == FewOperators => (ServerSpec => []ButtonsAnswerTruly)
<1> SUFFICES ASSUME FewOperators PROVE ServerSpec => []ButtonsAnswerTruly
  OBVIOUS
<1>1. UnitInv /\ CountInv => C!GivenUpIsTold
  BY DEF CountInv, C!GivenUpIsTold, C!CrashLooping
<1>2. C!VerdictIsTrue /\ C!GivenUpIsTold => ButtonsAnswerTruly
  BY DEF ButtonsAnswerTruly, C!ButtonsAnswerTruly
<1> QED BY <1>1, <1>2, UnitInvariance, CountInvariance, VerdictsAreTrue, PTL

------------------------------------------------------------------------------
(***************************************************************************)
(* Induction, which the least element of a set of numbers gives.           *)
(***************************************************************************)
LEMMA LeastElement ==
    ASSUME NEW T \in SUBSET Nat, T # {} PROVE \E x \in T : \A y \in T : x <= y
<1> DEFINE R == OpToRel(<, Nat)
<1>1. IsWellFoundedOn(R, Nat)
  BY NatLessThanWellFounded
<1>2. R = {p \in Nat \X Nat : p[1] < p[2]}
  BY Zenon DEF OpToRel
<1> HIDE DEF R
<1>3. PICK x \in T : \A y \in T : ~ (<<y, x>> \in R)
  BY <1>1, WFMin
<1>4. ASSUME NEW y \in T, y < x PROVE FALSE
  <2>1. <<y, x>> \in Nat \X Nat /\ <<y, x>>[1] < <<y, x>>[2]
    BY <1>4
  <2> QED BY <2>1, <1>2, <1>3
<1> QED BY <1>4

\* What holds of zero, and of a number's successor with the number, holds of all.
LEMMA Induction ==
    ASSUME NEW T, 0 \in T, \A n \in Nat : n \in T => n + 1 \in T
    PROVE  Nat \subseteq T
<1> SUFFICES ASSUME Nat \ T # {} PROVE FALSE
  OBVIOUS
<1>1. PICK x \in Nat \ T : \A y \in Nat \ T : x <= y
  BY LeastElement
<1>2. x # 0 /\ x - 1 \in Nat /\ x - 1 \in T
  BY <1>1
<1> QED BY <1>1, <1>2

Table(s, S, n, g) == g = [i \in 0..n |-> IF i = 0 THEN <<>>
            ELSE IF s[i] \in S THEN Append(g[i - 1], s[i]) ELSE g[i - 1]]

\* The recursion of Only has a solution, so that its table is one.
LEMMA TableExists == ASSUME NEW s, NEW S PROVE \A n \in Nat : \E g : Table(s, S, n, g)
<1> DEFINE T == {n \in Nat : \E g : Table(s, S, n, g)}
<1>1. 0 \in T
  <2> DEFINE g == [i \in 0..0 |-> <<>>]
  <2>1. Table(s, S, 0, g)
    BY DEF Table
  <2> QED BY <2>1
<1>2. ASSUME NEW n \in Nat, n \in T PROVE n + 1 \in T
  <2>1. PICK g : Table(s, S, n, g)
    BY <1>2
  <2> DEFINE new == IF s[n + 1] \in S THEN Append(g[n], s[n + 1]) ELSE g[n]
  <2> DEFINE h == [i \in 0..(n + 1) |-> IF i = n + 1 THEN new ELSE g[i]]
  <2>2. \A i \in 0..n : h[i] = g[i]
    OBVIOUS
  <2>3. h[n + 1] = new
    OBVIOUS
  <2> HIDE DEF new
  <2>4. ASSUME NEW i \in 0..(n + 1) PROVE h[i] = IF i = 0 THEN <<>>
            ELSE IF s[i] \in S THEN Append(h[i - 1], s[i]) ELSE h[i - 1]
    <3>1. CASE i = n + 1
      BY <3>1, <2>2, <2>3 DEF new
    <3>2. CASE i \in 0..n
      <4>1. h[i] = g[i] /\ (i # 0 => h[i - 1] = g[i - 1])
        BY <3>2, <2>2
      <4>2. g[i] = IF i = 0 THEN <<>> ELSE IF s[i] \in S THEN Append(g[i - 1], s[i]) ELSE g[i - 1]
        BY <2>1, <3>2 DEF Table
      <4> QED BY <4>1, <4>2
    <3> QED BY <3>1, <3>2
  <2>5. h = [i \in 0..(n + 1) |-> h[i]]
    OBVIOUS
  <2>6. Table(s, S, n + 1, h)
    BY <2>4 DEF Table
  <2> QED BY <2>6
<1> HIDE DEF T
<1>3. Nat \subseteq T
  BY <1>1, <1>2, Induction
<1> QED BY <1>3 DEF T

\* Only is the last entry of its table.
LEMMA OnlyIs == ASSUME NEW s, NEW S, Len(s) \in Nat
   PROVE \E g : Table(s, S, Len(s), g) /\ Only(s, S) = g[Len(s)]
<1> DEFINE g == CHOOSE g : Table(s, S, Len(s), g)
<1>1. Table(s, S, Len(s), g)
  BY TableExists, Zenon
<1>2. Only(s, S) = g[Len(s)]
  BY Zenon DEF Table, Only
<1> QED BY <1>1, <1>2, Zenon

\* The entries of a table do not depend on what follows them.
LEMMA TableEntry ==
    ASSUME NEW s, NEW S, NEW n \in Nat, NEW g, Table(s, S, n, g), NEW i \in Nat, i + 1 <= n
    PROVE  g[i + 1] = IF s[i + 1] \in S THEN Append(g[i], s[i + 1]) ELSE g[i]
<1> DEFINE j == i + 1
<1>1. j \in 0..n /\ j # 0 /\ j - 1 = i
  OBVIOUS
<1> HIDE DEF j
<1>2. g[j] = IF s[j] \in S THEN Append(g[j - 1], s[j]) ELSE g[j - 1]
  BY <1>1, Zenon DEF Table
<1> QED BY <1>1, <1>2 DEF j

\* What holds of the empty sequence, and is kept when an element is appended,
\* holds of all sequences.
LEMMA SeqInduction ==
    ASSUME NEW X, NEW T, <<>> \in T,
           \A s \in Seq(X), x \in X : s \in T => Append(s, x) \in T
    PROVE  Seq(X) \subseteq T
<1> DEFINE N == {n \in Nat : \A s \in Seq(X) : Len(s) = n => s \in T}
<1>1. 0 \in N
  OBVIOUS
<1>2. ASSUME NEW n \in Nat, n \in N PROVE n + 1 \in N
  <2>1. ASSUME NEW s \in Seq(X), Len(s) = n + 1 PROVE s \in T
    <3> DEFINE front == SubSeq(s, 1, n)
    <3>1. front \in Seq(X) /\ Len(front) = n /\ s[n + 1] \in X
      BY <2>1
    <3>2. s = Append(front, s[n + 1])
      BY <2>1
    <3> HIDE DEF front
    <3>3. front \in T
      BY <1>2, <3>1
    <3> QED BY <3>1, <3>2, <3>3
  <2> QED BY <2>1
<1> HIDE DEF N
<1>3. Nat \subseteq N
  BY <1>1, <1>2, Induction
<1> QED BY <1>3 DEF N

\* What Only makes of the empty sequence, of a sequence with one element more, of
\* one with elements of S alone, of none, and of a concatenation.
LEMMA OnlyOfNothing == ASSUME NEW S PROVE Only(<<>>, S) = <<>>
<1>1. PICK g : Table(<<>>, S, 0, g) /\ Only(<<>>, S) = g[0]
  BY OnlyIs
<1> QED BY <1>1 DEF Table

LEMMA OnlyOfAppend ==
    ASSUME NEW X, NEW s \in Seq(X), NEW x \in X, NEW S
    PROVE  Only(Append(s, x), S) = IF x \in S THEN Append(Only(s, S), x) ELSE Only(s, S)
<1> DEFINE t == Append(s, x)
<1> DEFINE n == Len(s)
<1>1. n \in Nat /\ Len(t) = n + 1 /\ t[n + 1] = x /\ \A i \in 1..n : t[i] = s[i]
  OBVIOUS
<1> HIDE DEF t, n
<1>2. PICK g : Table(s, S, n, g) /\ Only(s, S) = g[n]
  BY <1>1, OnlyIs DEF n
<1>3. PICK h : Table(t, S, n + 1, h) /\ Only(t, S) = h[n + 1]
  BY <1>1, OnlyIs
<1> DEFINE T == {i \in Nat : i <= n => h[i] = g[i]}
<1>4. 0 \in T
  BY <1>1, <1>2, <1>3 DEF Table
<1>5. ASSUME NEW i \in Nat, i \in T PROVE i + 1 \in T
  <2> SUFFICES ASSUME i + 1 <= n PROVE h[i + 1] = g[i + 1]
    OBVIOUS
  <2>1. i + 1 \in 1..n /\ i + 1 \in 0..n /\ i + 1 \in 0..(n + 1) /\ (i + 1) - 1 = i
    BY <1>1
  <2>2. g[i + 1] = IF s[i + 1] \in S THEN Append(g[i], s[i + 1]) ELSE g[i]
    BY <1>1, <1>2, <2>1, TableEntry
  <2>3. h[i + 1] = IF t[i + 1] \in S THEN Append(h[i], t[i + 1]) ELSE h[i]
    BY <1>1, <1>3, <2>1, TableEntry
  <2>4. h[i] = g[i] /\ t[i + 1] = s[i + 1]
    BY <1>1, <1>5, <2>1
  <2> QED BY <2>2, <2>3, <2>4
<1> HIDE DEF T
<1>6. Nat \subseteq T
  BY <1>4, <1>5, Induction
<1>7. h[n] = g[n]
  BY <1>1, <1>6 DEF T
<1>8. h[n + 1] = IF x \in S THEN Append(h[n], x) ELSE h[n]
  BY <1>1, <1>3, TableEntry
<1> QED BY <1>2, <1>3, <1>7, <1>8 DEF t

LEMMA OnlyType ==
    ASSUME NEW X, NEW S, NEW s \in Seq(X) PROVE Only(s, S) \in Seq(X \intersect S)
<1> DEFINE T == {t \in Seq(X) : Only(t, S) \in Seq(X \intersect S)}
<1>1. <<>> \in T
  <2>1. <<>> \in Seq(X) /\ <<>> \in Seq(X \intersect S)
    OBVIOUS
  <2> QED BY <2>1, OnlyOfNothing
<1>2. ASSUME NEW t \in Seq(X), NEW x \in X, t \in T PROVE Append(t, x) \in T
  <2>1. Append(t, x) \in Seq(X)
    OBVIOUS
  <2>2. Only(t, S) \in Seq(X \intersect S)
    BY <1>2
  <2>3. x \in S => Append(Only(t, S), x) \in Seq(X \intersect S)
    BY <2>2
  <2>4. Only(Append(t, x), S) \in Seq(X \intersect S)
    BY <2>2, <2>3, OnlyOfAppend
  <2> QED BY <2>1, <2>4
<1> HIDE DEF T
<1>3. Seq(X) \subseteq T
  BY <1>1, <1>2, SeqInduction
<1> QED BY <1>3 DEF T

LEMMA OnlyOfAll == ASSUME NEW S, NEW s \in Seq(S) PROVE Only(s, S) = s
<1> DEFINE T == {t \in Seq(S) : Only(t, S) = t}
<1>1. <<>> \in T
  BY OnlyOfNothing
<1>2. ASSUME NEW t \in Seq(S), NEW x \in S, t \in T PROVE Append(t, x) \in T
  BY <1>2, OnlyOfAppend
<1> HIDE DEF T
<1>3. Seq(S) \subseteq T
  BY <1>1, <1>2, SeqInduction
<1> QED BY <1>3 DEF T

LEMMA OnlyOfNone ==
    ASSUME NEW X, NEW S, X \intersect S = {}, NEW s \in Seq(X) PROVE Only(s, S) = <<>>
<1> DEFINE T == {t \in Seq(X) : Only(t, S) = <<>>}
<1>1. <<>> \in T
  BY OnlyOfNothing
<1>2. ASSUME NEW t \in Seq(X), NEW x \in X, t \in T PROVE Append(t, x) \in T
  BY <1>2, OnlyOfAppend
<1> HIDE DEF T
<1>3. Seq(X) \subseteq T
  BY <1>1, <1>2, SeqInduction
<1> QED BY <1>3 DEF T

LEMMA OnlyOfConcat ==
    ASSUME NEW X, NEW S, NEW s \in Seq(X), NEW r \in Seq(X)
    PROVE  Only(s \o r, S) = Only(s, S) \o Only(r, S)
<1> DEFINE T == {t \in Seq(X) : Only(s \o t, S) = Only(s, S) \o Only(t, S)}
<1>0. Only(s, S) \in Seq(X \intersect S)
  BY OnlyType
<1>1. <<>> \in T
  <2>1. \A U : \A q \in Seq(U) : q \o <<>> = q
    OBVIOUS
  <2>2. s \o <<>> = s /\ Only(s, S) \o <<>> = Only(s, S)
    BY <1>0, <2>1
  <2>3. <<>> \in Seq(X)
    OBVIOUS
  <2> QED BY <2>2, <2>3, OnlyOfNothing
<1>2. ASSUME NEW t \in Seq(X), NEW x \in X, t \in T PROVE Append(t, x) \in T
  <2>1. s \o Append(t, x) = Append(s \o t, x) /\ s \o t \in Seq(X)
    OBVIOUS
  <2>2. Only(t, S) \in Seq(X \intersect S)
    BY OnlyType
  <2>3. Only(Append(s \o t, x), S) = IF x \in S THEN Append(Only(s \o t, S), x) ELSE Only(s \o t, S)
    BY <2>1, OnlyOfAppend
  <2>4. Only(Append(t, x), S) = IF x \in S THEN Append(Only(t, S), x) ELSE Only(t, S)
    BY OnlyOfAppend
  <2>5. Only(s \o t, S) = Only(s, S) \o Only(t, S)
    BY <1>2
  <2>6. x \in S => Append(Only(s, S) \o Only(t, S), x) = Only(s, S) \o Append(Only(t, S), x)
    <3> SUFFICES ASSUME x \in S
                 PROVE  Append(Only(s, S) \o Only(t, S), x) = Only(s, S) \o Append(Only(t, S), x)
      OBVIOUS
    <3> DEFINE Y == X \intersect S
    <3> DEFINE p == Only(s, S)
    <3> DEFINE q == Only(t, S)
    <3>1. p \in Seq(Y) /\ q \in Seq(Y) /\ x \in Y
      BY <1>0, <2>2
    <3> HIDE DEF p, q, Y
    <3>2. p \o q \in Seq(Y) /\ <<x>> \in Seq(Y)
      BY <3>1
    <3>3. Append(p \o q, x) = (p \o q) \o <<x>> /\ Append(q, x) = q \o <<x>>
      BY <3>1, <3>2, AppendIsConcat
    <3>4. (p \o q) \o <<x>> = p \o (q \o <<x>>)
      BY <3>1, <3>2, ConcatAssociative
    <3> QED BY <3>3, <3>4 DEF p, q
  <2>7. Only(s \o Append(t, x), S) = Only(s, S) \o Only(Append(t, x), S)
    BY <2>1, <2>3, <2>4, <2>5, <2>6
  <2> QED BY <2>7
<1> HIDE DEF T
<1>3. Seq(X) \subseteq T
  BY <1>1, <1>2, SeqInduction
<1> QED BY <1>3 DEF T

Agree(s, r, S) == /\ Len(s) = Len(r)
                  /\ \A i \in 1..Len(s) : s[i] = r[i] \/ (s[i] \notin S /\ r[i] \notin S)

\* Only sees no difference in elements outside of S.
LEMMA OnlyOfAgreeing ==
    ASSUME NEW X, NEW S, NEW s \in Seq(X), NEW r \in Seq(X), Agree(s, r, S)
    PROVE  Only(s, S) = Only(r, S)
<1> DEFINE T == {t \in Seq(X) : \A u \in Seq(X) : Agree(t, u, S) => Only(t, S) = Only(u, S)}
<1>1. <<>> \in T
  BY OnlyOfNothing DEF Agree
<1>2. ASSUME NEW t \in Seq(X), NEW x \in X, t \in T PROVE Append(t, x) \in T
  <2> SUFFICES ASSUME NEW u \in Seq(X), Agree(Append(t, x), u, S)
               PROVE  Only(Append(t, x), S) = Only(u, S)
    OBVIOUS
  <2> DEFINE n == Len(t)
  <2> DEFINE front == SubSeq(u, 1, n)
  <2> DEFINE y == u[n + 1]
  <2>1. Len(Append(t, x)) = n + 1 /\ n \in Nat /\ Len(u) = n + 1
    BY DEF Agree
  <2>2. front \in Seq(X) /\ Len(front) = n /\ y \in X /\ u = Append(front, y)
    BY <2>1
  <2>3. \A i \in 1..n : Append(t, x)[i] = t[i] /\ front[i] = u[i]
    BY <2>1, <2>2
  <2>4. Append(t, x)[n + 1] = x
    OBVIOUS
  <2> HIDE DEF front, y
  <2>5. Agree(t, front, S)
    BY <2>1, <2>2, <2>3 DEF Agree
  <2>6. x = y \/ (x \notin S /\ y \notin S)
    BY <2>1, <2>4 DEF Agree, y
  <2>7. Only(t, S) = Only(front, S)
    BY <1>2, <2>2, <2>5
  <2>8. Only(Append(t, x), S) = IF x \in S THEN Append(Only(t, S), x) ELSE Only(t, S)
    BY OnlyOfAppend
  <2>9. Only(u, S) = IF y \in S THEN Append(Only(front, S), y) ELSE Only(front, S)
    BY <2>2, OnlyOfAppend
  <2> QED BY <2>6, <2>7, <2>8, <2>9
<1> HIDE DEF T
<1>3. Seq(X) \subseteq T
  BY <1>1, <1>2, SeqInduction
<1> QED BY <1>3 DEF T
------------------------------------------------------------------------------
(***************************************************************************)
(* The block that is found again where it was written.                     *)
(***************************************************************************)
\* The least and the greatest element of a set of numbers.
LEMMA MinIs ==
    ASSUME NEW S \in SUBSET Nat, S # {} PROVE Min(S) \in S /\ \A y \in S : Min(S) <= y
<1>1. \E x \in S : \A y \in S : x <= y
  BY LeastElement
<1> QED BY <1>1 DEF Min

LEMMA MaxIs ==
    ASSUME NEW n \in Nat, NEW S \in SUBSET (0..n), S # {}
    PROVE  Max(S) \in S /\ \A y \in S : Max(S) >= y
<1> DEFINE T == {n - x : x \in S}
<1>1. T \in SUBSET Nat /\ T # {}
  <2>1. \A x \in S : n - x \in Nat
    OBVIOUS
  <2> QED BY <2>1
<1>2. PICK z \in T : \A y \in T : z <= y
  BY <1>1, LeastElement
<1>3. PICK x \in S : z = n - x
  BY <1>2
<1>4. ASSUME NEW y \in S PROVE x >= y
  <2>1. n - x <= n - y
    BY <1>2, <1>3
  <2> QED BY <2>1
<1> QED BY <1>4 DEF Max

\* A block ends at the first end marker that closes one.
LEMMA BlockEndIs ==
    ASSUME NEW f \in Seq(Lines), HasBlock(f)
    PROVE  BlockEnd(f) \in Closings(f) /\ \A x \in Closings(f) : BlockEnd(f) <= x
<1>1. Closings(f) \in SUBSET Nat
  BY DEF Closings
<1>2. Closings(f) # {}
  BY DEF HasBlock
<1> HIDE DEF Closings
<1> QED BY <1>1, <1>2, MinIs DEF BlockEnd

\* No end marker closes a block.
Open(f) == \A e \in 1..Len(f), b \in 1..Len(f) : b <= e /\ f[b] = Begin => f[e] # End

\* Nothing above the block is a block.
LEMMA BeforeIsOpen == ASSUME NEW f \in Seq(Lines) PROVE Open(Before(f)) /\ Before(f) \in Seq(Lines)
<1>1. CASE ~HasBlock(f)
  BY <1>1 DEF HasBlock, Closings, Before, Open
<1>2. CASE HasBlock(f)
  <2> DEFINE e == BlockEnd(f)
  <2> DEFINE B == {b \in 1..e : f[b] = Begin}
  <2>1. e \in Closings(f) /\ \A x \in Closings(f) : e <= x
    BY <1>2, BlockEndIs
  <2>2. e \in 1..Len(f) /\ f[e] = End /\ B # {} /\ B \in SUBSET (0..e) /\ e \in Nat
    BY <2>1 DEF Closings
  <2>3. BlockStart(f) \in B
    <3> HIDE DEF B
    <3>1. Max(B) \in B
      BY <2>2, MaxIs
    <3> QED BY <3>1 DEF BlockStart, B
  <2> DEFINE b == BlockStart(f)
  <2>4. b \in 1..e
    BY <2>3
  <2>5. \A x \in 1..(b - 1) : x < e
    BY <2>2, <2>4
  <2>6. \A x \in 1..(e - 1) : \A y \in 1..x : f[y] = Begin => f[x] # End
    BY <2>1, <2>2 DEF Closings
  <2>7. Before(f) = SubSeq(f, 1, b - 1)
    BY <1>2 DEF Before
  <2> HIDE DEF e, b
  <2>8. /\ Before(f) \in Seq(Lines) /\ Len(Before(f)) = b - 1
        /\ \A i \in 1..(b - 1) : Before(f)[i] = f[i]
    BY <2>2, <2>4, <2>7
  <2> QED BY <2>2, <2>4, <2>6, <2>8 DEF Open
<1> QED BY <1>1, <1>2

\* The text below the block is text.
LEMMA AfterType == ASSUME NEW f \in Seq(Lines) PROVE After(f) \in Seq(Lines)
<1>1. CASE ~HasBlock(f)
  BY <1>1 DEF After
<1>2. CASE HasBlock(f)
  <2> DEFINE e == BlockEnd(f)
  <2>1. e \in Closings(f)
    BY <1>2, BlockEndIs
  <2>2. e \in 1..Len(f)
    BY <2>1 DEF Closings
  <2>3. After(f) = SubSeq(f, e + 1, Len(f))
    BY <1>2 DEF After
  <2> HIDE DEF e
  <2> QED BY <2>2, <2>3
<1> QED BY <1>1, <1>2

LEMMA MarkersAreNoRows == Begin # End /\ Begin \notin Rows /\ End \notin Rows
<1>1. Begin.is = "begin" /\ End.is = "end" /\ \A r \in Rows : r.is = "row"
  BY DEF Begin, End, Rows
<1> QED BY <1>1

\* The elements of a concatenation.
LEMMA Joined ==
    ASSUME NEW S, NEW s \in Seq(S), NEW t \in Seq(S),
           NEW k \in Nat, k = Len(s), NEW l \in Nat, l = Len(t)
    PROVE  /\ s \o t \in Seq(S)
           /\ Len(s \o t) = k + l
           /\ \A i \in 1..k : (s \o t)[i] = s[i]
           /\ \A i \in 1..l : (s \o t)[k + i] = t[i]
<1>1. s \o t \in Seq(S)
  OBVIOUS
<1>2. Len(s \o t) = k + l
  OBVIOUS
<1>3. \A i \in 1..k : (s \o t)[i] = s[i]
  OBVIOUS
<1>4. \A i \in 1..l : (s \o t)[k + i] = t[i]
  OBVIOUS
<1> QED BY <1>1, <1>2, <1>3, <1>4

\* The lines of a file with a block.
LaidOut(f, B, rows, A, n, m, k) ==
    /\ Len(f) = n + m + 2 + k
    /\ \A i \in 1..n : f[i] = B[i]
    /\ f[n + 1] = Begin
    /\ \A i \in 1..m : f[n + 1 + i] = rows[i]
    /\ f[n + m + 2] = End
    /\ \A i \in 1..k : f[n + m + 2 + i] = A[i]

LEMMA Layout ==
    ASSUME NEW B \in Seq(Lines), NEW rows \in Seq(Rows), NEW A \in Seq(Lines),
           NEW n \in Nat, n = Len(B), NEW m \in Nat, m = Len(rows), NEW k \in Nat, k = Len(A),
           NEW f, f = B \o <<Begin>> \o rows \o <<End>> \o A
    PROVE  f \in Seq(Lines) /\ LaidOut(f, B, rows, A, n, m, k)
<1>1. rows \in Seq(Lines) /\ <<Begin>> \in Seq(Lines) /\ <<End>> \in Seq(Lines)
  BY DEF Lines
<1>2. 1 = Len(<<Begin>>) /\ 1 = Len(<<End>>) /\ <<Begin>>[1] = Begin /\ <<End>>[1] = End
  OBVIOUS
<1>3. 1 \in Nat
  OBVIOUS
<1>4. PICK p : p = B \o <<Begin>>
  OBVIOUS
<1>5. PICK pn \in Nat : pn = n + 1
  OBVIOUS
<1>6. /\ p \in Seq(Lines) /\ pn = Len(p)
      /\ \A i \in 1..n : p[i] = B[i]
      /\ \A i \in 1..1 : p[n + i] = <<Begin>>[i]
  BY <1>1, <1>2, <1>3, <1>4, <1>5, Joined
<1>7. PICK q : q = p \o rows
  OBVIOUS
<1>8. PICK qn \in Nat : qn = pn + m
  OBVIOUS
<1>9. /\ q \in Seq(Lines) /\ qn = Len(q)
      /\ \A i \in 1..pn : q[i] = p[i]
      /\ \A i \in 1..m : q[pn + i] = rows[i]
  BY <1>1, <1>6, <1>7, <1>8, Joined
<1>10. PICK r : r = q \o <<End>>
  OBVIOUS
<1>11. PICK rn \in Nat : rn = qn + 1
  OBVIOUS
<1>12. /\ r \in Seq(Lines) /\ rn = Len(r)
       /\ \A i \in 1..qn : r[i] = q[i]
       /\ \A i \in 1..1 : r[qn + i] = <<End>>[i]
  BY <1>1, <1>2, <1>3, <1>9, <1>10, <1>11, Joined
<1>13. f = r \o A
  BY <1>4, <1>7, <1>10
<1>14. /\ f \in Seq(Lines) /\ Len(f) = rn + k
       /\ \A i \in 1..rn : f[i] = r[i]
       /\ \A i \in 1..k : f[rn + i] = A[i]
  <2>1. /\ r \o A \in Seq(Lines) /\ Len(r \o A) = rn + k
        /\ \A i \in 1..rn : (r \o A)[i] = r[i]
        /\ \A i \in 1..k : (r \o A)[rn + i] = A[i]
    <3> HIDE <1>13
    <3> QED BY <1>12, Joined
  <2> QED BY <1>13, <2>1
<1>15. rn = n + m + 2 /\ pn = n + 1 /\ qn = n + 1 + m
  BY <1>5, <1>8, <1>11
<1>16. f \in Seq(Lines) /\ Len(f) = n + m + 2 + k
  BY <1>14, <1>15
<1>17. \A i \in 1..n : f[i] = B[i]
  BY <1>6, <1>9, <1>12, <1>14, <1>15
<1>18. f[n + 1] = Begin
  <2>1. p[n + 1] = Begin
    BY <1>2, <1>6
  <2> QED BY <1>9, <1>12, <1>14, <1>15, <2>1
<1>19. \A i \in 1..m : f[n + 1 + i] = rows[i]
  BY <1>9, <1>12, <1>14, <1>15
<1>20. f[n + m + 2] = End
  <2>1. r[qn + 1] = End
    BY <1>2, <1>12
  <2>2. qn + 1 = n + m + 2 /\ n + m + 2 \in 1..rn
    BY <1>15
  <2> QED BY <1>14, <2>1, <2>2
<1>21. \A i \in 1..k : f[n + m + 2 + i] = A[i]
  BY <1>14, <1>15
<1> QED BY <1>16, <1>17, <1>18, <1>19, <1>20, <1>21 DEF LaidOut

\* The rows between two markers are the rows of the block.
Between(f, n, m, rows, block) ==
    /\ f[n + 1] = Begin /\ f[n + m + 2] = End
    /\ \A i \in 1..m : f[n + 1 + i] = rows[i]
    /\ Len(block) = m + 2
    /\ \A i \in 1..(m + 2) : block[i] = f[n + i]

\* The rows of a block are what lies between its markers.
LEMMA RowsOfBlock ==
    ASSUME NEW n \in Nat, NEW m \in Nat, NEW rows \in Seq(Rows), m = Len(rows),
           NEW f, NEW block \in Seq(Lines), Between(f, n, m, rows, block)
    PROVE  Only(block, Rows) = rows
<1> USE DEF Between
<1>1. rows \in Seq(Lines) /\ <<Begin>> \in Seq(Lines) /\ <<End>> \in Seq(Lines)
  BY DEF Lines
<1>2. 1 = Len(<<Begin>>) /\ 1 = Len(<<End>>) /\ <<Begin>>[1] = Begin /\ <<End>>[1] = End /\ 1 \in Nat
  OBVIOUS
<1>3. PICK front : front = <<Begin>> \o rows
  OBVIOUS
<1>4. PICK fn \in Nat : fn = 1 + m
  OBVIOUS
<1>5. /\ front \in Seq(Lines) /\ fn = Len(front)
      /\ \A i \in 1..1 : front[i] = <<Begin>>[i]
      /\ \A i \in 1..m : front[1 + i] = rows[i]
  BY <1>1, <1>2, <1>3, <1>4, Joined
<1>6. PICK parts : parts = front \o <<End>>
  OBVIOUS
<1>7. /\ parts \in Seq(Lines) /\ Len(parts) = fn + 1
      /\ \A i \in 1..fn : parts[i] = front[i]
      /\ \A i \in 1..1 : parts[fn + i] = <<End>>[i]
  BY <1>1, <1>2, <1>5, <1>6, Joined
<1>8. ASSUME NEW i \in 1..(m + 2) PROVE block[i] = parts[i]
  <2>1. CASE i = 1
    BY <1>2, <1>4, <1>5, <1>7, <2>1
  <2>2. CASE i = m + 2
    BY <1>2, <1>4, <1>7, <2>2
  <2>3. ASSUME NEW j \in 1..m, i = 1 + j PROVE block[i] = parts[i]
    <3>1. parts[i] = front[1 + j]
      <4>1. 1 + j \in 1..fn
        BY <1>4
      <4> QED BY <1>7, <2>3, <4>1
    <3>2. block[i] = f[n + 1 + j]
      <4>1. block[i] = f[n + i] /\ n + i = n + 1 + j
        BY <2>3
      <4> QED BY <4>1
    <3> QED BY <1>5, <3>1, <3>2
  <2>4. i # 1 /\ i # m + 2 => i - 1 \in 1..m /\ i = 1 + (i - 1)
    OBVIOUS
  <2> QED BY <2>1, <2>2, <2>3, <2>4
<1>9. block = parts
  BY <1>4, <1>7, <1>8, SeqEqual
<1>10. Only(<<Begin>>, Rows) = <<>> /\ Only(<<End>>, Rows) = <<>>
  <2>1. {Begin} \intersect Rows = {} /\ {End} \intersect Rows = {}
    BY MarkersAreNoRows
  <2>2. <<Begin>> \in Seq({Begin}) /\ <<End>> \in Seq({End})
    OBVIOUS
  <2> QED BY <2>1, <2>2, OnlyOfNone
<1>11. Only(front, Rows) = Only(<<Begin>>, Rows) \o Only(rows, Rows)
  BY <1>1, <1>3, OnlyOfConcat
<1>12. Only(block, Rows) = Only(front, Rows) \o Only(<<End>>, Rows)
  <2>1. front \in Seq(Lines)
    BY <1>5
  <2>2. Only(front \o <<End>>, Rows) = Only(front, Rows) \o Only(<<End>>, Rows)
    BY <1>1, <2>1, OnlyOfConcat
  <2> QED BY <1>6, <1>9, <2>2
<1>13. Only(rows, Rows) = rows /\ (<<>> \o rows) \o <<>> = rows
  BY OnlyOfAll, ConcatEmptySeq
<1> QED BY <1>10, <1>11, <1>12, <1>13

\* What a file with a block in it has for its markers.
Marked(f, n, m, last) ==
    /\ last = n + m + 2 /\ last <= Len(f)
    /\ \A e \in 1..n, b \in 1..n : b <= e /\ f[b] = Begin => f[e] # End
    /\ f[n + 1] = Begin
    /\ \A i \in (n + 2)..(n + 1 + m) : f[i] \in Rows
    /\ f[last] = End

\* The markers of such a file are found.
LEMMA MarkersFound ==
    ASSUME NEW n \in Nat, NEW m \in Nat, NEW last \in Nat, NEW f \in Seq(Lines),
           Marked(f, n, m, last)
    PROVE  HasBlock(f) /\ BlockEnd(f) = last /\ BlockStart(f) = n + 1
<1> USE DEF Marked
<1>1. Begin # End /\ Begin \notin Rows /\ End \notin Rows
  BY MarkersAreNoRows
<1>2. ASSUME NEW e \in 1..last, f[e] = End, NEW b \in 1..e, f[b] = Begin PROVE e = last
  <2>1. CASE e \in 1..n
    BY <1>2, <2>1
  <2>2. CASE e = n + 1
    BY <1>1, <1>2, <2>2
  <2>3. CASE e \in (n + 2)..(n + 1 + m)
    BY <1>1, <1>2, <2>3
  <2> QED BY <2>1, <2>2, <2>3
<1>3. last \in 1..Len(f) /\ n + 1 \in 1..last
  OBVIOUS
<1>4. last \in Closings(f) /\ HasBlock(f)
  BY <1>3 DEF Closings, HasBlock
<1>5. BlockEnd(f) = last
  <2>1. BlockEnd(f) \in Closings(f) /\ BlockEnd(f) <= last
    BY <1>4, BlockEndIs
  <2>2. PICK e \in 1..Len(f) : e = BlockEnd(f) /\ f[e] = End /\ \E b \in 1..e : f[b] = Begin
    BY <2>1 DEF Closings
  <2>3. e \in 1..last
    BY <2>1, <2>2
  <2> QED BY <1>2, <2>2, <2>3
<1>6. BlockStart(f) = n + 1
  <2> DEFINE S == {b \in 1..last : f[b] = Begin}
  <2>1. S \in SUBSET (0..last) /\ n + 1 \in S
    BY <1>3
  <2>2. ASSUME NEW b \in S PROVE b <= n + 1
    <3>1. b \in 1..last /\ f[b] = Begin
      OBVIOUS
    <3>2. b \notin (n + 2)..(n + 1 + m) /\ b # last
      BY <1>1, <3>1
    <3> QED BY <3>1, <3>2
  <2>3. BlockStart(f) = Max(S)
    BY <1>5 DEF BlockStart
  <2> HIDE DEF S
  <2>4. Max(S) \in S /\ Max(S) >= n + 1
    BY <2>1, MaxIs
  <2>5. Max(S) <= n + 1 /\ Max(S) \in 0..last
    BY <2>1, <2>2, <2>4
  <2> QED BY <2>3, <2>4, <2>5
<1> QED BY <1>4, <1>5, <1>6

\* The elements of a part of a sequence.
LEMMA Cut ==
    ASSUME NEW S, NEW s \in Seq(S), NEW a \in Nat, NEW w \in Nat,
           NEW l \in Nat, l = Len(s), a + w <= l
    PROVE  /\ SubSeq(s, a + 1, a + w) \in Seq(S)
           /\ Len(SubSeq(s, a + 1, a + w)) = w
           /\ \A i \in 1..w : SubSeq(s, a + 1, a + w)[i] = s[a + i]
<1>1. \A i \in (a + 1)..(a + w) : s[i] \in S
  OBVIOUS
<1>2. SubSeq(s, a + 1, a + w) \in Seq(S)
  BY <1>1, SubSeqProperties
<1>3. Len(SubSeq(s, a + 1, a + w)) = w
  OBVIOUS
<1>4. \A i \in 1..w : SubSeq(s, a + 1, a + w)[i] = s[a + i]
  OBVIOUS
<1> QED BY <1>2, <1>3, <1>4

\* So are its three parts.
LEMMA PartsFound ==
    ASSUME NEW B \in Seq(Lines), Open(B), NEW A \in Seq(Lines), NEW rows \in Seq(Rows),
           NEW n \in Nat, n = Len(B), NEW m \in Nat, m = Len(rows), NEW k \in Nat, k = Len(A),
           NEW last \in Nat, last = n + m + 2,
           NEW f \in Seq(Lines), LaidOut(f, B, rows, A, n, m, k)
    PROVE  Before(f) = B /\ After(f) = A /\ Extract(f) = rows
<1>0. /\ Len(f) = last + k
      /\ \A i \in 1..n : f[i] = B[i]
      /\ f[n + 1] = Begin
      /\ \A i \in 1..m : f[n + 1 + i] = rows[i]
      /\ f[last] = End
      /\ \A i \in 1..k : f[last + i] = A[i]
  BY DEF LaidOut
<1> USE <1>0
<1>1. \A i \in (n + 2)..(n + 1 + m) : f[i] \in Rows
  <2> TAKE i \in (n + 2)..(n + 1 + m)
  <2>1. PICK j \in 1..m : i = n + 1 + j
    <3>1. i - n - 1 \in 1..m /\ i = n + 1 + (i - n - 1)
      OBVIOUS
    <3> QED BY <3>1
  <2>2. rows[j] \in Rows
    OBVIOUS
  <2> QED BY <2>1, <2>2
<1>2. HasBlock(f) /\ BlockEnd(f) = last /\ BlockStart(f) = n + 1
  <2>1. \A e \in 1..n, b \in 1..n : b <= e /\ f[b] = Begin => f[e] # End
    BY DEF Open
  <2>2. last <= Len(f)
    OBVIOUS
  <2>3. Marked(f, n, m, last)
    BY <1>1, <2>1, <2>2 DEF Marked
  <2> QED BY <2>3, MarkersFound
<1>3. PICK l \in Nat : l = Len(f)
  OBVIOUS
<1>4. Before(f) = B
  <2>1. Before(f) = SubSeq(f, 0 + 1, 0 + n)
    <3>1. (n + 1) - 1 = 0 + n /\ 1 = 0 + 1
      OBVIOUS
    <3> QED BY <1>2, <3>1 DEF Before
  <2>2. 0 \in Nat /\ 0 + n <= l
    BY <1>3
  <2>3. PICK s : s = SubSeq(f, 0 + 1, 0 + n)
    OBVIOUS
  <2>4. s \in Seq(Lines) /\ Len(s) = n /\ \A i \in 1..n : s[i] = f[0 + i]
    BY <1>3, <2>2, <2>3, Cut
  <2>5. \A i \in 1..n : f[0 + i] = B[i]
    OBVIOUS
  <2> QED BY <2>1, <2>3, <2>4, <2>5, SeqEqual
<1>5. After(f) = A
  <2>1. After(f) = SubSeq(f, last + 1, last + k)
    BY <1>2 DEF After
  <2>2. last + k <= l
    BY <1>3
  <2>3. PICK s : s = SubSeq(f, last + 1, last + k)
    OBVIOUS
  <2>4. s \in Seq(Lines) /\ Len(s) = k /\ \A i \in 1..k : s[i] = f[last + i]
    BY <1>3, <2>2, <2>3, Cut
  <2>5. s = A
    BY <2>4, SeqEqual
  <2> QED BY <2>1, <2>3, <2>5
<1>6. Extract(f) = rows
  <2>1. Extract(f) = Only(SubSeq(f, n + 1, n + (m + 2)), Rows)
    <3>1. last = n + (m + 2)
      OBVIOUS
    <3> QED BY <1>2, <3>1 DEF Extract
  <2>2. PICK w \in Nat : w = m + 2
    <3>1. m + 2 \in Nat
      OBVIOUS
    <3> QED BY <3>1
  <2>3. PICK s : s = SubSeq(f, n + 1, n + w)
    OBVIOUS
  <2>4. s \in Seq(Lines) /\ Len(s) = w /\ \A i \in 1..w : s[i] = f[n + i]
    <3>1. n + w <= l
      BY <1>3, <2>2
    <3> QED BY <1>3, <2>3, <3>1, Cut
  <2>5. Only(s, Rows) = rows
    <3>1. Between(f, n, m, rows, s)
      <4>1. f[n + m + 2] = End
        OBVIOUS
      <4> QED BY <2>2, <2>4, <4>1 DEF Between
    <3> QED BY <2>4, <3>1, RowsOfBlock
  <2> QED BY <2>1, <2>2, <2>3, <2>5
<1> QED BY <1>4, <1>5, <1>6

\* The block is found where it was written.
Placed(B, rows, A) == B \o <<Begin>> \o rows \o <<End>> \o A

\* What ApplyManagedBlock writes is what the next reader finds.
THEOREM BlockIsFound ==
    ASSUME NEW B \in Seq(Lines), Open(B), NEW A \in Seq(Lines), NEW rows \in Seq(Rows)
    PROVE  /\ Placed(B, rows, A) \in Seq(Lines)
           /\ Before(Placed(B, rows, A)) = B
           /\ After(Placed(B, rows, A)) = A
           /\ Extract(Placed(B, rows, A)) = rows
<1> DEFINE f == Placed(B, rows, A)
<1>1. PICK n \in Nat, m \in Nat, k \in Nat : n = Len(B) /\ m = Len(rows) /\ k = Len(A)
  <2>1. Len(B) \in Nat /\ Len(rows) \in Nat /\ Len(A) \in Nat
    OBVIOUS
  <2> QED BY <2>1
<1>2. PICK last \in Nat : last = n + m + 2
  <2>1. n + m + 2 \in Nat
    OBVIOUS
  <2> QED BY <2>1
<1>3. f \in Seq(Lines) /\ LaidOut(f, B, rows, A, n, m, k)
  <2>1. PICK g : g = B \o <<Begin>> \o rows \o <<End>> \o A
    OBVIOUS
  <2>2. g \in Seq(Lines) /\ LaidOut(g, B, rows, A, n, m, k)
    BY <1>1, <2>1, Layout
  <2> QED BY <2>1, <2>2 DEF Placed
<1> HIDE DEF f
<1>4. ASSUME NEW g \in Seq(Lines), LaidOut(g, B, rows, A, n, m, k)
      PROVE  Before(g) = B /\ After(g) = A /\ Extract(g) = rows
  BY <1>1, <1>2, <1>4, PartsFound
<1>5. Before(f) = B /\ After(f) = A /\ Extract(f) = rows
  BY <1>3, <1>4, Zenon
<1> QED BY <1>3, <1>5 DEF f

------------------------------------------------------------------------------
(***************************************************************************)
(* The rows a request writes.                                              *)
(***************************************************************************)
LEMMA ExtractType == ASSUME NEW f \in Seq(Lines) PROVE Extract(f) \in Seq(Rows)
<1>1. CASE ~HasBlock(f)
  BY <1>1 DEF Extract
<1>2. CASE HasBlock(f)
  <2>1. BlockEnd(f) \in 1..Len(f) /\ \E b \in 1..BlockEnd(f) : f[b] = Begin
    BY <1>2, BlockEndIs DEF Closings
  <2> DEFINE B == {b \in 1..BlockEnd(f) : f[b] = Begin}
  <2>2. B \in SUBSET (0..BlockEnd(f)) /\ B # {} /\ BlockEnd(f) \in Nat
    BY <2>1
  <2>3. Max(B) \in B
    <3> HIDE DEF B
    <3> QED BY <2>2, MaxIs
  <2>4. BlockStart(f) \in 1..BlockEnd(f)
    BY <2>3 DEF BlockStart
  <2>5. PICK s : s = SubSeq(f, BlockStart(f), BlockEnd(f))
    OBVIOUS
  <2>6. s \in Seq(Lines)
    <3> DEFINE e == BlockEnd(f)
    <3> DEFINE b == BlockStart(f)
    <3>1. e \in 1..Len(f) /\ b \in 1..e /\ s = SubSeq(f, b, e)
      BY <2>1, <2>4, <2>5
    <3> HIDE DEF e, b
    <3>2. b \in Int /\ e \in Int /\ \A i \in b..e : f[i] \in Lines
      BY <3>1
    <3> QED BY <3>1, <3>2, SubSeqProperties
  <2>7. Only(s, Rows) \in Seq(Lines \intersect Rows)
    BY <2>6, OnlyType
  <2>8. Lines \intersect Rows = Rows
    BY DEF Lines
  <2> QED BY <1>2, <2>5, <2>7, <2>8 DEF Extract
<1> QED BY <1>1, <1>2

\* Rows are rows.
LEMMA RowType ==
    ASSUME NEW n \in Names, NEW v \in Values \union {Bare}
    PROVE  Row(n, v) \in Rows /\ Row(n, v).name = n
BY DEF Row, Rows

\* Only what a filter drops can be lost by a second use of it.
LEMMA OnlyTwice == ASSUME NEW X, NEW S, NEW s \in Seq(X) PROVE Only(Only(s, S), S) = Only(s, S)
<1>1. Only(s, S) \in Seq(X \intersect S)
  BY OnlyType
<1>2. Only(s, S) \in Seq(S)
  BY <1>1
<1> QED BY <1>2, OnlyOfAll

\* The rows with one exchanged for another are the rows but for that one.
LEMMA Exchanged ==
    ASSUME NEW rows \in Seq(Rows), NEW n \in Names, NEW v \in Values \union {Bare}
    PROVE  /\ Sans(rows, n) \o <<Row(n, v)>> \in Seq(Rows)
           /\ Only(Sans(rows, n) \o <<Row(n, v)>>, NotNamed({n})) = Only(rows, NotNamed({n}))
<1> DEFINE N == NotNamed({n})
<1> DEFINE kept == Only(rows, N)
<1>1. kept \in Seq(Rows)
  <2>1. kept \in Seq(Rows \intersect N)
    BY OnlyType
  <2> QED BY <2>1
<1>2. <<Row(n, v)>> \in Seq(Rows)
  BY RowType
<1>3. Only(<<Row(n, v)>>, N) = <<>>
  <2>1. {Row(n, v)} \intersect N = {}
    BY RowType DEF NotNamed
  <2>2. <<Row(n, v)>> \in Seq({Row(n, v)})
    OBVIOUS
  <2> HIDE DEF N
  <2> QED BY <2>1, <2>2, OnlyOfNone
<1>4. Only(kept, N) = kept
  BY OnlyTwice
<1>5. Sans(rows, n) = kept
  BY DEF Sans
<1> HIDE DEF N, kept
<1>6. Only(kept \o <<Row(n, v)>>, N) = Only(kept, N) \o Only(<<Row(n, v)>>, N)
  BY <1>1, <1>2, OnlyOfConcat
<1>7. kept \o <<>> = kept
  BY <1>1, ConcatEmptySeq
<1>8. kept \o <<Row(n, v)>> \in Seq(Rows)
  BY <1>1, <1>2
<1>9. Only(kept \o <<Row(n, v)>>, N) = kept
  BY <1>3, <1>4, <1>6, <1>7
<1> QED BY <1>5, <1>8, <1>9 DEF N, kept

\* The last row that gives a cvar a value is one of the rows.
LEMMA LastOfIs ==
    ASSUME NEW rows \in Seq(Rows), NEW n, LastOf(rows, n) # 0
    PROVE  LastOf(rows, n) \in DOMAIN rows /\ rows[LastOf(rows, n)].val \in Values
<1> DEFINE is == {i \in DOMAIN rows : Assigns(rows[i]) /\ rows[i].name = n}
<1>1. LastOf(rows, n) = IF is = {} THEN 0 ELSE Max(is)
  BY DEF LastOf
<1>2. PICK l \in Nat : l = Len(rows)
  OBVIOUS
<1>3. is \in SUBSET (0..l) /\ is # {}
  BY <1>1, <1>2
<1>4. Max(is) \in is
  <2> HIDE DEF is
  <2> QED BY <1>3, MaxIs
<1>5. LastOf(rows, n) \in DOMAIN rows /\ Assigns(rows[LastOf(rows, n)])
  BY <1>1, <1>3, <1>4
<1>6. rows[LastOf(rows, n)] \in Rows
  BY <1>5
<1> QED BY <1>5, <1>6 DEF Rows, Assigns

\* A curated field resolves to a value.
LEMMA ResolvedType ==
    ASSUME NEW rows \in Seq(Rows), NEW n, NEW field \in Values \union {"blank"}
    PROVE  Resolved(rows, n, field) \in Values \union {Bare}
<1>1. Default \in Values
  BY ConstantsAssumption DEF ValuesAssumption
<1>2. Kept(rows, n) \in Values
  BY <1>1, LastOfIs DEF Kept
<1> QED BY <1>2 DEF Resolved

\* The sequence of a set with one element at most.
LEMMA NoneOrOne ==
    ASSUME NEW x, NEW S, S = {} \/ S = {x} PROVE SetToSeq(S) \in Seq({x})
<1>1. \E f \in [1..Cardinality(S) -> S] : IsInjective(f)
  <2>1. CASE S = {}
    <3>1. Cardinality(S) = 0
      BY <2>1, FS_EmptySet
    <3>2. <<>> \in [1..0 -> {}] /\ IsInjective(<<>>)
      BY DEF IsInjective
    <3> QED BY <2>1, <3>1, <3>2
  <2>2. CASE S = {x}
    <3>1. Cardinality(S) = 1
      BY <2>2, FS_Singleton
    <3>2. [i \in 1..1 |-> x] \in [1..1 -> {x}] /\ IsInjective([i \in 1..1 |-> x])
      BY DEF IsInjective
    <3> QED BY <2>2, <3>1, <3>2
  <2> QED BY <2>1, <2>2
<1>2. SetToSeq(S) \in [1..Cardinality(S) -> S]
  BY <1>1 DEF SetToSeq
<1>3. Cardinality(S) \in Nat
  <2>1. CASE S = {}
    <3>1. Cardinality(S) = 0
      BY <2>1, FS_EmptySet
    <3> QED BY <3>1
  <2>2. CASE S = {x}
    <3>1. Cardinality(S) = 1
      BY <2>2, FS_Singleton
    <3> QED BY <3>1
  <2> QED BY <2>1, <2>2
<1>4. SetToSeq(S) \in Seq(S)
  BY <1>2, <1>3
<1> QED BY <1>4

\* The settings page sends back every row but the curated ones as it read it.
LEMMA MergedKeeps ==
    ASSUME NEW rows \in Seq(Rows), NEW field \in Values \union {"blank"}
    PROVE  /\ Merged(rows, field) \in Seq(Rows)
           /\ Only(Merged(rows, field), NotNamed(Curated)) = Only(rows, NotNamed(Curated))
<1> DEFINE N == NotNamed(Curated)
<1> DEFINE base == [i \in DOMAIN rows |-> IF rows[i].name \in Curated
                        THEN Row(rows[i].name, Resolved(rows, rows[i].name, field))
                        ELSE rows[i]]
<1> DEFINE x == Row(Quota, Resolved(rows, Quota, field))
<1> DEFINE missing == {Row(n, Resolved(rows, n, field)) :
                          n \in {m \in Curated : \A i \in DOMAIN rows : rows[i].name # m}}
<1>1. Curated = {Quota} /\ Curated \subseteq Names
  BY DEF Curated, Names
<1>2. PICK l \in Nat : l = Len(rows)
  OBVIOUS
<1>3. DOMAIN rows = 1..l
  BY <1>2
<1>4. ASSUME NEW i \in 1..l
      PROVE  /\ base[i] \in Rows
             /\ base[i] = rows[i] \/ (base[i] \notin N /\ rows[i] \notin N)
  <2>1. rows[i] \in Rows
    BY <1>2, <1>3
  <2>2. CASE rows[i].name \in Curated
    <3>1. base[i] = Row(rows[i].name, Resolved(rows, rows[i].name, field))
      BY <1>3, <2>2
    <3>2. rows[i].name \in Names /\ Resolved(rows, rows[i].name, field) \in Values \union {Bare}
      BY <1>1, <2>2, ResolvedType
    <3>3. base[i] \in Rows /\ base[i].name = rows[i].name
      BY <3>1, <3>2, RowType
    <3> QED BY <2>2, <3>3 DEF NotNamed
  <2>3. CASE rows[i].name \notin Curated
    BY <1>3, <2>1, <2>3
  <2> QED BY <2>2, <2>3
<1>5. base \in [1..l -> Rows]
  <2>1. base = [i \in 1..l |-> base[i]]
    BY <1>3
  <2> HIDE DEF base
  <2> QED BY <1>4, <2>1
<1>6. base \in Seq(Rows) /\ Len(base) = l
  <2> HIDE DEF base
  <2> QED BY <1>5
<1>7. Only(base, N) = Only(rows, N)
  <2> HIDE DEF base, N
  <2>1. Agree(base, rows, N)
    BY <1>2, <1>4, <1>6 DEF Agree
  <2> QED BY <1>6, <2>1, OnlyOfAgreeing
<1>8. x \in Rows /\ x \notin N
  <2>1. Quota \in Names /\ Resolved(rows, Quota, field) \in Values \union {Bare}
    BY <1>1, ResolvedType
  <2> QED BY <1>1, <2>1, RowType DEF NotNamed
<1>9. missing = {} \/ missing = {x}
  BY <1>1
<1>10. Merged(rows, field) = base \o SetToSeq(missing)
  BY DEF Merged
<1> HIDE DEF N, base, x, missing
<1>11. PICK tail : tail = SetToSeq(missing)
  OBVIOUS
<1>12. tail \in Seq({x})
  BY <1>9, <1>11, NoneOrOne
<1>13. tail \in Seq(Rows)
  BY <1>8, <1>12
<1>14. Only(tail, N) = <<>>
  <2>1. {x} \intersect N = {}
    BY <1>8
  <2> QED BY <1>12, <2>1, OnlyOfNone
<1>15. Only(base \o tail, N) = Only(base, N) \o Only(tail, N)
  BY <1>6, <1>13, OnlyOfConcat
<1>16. Only(base, N) \o <<>> = Only(base, N)
  <2>1. Only(base, N) \in Seq(Rows \intersect N)
    BY <1>6, OnlyType
  <2> QED BY <2>1, ConcatEmptySeq
<1>17. base \o tail \in Seq(Rows)
  BY <1>6, <1>13
<1>18. Only(base \o tail, N) = Only(rows, N)
  BY <1>7, <1>14, <1>15, <1>16
<1> QED BY <1>10, <1>11, <1>17, <1>18 DEF N

------------------------------------------------------------------------------
(***************************************************************************)
(* server.cfg and the requests that rewrite it.                            *)
(***************************************************************************)
Stages == {"idle", "put", "load", "write", "dial", "push", "kick", "reload", "restart"}
Kinds == {"none", "save", "password", "repair"}
Requests == [pc : Stages, op : Kinds, rows : Seq(Rows), content : Seq(Lines), todo : Seq(Rows),
             crossed : BOOLEAN, blind : BOOLEAN, late : BOOLEAN]

\* The rows a request is about.
Owned(op) == CASE op = "save" -> Curated
               [] op = "password" -> {Password}
               [] op = "repair" -> {Secret}

\* What a request holds of the file, as long as nobody else has changed it.
InTime(r, f) ==
    /\ r.pc = "write" /\ ~r.late => r.content = f
    /\ r.late => r.crossed
    /\ r.pc # "idle" => r.op # "none"
    /\ r.pc \in {"put", "load", "write"} /\ ~r.crossed /\ ~r.blind
       => Only(r.rows, NotNamed(Owned(r.op))) = Only(Extract(f), NotNamed(Owned(r.op)))

FileInv ==
    /\ file \in Seq(Lines)
    /\ client \in [Clients -> Requests]
    /\ \A c \in Clients : InTime(client[c], file)

\* An idle request is a request, and holds nothing.
LEMMA IdleType == Idle \in Requests
<1>1. <<>> \in Seq(Rows) /\ <<>> \in Seq(Lines)
  OBVIOUS
<1> QED BY <1>1 DEF Idle, Requests, Stages, Kinds

LEMMA IdleInTime == ASSUME NEW f PROVE InTime(Idle, f)
BY DEF Idle, InTime

\* A request that is idle holds nothing, and one that another has crossed
\* holds nothing that counts.
CrossedOnce(r) == [r EXCEPT !.crossed = TRUE, !.late = r.late \/ r.pc = "write"]

\* What crosses a request frees it from what it read.
LEMMA CrossedHoldsNothing ==
    ASSUME NEW r \in Requests, NEW f, NEW g, InTime(r, f)
    PROVE  /\ CrossedOnce(r) \in Requests
           /\ CrossedOnce(r).pc = r.pc
           /\ r.pc # "idle" => InTime(CrossedOnce(r), g)
           /\ r.pc = "idle" => InTime(r, g)
<1> DEFINE q == CrossedOnce(r)
<1>1. /\ q.pc = r.pc /\ q.op = r.op /\ q.crossed = TRUE
      /\ q.late = (r.late \/ r.pc = "write")
  BY DEF CrossedOnce, Requests
<1>2. q \in Requests
  <2>1. (r.late \/ r.pc = "write") \in BOOLEAN
    OBVIOUS
  <2> QED BY <2>1 DEF CrossedOnce, Requests
<1>3. r.pc # "idle" => InTime(q, g)
  <2> HIDE DEF q
  <2> QED BY <1>1 DEF InTime
<1>4. r.pc = "idle" => InTime(r, g)
  BY DEF InTime
<1> QED BY <1>1, <1>2, <1>3, <1>4

\* A change of the file by a request, or by the operator.
LEMMA FileChanges ==
    ASSUME FileInv, NEW me, NEW g \in Seq(Lines)
    PROVE  /\ CrossedBy(me) \in [Clients -> Requests]
           /\ \A c \in Clients : c # me => InTime(CrossedBy(me)[c], g)
           /\ \A c \in Clients : CrossedBy(me)[c].pc = client[c].pc
<1> SUFFICES ASSUME NEW c \in Clients
             PROVE  /\ CrossedBy(me)[c] \in Requests
                    /\ c # me => InTime(CrossedBy(me)[c], g)
                    /\ CrossedBy(me)[c].pc = client[c].pc
  <2>1. CrossedBy(me) = [c \in Clients |-> CrossedBy(me)[c]]
    BY DEF CrossedBy
  <2> QED BY <2>1
<1>1. client[c] \in Requests /\ InTime(client[c], file)
  BY DEF FileInv
<1>2. CASE c = me \/ At(c, "idle")
  <2>1. CrossedBy(me)[c] = client[c]
    BY <1>2 DEF CrossedBy
  <2>2. c # me => client[c].pc = "idle"
    BY <1>2 DEF At
  <2> QED BY <1>1, <2>1, <2>2, CrossedHoldsNothing
<1>3. CASE ~(c = me \/ At(c, "idle"))
  <2>1. CrossedBy(me)[c] = CrossedOnce(client[c])
    BY <1>3 DEF CrossedBy, CrossedOnce, At
  <2>2. client[c].pc # "idle"
    BY <1>3 DEF At
  <2> QED BY <1>1, <2>1, <2>2, CrossedHoldsNothing
<1> QED BY <1>2, <1>3

\* The operator's edits leave text.
LEMMA EditsType ==
    ASSUME NEW f \in Seq(Lines), HasBlock(f), NEW g \in Edits(f) PROVE g \in Seq(Lines)
<1>1. PICK l \in Nat : l = Len(f)
  OBVIOUS
<1>2. ASSUME NEW i \in 1..l PROVE RemoveAt(f, i) \in Seq(Lines)
  <2>1. SubSeq(f, 1, i - 1) \in Seq(Lines) /\ SubSeq(f, i + 1, l) \in Seq(Lines)
    BY <1>1
  <2> QED BY <1>1, <2>1 DEF RemoveAt
<1>3. Row(Quota, Bare) \in Rows
  BY RowType DEF Names
<1>4. InsertAt(f, BlockEnd(f), Row(Quota, Bare)) \in Seq(Lines)
  <2>1. PICK e \in 1..l : e = BlockEnd(f)
    BY <1>1, BlockEndIs DEF Closings
  <2>2. SubSeq(f, 1, e - 1) \in Seq(Lines) /\ SubSeq(f, e, l) \in Seq(Lines)
    BY <1>1
  <2>3. <<Row(Quota, Bare)>> \in Seq(Lines)
    BY <1>3 DEF Lines
  <2> QED BY <1>1, <2>1, <2>2, <2>3 DEF InsertAt
<1>5. Append(f, Row(Password, "1")) \in Seq(Lines)
  <2>1. "1" \in Values
    BY ConstantsAssumption DEF ValuesAssumption, AgentSecret
  <2>2. Row(Password, "1") \in Rows
    BY <2>1, RowType DEF Names
  <2> QED BY <2>2 DEF Lines
<1>6. f \o f \in Seq(Lines)
  OBVIOUS
<1>7. \A i \in DOMAIN f : RemoveAt(f, i) \in Seq(Lines)
  BY <1>1, <1>2
<1> QED BY <1>4, <1>5, <1>6, <1>7, Zenon DEF Edits

\* A request that has written holds nothing of the file.
LEMMA Later ==
    ASSUME NEW r \in Requests, NEW f, InTime(r, f), r.pc # "idle",
           NEW q \in Requests, q.pc \notin {"put", "load", "write"},
           q.op = r.op, q.crossed = r.crossed, q.late = r.late, NEW g
    PROVE  InTime(q, g)
BY DEF InTime

\* What a request does after its push.
LEMMA ThenIs ==
    ASSUME FileInv, NEW c \in Clients, client[c].pc # "idle"
    PROVE  Then(c) \in {"idle", "reload", "restart"}
<1>1. client[c] \in Requests /\ InTime(client[c], file)
  BY DEF FileInv
<1>2. client[c].op \in {"save", "password", "repair"}
  BY <1>1 DEF Requests, Kinds, InTime
<1> QED BY <1>2 DEF Then

\* The end of a push, and the end of the connection with the game.
LEMMA PushedIs ==
    ASSUME FileInv, NEW c \in Clients, client[c].pc # "idle", NEW r,
           r = IF Then(c) = "idle" THEN Idle ELSE [client[c] EXCEPT !.pc = Then(c), !.todo = <<>>]
    PROVE  r \in Requests /\ \A g : InTime(r, g)
<1>1. client[c] \in Requests /\ InTime(client[c], file)
  BY DEF FileInv
<1>2. CASE Then(c) = "idle"
  BY <1>2, IdleType, IdleInTime
<1>3. CASE Then(c) # "idle"
  <2>1. Then(c) \in {"reload", "restart"}
    BY <1>3, ThenIs
  <2>2. r = [client[c] EXCEPT !.pc = Then(c), !.todo = <<>>]
    BY <1>3
  <2>3. <<>> \in Seq(Rows)
    OBVIOUS
  <2>4. /\ r \in Requests /\ r.pc = Then(c)
        /\ r.op = client[c].op /\ r.crossed = client[c].crossed /\ r.late = client[c].late
    BY <1>1, <2>1, <2>2, <2>3 DEF Requests, Stages
  <2> QED BY <1>1, <2>1, <2>4, Later
<1> QED BY <1>2, <1>3

\* A request that loses its connection with the game.
LEMMA DroppedIs ==
    ASSUME FileInv, NEW c \in Clients
    PROVE  /\ Dropped(c) \in Requests /\ InTime(Dropped(c), file)
           /\ client[c].pc = "write" => Dropped(c).pc = "write"
<1>1. client[c] \in Requests /\ InTime(client[c], file)
  BY DEF FileInv
<1>2. CASE client[c].pc \in {"push", "kick"}
  <2>1. Dropped(c) = IF Then(c) = "idle" THEN Idle
                     ELSE [client[c] EXCEPT !.pc = Then(c), !.todo = <<>>]
    BY <1>2 DEF Dropped
  <2>2. client[c].pc # "idle"
    BY <1>2
  <2> QED BY <1>2, <2>1, <2>2, PushedIs
<1>3. CASE client[c].pc \notin {"push", "kick"}
  BY <1>1, <1>3 DEF Dropped
<1> QED BY <1>2, <1>3

\* One request moves, and the file stays.
LEMMA OneMoves ==
    ASSUME FileInv, NEW c \in Clients, NEW r \in Requests, InTime(r, file),
           client' = [client EXCEPT ![c] = r], file' = file
    PROVE  FileInv'
<1>1. client' \in [Clients -> Requests] /\ file' \in Seq(Lines)
  BY DEF FileInv
<1>2. ASSUME NEW d \in Clients PROVE InTime(client'[d], file')
  <2>1. client'[d] = IF d = c THEN r ELSE client[d]
    BY DEF FileInv
  <2> QED BY <2>1 DEF FileInv
<1>3. \A d \in Clients : InTime(client[d], file)'
  BY <1>2 DEF InTime
<1> QED BY <1>1, <1>3 DEF FileInv

\* A request that begins.
LEMMA Asked ==
    ASSUME FileInv, NEW c \in Clients, NEW op, NEW pc \in {"put", "load"}, NEW rows \in Seq(Rows),
           NEW blind \in BOOLEAN, op \in {"save", "password", "repair"},
           Ask(c, op, pc, rows, blind),
           blind \/ Only(rows, NotNamed(Owned(op))) = Only(Extract(file), NotNamed(Owned(op)))
    PROVE  FileInv'
<1> DEFINE r == [Idle EXCEPT !.pc = pc, !.op = op, !.rows = rows, !.blind = blind]
<1>1. client' = [client EXCEPT ![c] = r] /\ file' = file
  BY DEF Ask
<1>2. /\ r.pc = pc /\ r.op = op /\ r.rows = rows /\ r.blind = blind
      /\ r.crossed = FALSE /\ r.late = FALSE
  BY DEF Idle
<1>3. r \in Requests
  BY IdleType DEF Requests, Stages, Kinds
<1> HIDE DEF r
<1>4. InTime(r, file)
  BY <1>2 DEF InTime
<1> QED BY <1>1, <1>3, <1>4, OneMoves

\* The settings page.
LEMMA Saved ==
    ASSUME FileInv, NEW c \in Clients, NEW field \in Values \union {"blank"}, Save(c, field)
    PROVE  FileInv'
<1>1. Extract(file) \in Seq(Rows)
  BY ExtractType DEF FileInv
<1>2. PICK rows \in Seq(Rows) : rows = Merged(Extract(file), field)
  BY <1>1, MergedKeeps
<1>3. Only(rows, NotNamed(Owned("save"))) = Only(Extract(file), NotNamed(Owned("save")))
  BY <1>1, <1>2, MergedKeeps DEF Owned
<1>4. Ask(c, "save", "put", rows, FALSE)
  BY <1>2 DEF Save
<1> QED BY <1>3, <1>4, Asked

\* The password and the repair: one row is exchanged, or all that there is.
LEMMA OneRow ==
    ASSUME FileInv, NEW c \in Clients, NEW op \in {"password", "repair"}, NEW n \in Names,
           NEW v \in Values, Owned(op) = {n},
           \/ Ask(c, op, "load", Sans(Extract(file), n) \o <<Row(n, v)>>, FALSE)
           \/ Ask(c, op, "load", <<Row(n, v)>>, TRUE)
    PROVE  FileInv'
<1>1. Extract(file) \in Seq(Rows)
  BY ExtractType DEF FileInv
<1>2. CASE Ask(c, op, "load", Sans(Extract(file), n) \o <<Row(n, v)>>, FALSE)
  <2>1. PICK rows \in Seq(Rows) : rows = Sans(Extract(file), n) \o <<Row(n, v)>>
    BY <1>1, Exchanged
  <2>2. Only(rows, NotNamed(Owned(op))) = Only(Extract(file), NotNamed(Owned(op)))
    BY <1>1, <2>1, Exchanged
  <2> QED BY <1>2, <2>1, <2>2, Asked
<1>3. CASE Ask(c, op, "load", <<Row(n, v)>>, TRUE)
  <2>1. <<Row(n, v)>> \in Seq(Rows)
    BY RowType
  <2> QED BY <1>3, <2>1, Asked
<1> QED BY <1>2, <1>3

\* The write.
LEMMA Written ==
    ASSUME FileInv, NEW c \in Clients, Write(c)
    PROVE  /\ FileInv'
           /\ Extract(file') = client[c].rows
           /\ ~client[c].late => Before(file') = Before(file) /\ After(file') = After(file)
<1> DEFINE r == client[c]
<1>1. r \in Requests /\ InTime(r, file) /\ r.pc = "write"
  BY DEF FileInv, Write, At
<1>2. r.content \in Seq(Lines) /\ r.rows \in Seq(Rows)
  BY <1>1 DEF Requests
<1>3. file' = Before(r.content) \o <<Begin>> \o r.rows \o <<End>> \o After(r.content)
  BY DEF Write, ApplyManagedBlock
<1>4. /\ Open(Before(r.content)) /\ Before(r.content) \in Seq(Lines)
      /\ After(r.content) \in Seq(Lines)
  BY <1>2, BeforeIsOpen, AfterType
<1>5. /\ file' \in Seq(Lines) /\ Before(file') = Before(r.content)
      /\ After(file') = After(r.content) /\ Extract(file') = r.rows
  <2>1. PICK B \in Seq(Lines), A \in Seq(Lines), rows \in Seq(Rows) :
            B = Before(r.content) /\ A = After(r.content) /\ rows = r.rows
    BY <1>2, <1>4
  <2> Open(B)
    BY <1>4, <2>1
  <2>2. file' = Placed(B, rows, A)
    BY <1>3, <2>1 DEF Placed
  <2>3. /\ Placed(B, rows, A) \in Seq(Lines) /\ Before(Placed(B, rows, A)) = B
        /\ After(Placed(B, rows, A)) = A /\ Extract(Placed(B, rows, A)) = rows
    BY BlockIsFound
  <2> QED BY <2>1, <2>2, <2>3
<1>6. ~r.late => r.content = file
  BY <1>1 DEF InTime
<1> DEFINE done == [r EXCEPT !.pc = "dial", !.content = <<>>,
                         !.blind = FALSE, !.crossed = FALSE, !.late = FALSE]
<1>7. CrossedBy(c)[c] = r
  BY DEF CrossedBy
<1>8. /\ CrossedBy(c) \in [Clients -> Requests]
      /\ \A d \in Clients : d # c => InTime(CrossedBy(c)[d], file')
  BY <1>5, FileChanges
<1>9. done \in Requests /\ InTime(done, file')
  <2>1. <<>> \in Seq(Lines)
    OBVIOUS
  <2>2. done \in Requests
    BY <1>1, <2>1 DEF Requests, Stages
  <2>3. done.pc = "dial" /\ done.late = FALSE /\ done.op = r.op /\ r.op # "none"
    BY <1>1 DEF Requests, InTime
  <2> HIDE DEF done
  <2> QED BY <2>2, <2>3 DEF InTime
<1>10. client' = [CrossedBy(c) EXCEPT ![c] = done]
  <2>1. PICK all \in [Clients -> Requests] : all = CrossedBy(c)
    BY <1>8
  <2>2. client' = [all EXCEPT ![c].pc = "dial", ![c].content = <<>>, ![c].blind = FALSE,
                              ![c].crossed = FALSE, ![c].late = FALSE]
    BY <2>1 DEF Write
  <2>3. all[c] = r
    BY <1>7, <2>1
  <2> QED BY <2>1, <2>2, <2>3
<1> HIDE DEF r, done
<1>11. FileInv'
  <2>1. client' \in [Clients -> Requests]
    BY <1>8, <1>9, <1>10
  <2>2. ASSUME NEW d \in Clients PROVE InTime(client'[d], file')
    BY <1>8, <1>9, <1>10
  <2>3. \A d \in Clients : InTime(client[d], file)'
    BY <2>2 DEF InTime
  <2> QED BY <1>5, <2>1, <2>3 DEF FileInv
<1> QED BY <1>5, <1>6, <1>11 DEF r

\* An edit by the operator.
LEMMA Edited ==
    ASSUME FileInv, EditFile
    PROVE  FileInv' /\ \A c \in Clients : client'[c].pc = client[c].pc
<1>1. PICK f \in Edits(file) : file' = f
  BY DEF EditFile
<1>2. HasBlock(file) /\ client' = CrossedBy("operator")
  BY DEF EditFile
<1>3. file' \in Seq(Lines)
  BY <1>1, <1>2, EditsType DEF FileInv
<1>4. PICK g \in Seq(Lines) : g = file'
  BY <1>3
<1>5. /\ CrossedBy("operator") \in [Clients -> Requests]
      /\ \A d \in Clients : d # "operator" => InTime(CrossedBy("operator")[d], g)
      /\ \A d \in Clients : CrossedBy("operator")[d].pc = client[d].pc
  BY <1>4, FileChanges
<1>6. ASSUME NEW d \in Clients PROVE InTime(client[d], file)'
  <2>1. d # "operator"
    BY ConstantsAssumption DEF ClientsAssumption
  <2>2. InTime(CrossedBy("operator")[d], g)
    BY <1>5, <2>1
  <2> QED BY <1>2, <1>4, <2>2 DEF InTime
<1> QED BY <1>2, <1>3, <1>5, <1>6 DEF FileInv

\* What a request does in between.
LEMMA Moves ==
    ASSUME FileInv, NEW c \in Clients,
           PutRefused(c) \/ Load(c) \/ Dial(c) \/ GiveUp(c) \/ PushOne(c) \/ PushEnds(c)
           \/ KickBots(c) \/ Reload(c) \/ NotReloaded(c)
    PROVE  FileInv'
<1> DEFINE r == client[c]
<1>1. r \in Requests /\ InTime(r, file) /\ client \in [Clients -> Requests] /\ file \in Seq(Lines)
  BY DEF FileInv
<1>2. file' = file
  BY DEF PutRefused, Load, Dial, GiveUp, PushOne, PushEnds, KickBots, Reload, NotReloaded
<1>3. CASE PutRefused(c) \/ Reload(c) \/ NotReloaded(c)
  <2>1. client' = [client EXCEPT ![c] = Idle]
    BY <1>3 DEF PutRefused, Reload, NotReloaded, Return
  <2> QED BY <1>2, <2>1, IdleType, IdleInTime, OneMoves
<1>4. CASE Load(c)
  <2> DEFINE q == [r EXCEPT !.pc = "write", !.content = file]
  <2>1. q \in Requests
    BY <1>1 DEF Requests, Stages
  <2>2. r.pc \in {"put", "load"}
    BY <1>4 DEF Load, At
  <2>3. /\ q.pc = "write" /\ q.content = file /\ q.op = r.op /\ q.rows = r.rows
        /\ q.crossed = r.crossed /\ q.blind = r.blind /\ q.late = r.late
    BY <1>1 DEF Requests
  <2>4. client' = [client EXCEPT ![c] = q]
    BY <1>1, <1>4 DEF Load
  <2> HIDE DEF q
  <2>5. InTime(q, file)
    BY <1>1, <2>2, <2>3 DEF InTime
  <2> QED BY <1>2, <2>1, <2>4, <2>5, OneMoves
<1>5. CASE Dial(c)
  <2> DEFINE todo == Only(r.rows, {x \in Rows : Assigns(x)})
  <2> DEFINE q == [r EXCEPT !.pc = "push", !.todo = todo]
  <2>1. client' = [client EXCEPT ![c] = q]
    BY <1>1, <1>5 DEF Dial
  <2>2. todo \in Seq(Rows)
    <3>1. r.rows \in Seq(Rows)
      BY <1>1 DEF Requests
    <3>2. todo \in Seq(Rows \intersect {x \in Rows : Assigns(x)})
      BY <3>1, OnlyType
    <3> QED BY <3>2
  <2>3. r.pc = "dial"
    BY <1>5 DEF Dial, At
  <2> HIDE DEF todo
  <2>4. q \in Requests
    BY <1>1, <2>2 DEF Requests, Stages
  <2>5. q.pc = "push" /\ q.op = r.op /\ q.crossed = r.crossed /\ q.late = r.late
    BY <1>1 DEF Requests
  <2> HIDE DEF q
  <2>6. InTime(q, file)
    BY <1>1, <2>3, <2>4, <2>5, Later
  <2> QED BY <1>2, <2>1, <2>4, <2>6, OneMoves
<1>6. ASSUME Pushed(c), r.pc # "idle" PROVE FileInv'
  <2>1. PICK q : q = IF Then(c) = "idle" THEN Idle
                 ELSE [client[c] EXCEPT !.pc = Then(c), !.todo = <<>>]
    OBVIOUS
  <2>2. client' = [client EXCEPT ![c] = q]
    BY <1>6, <2>1 DEF Pushed
  <2>3. q \in Requests /\ InTime(q, file)
    BY <1>6, <2>1, PushedIs
  <2> QED BY <1>2, <2>2, <2>3, OneMoves
<1>7. CASE GiveUp(c) \/ KickBots(c)
  <2>1. Pushed(c) /\ r.pc # "idle"
    BY <1>7 DEF GiveUp, KickBots, Pushing, At
  <2> QED BY <1>6, <2>1
<1>8. CASE PushOne(c)
  <2> DEFINE q == [r EXCEPT !.todo = Tail(r.todo)]
  <2>1. client' = [client EXCEPT ![c] = q]
    BY <1>1, <1>8 DEF PushOne
  <2>2. Tail(r.todo) \in Seq(Rows)
    <3>1. r.todo \in Seq(Rows) /\ r.todo # <<>>
      BY <1>1, <1>8 DEF PushOne, Requests
    <3> QED BY <3>1, HeadTailProperties
  <2>3. r.pc = "push"
    BY <1>8 DEF PushOne, At
  <2>4. q \in Requests
    BY <1>1, <2>2 DEF Requests
  <2>5. q.pc = r.pc /\ q.op = r.op /\ q.crossed = r.crossed /\ q.late = r.late
    BY <1>1 DEF Requests
  <2> HIDE DEF q
  <2>6. InTime(q, file)
    BY <1>1, <2>3, <2>4, <2>5, Later
  <2> QED BY <1>2, <2>1, <2>4, <2>6, OneMoves
<1>9. CASE PushEnds(c)
  <2>1. r.pc = "push"
    BY <1>9 DEF PushEnds, At
  <2>2. CASE Goto(c, "kick")
    <3> DEFINE q == [r EXCEPT !.pc = "kick"]
    <3>1. client' = [client EXCEPT ![c] = q]
      BY <1>1, <2>2 DEF Goto
    <3>2. q \in Requests
      BY <1>1 DEF Requests, Stages
    <3>3. q.pc = "kick" /\ q.op = r.op /\ q.crossed = r.crossed /\ q.late = r.late
      BY <1>1 DEF Requests
    <3> HIDE DEF q
    <3>4. InTime(q, file)
      BY <1>1, <2>1, <3>2, <3>3, Later
    <3> QED BY <1>2, <3>1, <3>2, <3>4, OneMoves
  <2>3. CASE Pushed(c)
    BY <1>6, <2>1, <2>3
  <2> QED BY <1>9, <2>2, <2>3 DEF PushEnds
<1> QED BY <1>3, <1>4, <1>5, <1>7, <1>8, <1>9

\* A connection that the game drops.
LEMMA GameDrops ==
    ASSUME FileInv, NEW S, client' = [d \in Clients |-> IF d \in S THEN Idle ELSE Dropped(d)],
           file' = file
    PROVE  FileInv'
<1>1. ASSUME NEW d \in Clients PROVE client'[d] \in Requests /\ InTime(client'[d], file)
  <2>1. client'[d] = IF d \in S THEN Idle ELSE Dropped(d)
    OBVIOUS
  <2> QED BY <2>1, IdleType, IdleInTime, DroppedIs
<1>2. client' \in [Clients -> Requests]
  <2>1. client' = [d \in Clients |-> client'[d]]
    OBVIOUS
  <2> HIDE DEF Dropped
  <2> QED BY <1>1, <2>1
<1>3. \A d \in Clients : InTime(client[d], file)'
  BY <1>1 DEF InTime
<1> QED BY <1>2, <1>3 DEF FileInv

\* The invariant holds at the start.
LEMMA FileInit == Init => FileInv
<1> SUFFICES ASSUME Init PROVE FileInv
  OBVIOUS
<1>1. file \in Seq(Lines)
  BY ConstantsAssumption DEF Init, ValuesAssumption
<1>2. client = [c \in Clients |-> Idle]
  BY DEF Init
<1> QED BY <1>1, <1>2, IdleType, IdleInTime DEF FileInv

\* Every step keeps it, and only a write takes a request from its write to the
\* push.
LEMMA FileNext == FileInv /\ Next => FileInv' /\ \A c \in Clients : Writes(c) => Write(c)
<1> SUFFICES ASSUME FileInv, Next PROVE FileInv' /\ \A c \in Clients : Writes(c) => Write(c)
  OBVIOUS
<1>0. client \in [Clients -> Requests]
  BY DEF FileInv
<1>1. ASSUME NEW c \in Clients, NEW field \in Values \union {"blank"}, Save(c, field)
      PROVE  FileInv' /\ \A d \in Clients : ~Writes(d)
  <2>1. \A d \in Clients : d # c => client'[d] = client[d]
    BY <1>0, <1>1 DEF Save, Ask
  <2>2. client[c].pc = "idle"
    BY <1>1 DEF Save, Ask, At
  <2> QED BY <1>1, <2>1, <2>2, Saved DEF Writes, At
<1>2. ASSUME NEW c \in Clients, NEW v \in Values, SetPassword(c, v)
      PROVE  FileInv' /\ \A d \in Clients : ~Writes(d)
  <2>1. \A d \in Clients : d # c => client'[d] = client[d]
    BY <1>0, <1>2 DEF SetPassword, Ask
  <2>2. client[c].pc = "idle"
    BY <1>2 DEF SetPassword, Ask, At
  <2>3. Owned("password") = {Password} /\ Password \in Names
    BY DEF Owned, Names
  <2>4. FileInv'
    BY <1>2, <2>3, OneRow DEF SetPassword
  <2> QED BY <2>1, <2>2, <2>4 DEF Writes, At
<1>3. ASSUME NEW c \in Clients, RepairRCON(c)
      PROVE  FileInv' /\ \A d \in Clients : ~Writes(d)
  <2>1. \A d \in Clients : d # c => client'[d] = client[d]
    BY <1>0, <1>3 DEF RepairRCON, Ask
  <2>2. client[c].pc = "idle"
    BY <1>3 DEF RepairRCON, Ask, At
  <2>3. Owned("repair") = {Secret} /\ Secret \in Names /\ AgentSecret \in Values
    BY ConstantsAssumption DEF Owned, Names, ValuesAssumption
  <2>4. FileInv'
    BY <1>3, <2>3, OneRow DEF RepairRCON
  <2> QED BY <2>1, <2>2, <2>4 DEF Writes, At
<1>4. ASSUME NEW c \in Clients,
             PutRefused(c) \/ Load(c) \/ Dial(c) \/ GiveUp(c) \/ PushOne(c) \/ PushEnds(c)
             \/ KickBots(c) \/ Reload(c) \/ NotReloaded(c)
      PROVE  FileInv' /\ \A d \in Clients : ~Writes(d)
  <2>1. \A d \in Clients : d # c => client'[d] = client[d]
    BY <1>0, <1>4 DEF PutRefused, Load, Dial, GiveUp, PushOne, PushEnds, KickBots, Reload,
                      NotReloaded, Return, Goto, Pushed
  <2>2. client[c].pc # "write"
    BY <1>4 DEF PutRefused, Load, Dial, GiveUp, PushOne, PushEnds, KickBots, Reload,
                NotReloaded, At, Pushing
  <2> QED BY <1>4, <2>1, <2>2, Moves DEF Writes, At
<1>5. ASSUME NEW c \in Clients, Write(c)
      PROVE  FileInv' /\ \A d \in Clients : Writes(d) => Write(d)
  <2>1. ASSUME NEW d \in Clients, d # c PROVE client'[d].pc = client[d].pc
    <3>1. PICK g \in Seq(Lines) : g = file
      BY DEF FileInv
    <3>2. CrossedBy(c) \in [Clients -> Requests] /\ CrossedBy(c)[d].pc = client[d].pc
      BY <3>1, FileChanges
    <3>3. client'[d] = CrossedBy(c)[d]
      BY <1>5, <2>1, <3>2 DEF Write
    <3> QED BY <3>2, <3>3
  <2>2. ASSUME NEW d \in Clients, Writes(d) PROVE Write(d)
    BY <1>5, <2>1, <2>2 DEF Writes, At
  <2> QED BY <1>5, <2>2, Written
<1>6. ASSUME NEW c \in Clients, Restart(c)
      PROVE  FileInv' /\ \A d \in Clients : ~Writes(d)
  <2>1. client' = [d \in Clients |-> IF d \in {c} THEN Idle ELSE Dropped(d)] /\ file' = file
    BY <1>6 DEF Restart
  <2>2. FileInv'
    BY <2>1, GameDrops
  <2>3. ASSUME NEW d \in Clients PROVE ~Writes(d)
    <3>1. CASE d = c
      BY <2>1, <3>1 DEF Writes, Idle
    <3>2. CASE d # c
      BY <2>1, <3>2, DroppedIs DEF Writes, At
    <3> QED BY <3>1, <3>2
  <2> QED BY <2>2, <2>3
<1>7. ASSUME MapLoads \/ GameStarts \/ BotsJoin
      PROVE  FileInv' /\ \A d \in Clients : ~Writes(d)
  <2>1. client' = client /\ file' = file
    BY <1>7 DEF MapLoads, GameStarts, BotsJoin
  <2> QED BY <2>1 DEF FileInv, InTime, Writes, At
<1>8. ASSUME GameStops PROVE FileInv' /\ \A d \in Clients : ~Writes(d)
  <2>1. client' = [d \in Clients |-> Dropped(d)] /\ file' = file
    BY <1>8 DEF GameStops
  <2>2. FileInv'
    <3>1. PICK S : S = {}
      OBVIOUS
    <3>2. client' = [d \in Clients |-> IF d \in S THEN Idle ELSE Dropped(d)]
      BY <2>1, <3>1
    <3> QED BY <2>1, <3>2, GameDrops
  <2>3. ASSUME NEW d \in Clients PROVE ~Writes(d)
    BY <2>1, DroppedIs DEF Writes, At
  <2> QED BY <2>2, <2>3
<1>9. ASSUME EditFile PROVE FileInv' /\ \A d \in Clients : ~Writes(d)
  BY <1>9, Edited DEF Writes, At
<1> QED BY <1>1, <1>2, <1>3, <1>4, <1>5, <1>6, <1>7, <1>8, <1>9 DEF Next

\* It holds when nothing happens.
LEMMA FileStutters ==
    FileInv /\ UNCHANGED vars => FileInv' /\ \A c \in Clients : ~Writes(c)
BY DEF vars, FileInv, InTime, Writes, At

\* Whatever requests, game and operator do, the invariant of the file holds.
THEOREM FileInvariance == ServerSpec => []FileInv
<1>1. ServerInit => FileInv
  BY FileInit DEF ServerInit
<1>2. FileInv /\ [ServerNext]_<<focus, vars, mapVars, unitVars>> => FileInv'
  BY FileNext, FileStutters DEF ServerNext
<1> QED BY <1>1, <1>2, PTL DEF ServerSpec

\* A request that rewrites server.cfg leaves the operator's text as it is, and
\* every row of the block that it is not about, unless others changed the file
\* since it read it or that read failed: the first block between markers is the
\* one that internal/cs2/cfg.go writes and reads, whatever markers an edit has
\* deleted or doubled.
THEOREM RequestsKeepTheFile == ServerSpec => FileIsKept
<1>1. FileInv /\ [ServerNext]_<<focus, vars, mapVars, unitVars>> =>
        \A c \in Clients : Writes(c) /\ ~client[c].late =>
            Before(file') = Before(file) /\ After(file') = After(file)
  BY FileNext, FileStutters, Written DEF ServerNext
<1>2. FileInv /\ [ServerNext]_<<focus, vars, mapVars, unitVars>> =>
        \A c \in Clients : Writes(c) /\ ~client[c].crossed /\ ~client[c].blind =>
            Others(file', c) = Others(file, c)
  <2> SUFFICES ASSUME FileInv, [ServerNext]_<<focus, vars, mapVars, unitVars>>,
                      NEW c \in Clients, Writes(c), ~client[c].crossed, ~client[c].blind
               PROVE  Others(file', c) = Others(file, c)
    OBVIOUS
  <2>1. Write(c)
    BY FileNext, FileStutters DEF ServerNext
  <2>2. Extract(file') = client[c].rows
    BY <2>1, Written
  <2>3. Owned(client[c].op) = Target(c)
    BY DEF Owned, Target
  <2>4. InTime(client[c], file) /\ client[c].pc = "write"
    BY <2>1 DEF FileInv, Write, At
  <2>5. Only(client[c].rows, NotNamed(Target(c))) = Only(Extract(file), NotNamed(Target(c)))
    BY <2>3, <2>4 DEF InTime
  <2> QED BY <2>2, <2>5 DEF Others
<1>3. FileInv /\ [ServerNext]_<<focus, vars, mapVars, unitVars>> =>
        [\A c \in Clients : Writes(c) /\ ~client[c].late =>
            Before(file') = Before(file) /\ After(file') = After(file)]_vars
  BY <1>1
<1>4. FileInv /\ [ServerNext]_<<focus, vars, mapVars, unitVars>> =>
        [\A c \in Clients : Writes(c) /\ ~client[c].crossed /\ ~client[c].blind =>
            Others(file', c) = Others(file, c)]_vars
  BY <1>2
<1> QED BY <1>3, <1>4, FileInvariance, PTL DEF ServerSpec, FileIsKept, OperatorTextKept, RowsKept

------------------------------------------------------------
(***************************************************************************)
(* The game that plays by server.cfg.  What a sequence of lines gives a    *)
(* cvar, and one that gives it nothing.                                    *)
(***************************************************************************)
GivesTo(line, n) == Assigns(line) /\ line.name = n
Silent(s, n) == \A i \in DOMAIN s : ~GivesTo(s[i], n)
Sets(s, n, v) == \E i \in DOMAIN s : /\ GivesTo(s[i], n) /\ s[i].val = v
                                     /\ \A j \in DOMAIN s : j > i => ~GivesTo(s[j], n)

\* The game has of the block what the block decides ...
Has(f, cvars) == \A n \in Governed(f), v \in Values : Sets(Extract(f), n, v) => cvars[n] = v

\* ... or gets it with the rows that are still to be pushed.
Gets(f, cvars, todo) ==
    \A n \in Governed(f), v \in Values :
        Sets(Extract(f), n, v) => Sets(todo, n, v) \/ (Silent(todo, n) /\ cvars[n] = v)

\* What a request knows: a password is the last of its rows, a file that nobody
\* has written since has its rows, and it pushes what assigns, to a game that runs.
Knows(r, f, u) ==
    /\ r.op = "password" => r.rows # <<>> /\ \E v \in Values : Last(r.rows) = Row(Password, v)
    /\ r.pc = "reload" => r.op = "password"
    /\ r.pc \in {"dial", "push", "kick", "reload", "restart"} /\ ~r.crossed => Extract(f) = r.rows
    /\ r.pc = "push" => \A i \in DOMAIN r.todo : Assigns(r.todo[i])
    /\ r.pc \in {"push", "kick"} => u

Pushes(r) == r.pc \in {"dial", "push", "kick"}

\* What a request brings to the game.
Brings(r, f, cvars) ==
    /\ ~r.crossed
    /\ r.pc = "push" => Gets(f, cvars, r.todo)
    /\ r.pc = "kick" => Has(f, cvars)

\* No bots are left when the block says none.
BotsGone(f, cvars, b) == Quota \in Governed(f) /\ cvars[Quota] = "0" => ~b

\* Nobody else pushes, and what nobody pushes is there.
InStep ==
    /\ \A c, d \in Clients : Pushes(client[c]) /\ Pushes(client[d]) => c = d
    /\ \A c \in Clients : Pushes(client[c]) => Brings(client[c], file, live)
    /\ up /\ (\A c \in Clients : ~Pushes(client[c])) =>
        Has(file, live) /\ BotsGone(file, live, bots)

\* A password that was promised is in the block, and the door has it once the map
\* is loaded.
PromiseHolds ==
    promise # "none" /\ Password \in Governed(file) =>
        /\ promise \in Values /\ Sets(Extract(file), Password, promise)
        /\ up /\ ~changing => enforced = promise

Cvars == [Names -> Values \union {Bare}]

GameInv ==
    /\ live \in Cvars
    /\ \A c \in Clients : Knows(client[c], file, up)
    /\ ~drift => InStep
    /\ PromiseHolds

\* What assigns is a row, of a name and a value.
LEMMA RowsAssign == ASSUME NEW x \in Lines, Assigns(x) PROVE x \in Rows /\ x.val \in Values /\ x.name \in Names
<1>1. Begin.is # "row" /\ End.is # "row"
  BY DEF Begin, End
<1>2. x \in Rows
  BY <1>1 DEF Lines, Assigns, IsRow
<1> QED BY <1>2 DEF Rows, Assigns

\* What an element more changes.
LEMMA SetsOfAppend ==
    ASSUME NEW X, NEW s \in Seq(X), NEW x, NEW n, NEW v
    PROVE  /\ GivesTo(x, n) => (Sets(Append(s, x), n, v) <=> x.val = v)
           /\ ~GivesTo(x, n) => (Sets(Append(s, x), n, v) <=> Sets(s, n, v))
           /\ Silent(Append(s, x), n) <=> (Silent(s, n) /\ ~GivesTo(x, n))
<1>1. PICK t : t = Append(s, x)
  OBVIOUS
<1>2. PICK l \in Nat : l = Len(s)
  OBVIOUS
<1>3. DOMAIN s = 1..l /\ DOMAIN t = 1..(l + 1) /\ t[l + 1] = x /\ \A i \in 1..l : t[i] = s[i]
  BY <1>1, <1>2
<1>4. GivesTo(x, n) => (Sets(t, n, v) <=> x.val = v)
  <2> HIDE DEF GivesTo
  <2>1. ASSUME GivesTo(x, n), Sets(t, n, v) PROVE x.val = v
    <3>1. PICK i \in 1..(l + 1) : t[i].val = v /\ \A j \in 1..(l + 1) : j > i => ~GivesTo(t[j], n)
      BY <1>3, <2>1 DEF Sets
    <3>2. i = l + 1
      BY <1>3, <2>1, <3>1
    <3> QED BY <1>3, <3>1, <3>2
  <2>2. ASSUME GivesTo(x, n), x.val = v PROVE Sets(t, n, v)
    <3>1. l + 1 \in 1..(l + 1) /\ \A j \in 1..(l + 1) : ~(j > l + 1)
      OBVIOUS
    <3> QED BY <1>3, <2>2, <3>1 DEF Sets
  <2> QED BY <2>1, <2>2
<1>5. ~GivesTo(x, n) => (Sets(t, n, v) <=> Sets(s, n, v))
  <2> HIDE DEF GivesTo
  <2>1. ASSUME ~GivesTo(x, n), Sets(t, n, v) PROVE Sets(s, n, v)
    <3>1. PICK i \in 1..(l + 1) : /\ GivesTo(t[i], n) /\ t[i].val = v
                                  /\ \A j \in 1..(l + 1) : j > i => ~GivesTo(t[j], n)
      BY <1>3, <2>1 DEF Sets
    <3>2. i \in 1..l
      BY <1>3, <2>1, <3>1
    <3>3. \A j \in 1..l : j > i => ~GivesTo(s[j], n)
      BY <1>3, <3>1
    <3> QED BY <1>3, <3>1, <3>2, <3>3 DEF Sets
  <2>2. ASSUME ~GivesTo(x, n), Sets(s, n, v) PROVE Sets(t, n, v)
    <3>1. PICK i \in 1..l : /\ GivesTo(s[i], n) /\ s[i].val = v
                            /\ \A j \in 1..l : j > i => ~GivesTo(s[j], n)
      BY <1>3, <2>2 DEF Sets
    <3>2. i \in 1..(l + 1)
      OBVIOUS
    <3>3. \A j \in 1..(l + 1) : j > i => ~GivesTo(t[j], n)
      BY <1>3, <2>2, <3>1
    <3> QED BY <1>3, <3>1, <3>2, <3>3 DEF Sets
  <2> QED BY <2>1, <2>2
<1>6. Silent(t, n) <=> (Silent(s, n) /\ ~GivesTo(x, n))
  <2> HIDE DEF GivesTo
  <2>1. \A j \in 1..(l + 1) : j = l + 1 \/ j \in 1..l
    OBVIOUS
  <2>2. l + 1 \in 1..(l + 1) /\ \A j \in 1..l : j \in 1..(l + 1)
    OBVIOUS
  <2> QED BY <1>3, <2>1, <2>2 DEF Silent
<1> QED BY <1>1, <1>4, <1>5, <1>6

\* A filter that keeps what assigns.
LEMMA SetsOfOnly ==
    ASSUME NEW X, NEW S, \A x \in X : Assigns(x) => x \in S, NEW s \in Seq(X), NEW n, NEW v
    PROVE  /\ Sets(Only(s, S), n, v) <=> Sets(s, n, v)
           /\ Silent(Only(s, S), n) <=> Silent(s, n)
<1> DEFINE T == {t \in Seq(X) : /\ Sets(Only(t, S), n, v) <=> Sets(t, n, v)
                                /\ Silent(Only(t, S), n) <=> Silent(t, n)}
<1>1. <<>> \in T
  BY OnlyOfNothing
<1>2. ASSUME NEW t \in Seq(X), NEW x \in X, t \in T PROVE Append(t, x) \in T
  <2>1. PICK o : o = Only(t, S)
    OBVIOUS
  <2>2. o \in Seq(X \intersect S)
    BY <2>1, OnlyType
  <2>3. Only(Append(t, x), S) = IF x \in S THEN Append(o, x) ELSE o
    BY <2>1, OnlyOfAppend
  <2>4. (Sets(o, n, v) <=> Sets(t, n, v)) /\ (Silent(o, n) <=> Silent(t, n))
    BY <1>2, <2>1
  <2>5. x \notin S => ~GivesTo(x, n)
    BY DEF GivesTo
  <2>6. /\ GivesTo(x, n) => (Sets(Append(t, x), n, v) <=> x.val = v)
        /\ ~GivesTo(x, n) => (Sets(Append(t, x), n, v) <=> Sets(t, n, v))
        /\ Silent(Append(t, x), n) <=> (Silent(t, n) /\ ~GivesTo(x, n))
    BY SetsOfAppend
  <2>7. /\ GivesTo(x, n) => (Sets(Append(o, x), n, v) <=> x.val = v)
        /\ ~GivesTo(x, n) => (Sets(Append(o, x), n, v) <=> Sets(o, n, v))
        /\ Silent(Append(o, x), n) <=> (Silent(o, n) /\ ~GivesTo(x, n))
    BY <2>2, SetsOfAppend
  <2>8. Append(t, x) \in Seq(X)
    OBVIOUS
  <2> HIDE DEF GivesTo, Sets, Silent
  <2>9. /\ Sets(Only(Append(t, x), S), n, v) <=> Sets(Append(t, x), n, v)
        /\ Silent(Only(Append(t, x), S), n) <=> Silent(Append(t, x), n)
    <3>1. CASE x \in S
      BY <2>3, <2>4, <2>6, <2>7, <3>1
    <3>2. CASE x \notin S
      BY <2>3, <2>4, <2>5, <2>6, <3>2
    <3> QED BY <3>1, <3>2
  <2> QED BY <2>8, <2>9
<1> HIDE DEF T
<1>3. Seq(X) \subseteq T
  BY <1>1, <1>2, SeqInduction
<1> QED BY <1>3 DEF T

\* The last row that gives a cvar a value, and what it gives.
LEMMA LastOfSets ==
    ASSUME NEW X, NEW s \in Seq(X), NEW n
    PROVE  /\ LastOf(s, n) = 0 <=> Silent(s, n)
           /\ LastOf(s, n) # 0 => Sets(s, n, s[LastOf(s, n)].val)
           /\ \A v : Sets(s, n, v) => LastOf(s, n) # 0 /\ s[LastOf(s, n)].val = v
<1> DEFINE is == {i \in DOMAIN s : Assigns(s[i]) /\ s[i].name = n}
<1>1. LastOf(s, n) = IF is = {} THEN 0 ELSE Max(is)
  BY DEF LastOf
<1>2. PICK l \in Nat : l = Len(s) /\ DOMAIN s = 1..l
  OBVIOUS
<1>3. is \in SUBSET (0..l) /\ is \subseteq 1..l /\ \A i \in 1..l : i \in is <=> GivesTo(s[i], n)
  BY <1>2 DEF GivesTo
<1> HIDE DEF is, GivesTo
<1>4. is # {} => Max(is) \in is /\ \A y \in is : Max(is) >= y
  BY <1>3, MaxIs
<1>5. is = {} <=> Silent(s, n)
  BY <1>2, <1>3 DEF Silent
<1>6. LastOf(s, n) = 0 <=> is = {}
  BY <1>1, <1>3, <1>4
<1>7. ASSUME is # {} PROVE Sets(s, n, s[LastOf(s, n)].val)
  <2>1. PICK i \in 1..l : i = LastOf(s, n) /\ i \in is /\ \A y \in is : i >= y
    BY <1>1, <1>3, <1>4, <1>7
  <2>2. \A j \in 1..l : j > i => ~GivesTo(s[j], n)
    BY <1>3, <2>1
  <2> QED BY <1>2, <1>3, <2>1, <2>2 DEF Sets
<1>8. ASSUME NEW v, Sets(s, n, v) PROVE LastOf(s, n) # 0 /\ s[LastOf(s, n)].val = v
  <2>1. PICK i \in 1..l : /\ GivesTo(s[i], n) /\ s[i].val = v
                          /\ \A j \in 1..l : j > i => ~GivesTo(s[j], n)
    BY <1>2, <1>8 DEF Sets
  <2>2. i \in is
    BY <1>3, <2>1
  <2>3. PICK m \in 1..l : m = Max(is) /\ m \in is /\ m >= i
    BY <1>3, <1>4, <2>2
  <2>4. m = i
    BY <1>3, <2>1, <2>3
  <2> QED BY <1>1, <2>1, <2>2, <2>3, <2>4
<1> QED BY <1>5, <1>6, <1>7, <1>8

\* Where the block is.
LEMMA BlockSpan ==
    ASSUME NEW f \in Seq(Lines), HasBlock(f)
    PROVE  \E b, e \in Nat : /\ b = BlockStart(f) /\ e = BlockEnd(f)
                             /\ 1 <= b /\ b <= e /\ e <= Len(f)
<1>1. BlockEnd(f) \in 1..Len(f) /\ \E b \in 1..BlockEnd(f) : f[b] = Begin
  BY BlockEndIs DEF Closings
<1> DEFINE B == {b \in 1..BlockEnd(f) : f[b] = Begin}
<1>2. B \in SUBSET (0..BlockEnd(f)) /\ B # {} /\ BlockEnd(f) \in Nat
  BY <1>1
<1>3. Max(B) \in B
  <2> HIDE DEF B
  <2> QED BY <1>2, MaxIs
<1>4. BlockStart(f) \in 1..BlockEnd(f)
  BY <1>3 DEF BlockStart
<1> QED BY <1>1, <1>4

\* A part of a sequence.
LEMMA PartIs ==
    ASSUME NEW s \in Seq(Lines), NEW a \in Nat, NEW z \in Nat, 1 <= a, z <= Len(s), a <= z + 1
    PROVE  /\ SubSeq(s, a, z) \in Seq(Lines) /\ DOMAIN SubSeq(s, a, z) = 1..(z - a + 1)
           /\ \A i \in 1..(z - a + 1) : SubSeq(s, a, z)[i] = s[a + i - 1]
<1>1. \A i \in a..z : s[i] \in Lines
  OBVIOUS
<1>2. SubSeq(s, a, z) \in Seq(Lines)
  BY <1>1, SubSeqProperties
<1>3. Len(SubSeq(s, a, z)) = z - a + 1
  OBVIOUS
<1>4. \A i \in 1..(z - a + 1) : SubSeq(s, a, z)[i] = s[a + i - 1]
  OBVIOUS
<1> QED BY <1>2, <1>3, <1>4

\* The engine takes from the whole file what the block gives to a cvar that it
\* governs.
LEMMA GovernedIs ==
    ASSUME NEW f \in Seq(Lines), NEW n \in Governed(f)
    PROVE  n \in Names /\ \E v \in Values : /\ Sets(Extract(f), n, v)
                                            /\ \A w : Sets(Extract(f), n, w) => w = v
                                            /\ \A cvars : Exec(f, cvars)[n] = v
<1>1. /\ n \in Names /\ LastOf(Extract(f), n) # 0 /\ LastOf(After(f), n) = 0
      /\ Extract(f) \in Seq(Rows) /\ After(f) \in Seq(Lines)
  BY ExtractType, AfterType DEF Governed
<1>2. PICK v \in Values : v = Extract(f)[LastOf(Extract(f), n)].val
  BY <1>1, LastOfIs
<1>3. Sets(Extract(f), n, v) /\ \A w : Sets(Extract(f), n, w) => w = v
  BY <1>1, <1>2, LastOfSets
<1>4. HasBlock(f)
  <2>1. SUFFICES ASSUME ~HasBlock(f) PROVE FALSE
    OBVIOUS
  <2>2. Extract(f) = <<>>
    BY <2>1 DEF Extract
  <2>3. Silent(Extract(f), n)
    BY <2>2 DEF Silent
  <2> QED BY <1>1, <2>3, LastOfSets
<1>5. PICK b \in Nat, e \in Nat, l \in Nat :
        /\ b = BlockStart(f) /\ e = BlockEnd(f) /\ l = Len(f) /\ 1 <= b /\ b <= e /\ e <= l
  <2>1. Len(f) \in Nat
    OBVIOUS
  <2> QED BY <1>4, <2>1, BlockSpan
<1>6. PICK mid : mid = SubSeq(f, b, e)
  OBVIOUS
<1>7. /\ mid \in Seq(Lines) /\ DOMAIN mid = 1..(e - b + 1)
      /\ \A i \in 1..(e - b + 1) : mid[i] = f[b + i - 1]
  BY <1>5, <1>6, PartIs
<1>8. Sets(mid, n, v)
  <2>1. Extract(f) = Only(mid, Rows)
    BY <1>4, <1>5, <1>6 DEF Extract
  <2>2. \A x \in Lines : Assigns(x) => x \in Rows
    BY RowsAssign
  <2> QED BY <1>3, <1>7, <2>1, <2>2, SetsOfOnly
<1>9. \A j \in (e + 1)..l : ~GivesTo(f[j], n)
  <2>1. Silent(After(f), n)
    BY <1>1, LastOfSets
  <2>2. PICK rest : rest = After(f)
    OBVIOUS
  <2>3. rest = SubSeq(f, e + 1, l)
    BY <1>4, <1>5, <2>2 DEF After
  <2>4. DOMAIN rest = 1..(l - e) /\ \A i \in 1..(l - e) : rest[i] = f[e + i]
    <3>1. PICK a \in Nat : a = e + 1
      OBVIOUS
    <3>2. 1 <= a /\ l <= Len(f) /\ a <= l + 1
      BY <1>5, <3>1
    <3>3. DOMAIN rest = 1..(l - a + 1) /\ \A i \in 1..(l - a + 1) : rest[i] = f[a + i - 1]
      BY <2>3, <3>1, <3>2, PartIs
    <3>4. l - a + 1 = l - e /\ \A i \in 1..(l - e) : a + i - 1 = e + i
      BY <1>5, <3>1
    <3> QED BY <3>3, <3>4
  <2>5. ASSUME NEW j \in (e + 1)..l PROVE ~GivesTo(f[j], n)
    <3>1. j - e \in 1..(l - e) /\ e + (j - e) = j
      BY <1>5
    <3>2. rest[j - e] = f[j]
      BY <2>4, <3>1
    <3> QED BY <2>1, <2>2, <2>4, <3>1, <3>2 DEF Silent
  <2> QED BY <2>5
<1>10. Sets(f, n, v)
  <2>1. PICK i \in 1..(e - b + 1) : /\ GivesTo(mid[i], n) /\ mid[i].val = v
                                    /\ \A j \in 1..(e - b + 1) : j > i => ~GivesTo(mid[j], n)
    BY <1>7, <1>8 DEF Sets
  <2>2. PICK k \in 1..l : k = b + i - 1
    <3>1. b + i - 1 \in 1..l
      BY <1>5
    <3> QED BY <3>1
  <2>3. GivesTo(f[k], n) /\ f[k].val = v
    BY <1>7, <2>1, <2>2
  <2>4. ASSUME NEW j \in 1..l, j > k PROVE ~GivesTo(f[j], n)
    <3>1. CASE j \in (e + 1)..l
      BY <1>9, <3>1
    <3>2. CASE j \notin (e + 1)..l
      <4>1. j <= e /\ j > k /\ b >= 1 /\ i >= 1 /\ k = b + i - 1
        BY <1>5, <2>1, <2>2, <2>4, <3>2
      <4>2. PICK h \in Int : h = j - b + 1
        OBVIOUS
      <4>3. h \in 1..(e - b + 1) /\ h > i /\ b + h - 1 = j
        BY <2>1, <4>1, <4>2
      <4> QED BY <1>7, <2>1, <4>3
    <3> QED BY <3>1, <3>2
  <2>5. DOMAIN f = 1..l
    BY <1>5
  <2> QED BY <2>3, <2>4, <2>5 DEF Sets
<1>11. \A cvars : Exec(f, cvars)[n] = v
  BY <1>1, <1>10, LastOfSets DEF Exec
<1> QED BY <1>1, <1>3, <1>11

\* A game that has just executed the file has what the file says.
LEMMA ExecutedHas ==
    ASSUME NEW f \in Seq(Lines), NEW cvars
    PROVE  /\ Has(f, Exec(f, cvars))
           /\ cvars \in Cvars => Exec(f, cvars) \in Cvars
           /\ \A n \in Governed(f) : \A v : Sets(Extract(f), n, v) => Exec(f, cvars)[n] = v
<1>1. \A n \in Governed(f) : \A v : Sets(Extract(f), n, v) => Exec(f, cvars)[n] = v
  BY GovernedIs
<1>2. Has(f, Exec(f, cvars))
  BY <1>1 DEF Has
<1>3. ASSUME cvars \in Cvars, NEW n \in Names
      PROVE  Exec(f, cvars)[n] \in Values \union {Bare}
  <2>1. CASE LastOf(f, n) = 0
    BY <1>3, <2>1 DEF Exec, Cvars
  <2>2. CASE LastOf(f, n) # 0
    <3>1. Sets(f, n, f[LastOf(f, n)].val)
      BY <2>2, LastOfSets
    <3>2. PICK i \in DOMAIN f : Assigns(f[i]) /\ f[i].val = f[LastOf(f, n)].val
      BY <3>1 DEF Sets, GivesTo
    <3>3. f[i] \in Lines
      OBVIOUS
    <3>4. f[LastOf(f, n)].val \in Values
      BY <3>2, <3>3, RowsAssign
    <3>5. Exec(f, cvars)[n] = f[LastOf(f, n)].val
      BY <2>2 DEF Exec
    <3> QED BY <3>4, <3>5
  <2> QED BY <2>1, <2>2
<1>4. Exec(f, cvars) = [n \in Names |-> Exec(f, cvars)[n]]
  BY DEF Exec
<1>5. cvars \in Cvars => Exec(f, cvars) \in Cvars
  <2>1. PICK g : g = Exec(f, cvars)
    OBVIOUS
  <2> QED BY <1>3, <1>4, <2>1 DEF Cvars
<1> QED BY <1>1, <1>2, <1>5

\* A client without a request knows nothing and pushes nothing.
LEMMA IdleKnows == ASSUME NEW f, NEW u PROVE Knows(Idle, f, u) /\ ~Pushes(Idle)
BY DEF Idle, Knows, Pushes

\* The game has executed the file when all begins.
LEMMA GameInit == Init => GameInv
<1> SUFFICES ASSUME Init PROVE GameInv
  OBVIOUS
<1>1. file \in Seq(Lines) /\ "0" \in Values
  BY ConstantsAssumption DEF Init, ValuesAssumption, Default
<1>2. Unset \in Cvars
  BY <1>1 DEF Unset, Cvars
<1>3. live \in Cvars /\ Has(file, live)
  BY <1>1, <1>2, ExecutedHas DEF Init
<1>4. client = [c \in Clients |-> Idle] /\ bots = FALSE /\ promise = "none"
  BY DEF Init
<1>5. InStep
  BY <1>3, <1>4, IdleKnows DEF InStep, BotsGone
<1> QED BY <1>3, <1>4, <1>5, IdleKnows DEF GameInv, PromiseHolds

\* One request moves, and the file stays.  What it changes of the game it pushes.
LEMMA GameFollowsOne ==
    ASSUME FileInv, GameInv, NEW c \in Clients, NEW r,
           client' = [client EXCEPT ![c] = r], file' = file, up' = up, live' \in Cvars,
           drift => drift', Knows(r, file, up),
           Pushes(client[c]) \/ (live' = live /\ bots' = bots),
           ~drift' /\ Pushes(r) => Pushes(client[c]) /\ Brings(r, file, live'),
           ~drift' /\ Pushes(client[c]) /\ ~Pushes(r) /\ up =>
                Has(file, live') /\ BotsGone(file, live', bots'),
           PromiseHolds'
    PROVE  GameInv'
<1>1. client'[c] = r /\ \A d \in Clients : d # c => client'[d] = client[d]
  BY DEF FileInv
<1>2. \A d \in Clients : Knows(client[d], file, up)'
  <2>1. ASSUME NEW d \in Clients PROVE Knows(client'[d], file, up)
    BY <1>1 DEF GameInv
  <2> QED BY <2>1 DEF Knows
<1>3. ASSUME ~drift' PROVE InStep'
  <2>1. ~drift /\ InStep
    BY <1>3 DEF GameInv
  <2>2. \A d \in Clients : Pushes(client'[d]) => Pushes(client[d])
    BY <1>1, <1>3
  <2>3. \A d, e \in Clients : Pushes(client'[d]) /\ Pushes(client'[e]) => d = e
    BY <2>1, <2>2 DEF InStep
  <2>4. ASSUME NEW d \in Clients, Pushes(client'[d]) PROVE Brings(client'[d], file, live')
    <3>1. CASE d = c
      BY <1>1, <1>3, <2>4, <3>1
    <3>2. CASE d # c
      <4>1. Pushes(client[d]) /\ ~Pushes(client[c]) /\ client'[d] = client[d]
        BY <1>1, <2>1, <2>2, <2>4, <3>2 DEF InStep
      <4>2. live' = live
        BY <4>1
      <4> QED BY <2>1, <4>1, <4>2 DEF InStep
    <3> QED BY <3>1, <3>2
  <2>5. ASSUME up, \A d \in Clients : ~Pushes(client'[d])
        PROVE  Has(file, live') /\ BotsGone(file, live', bots')
    <3>1. CASE Pushes(client[c])
      BY <1>1, <1>3, <2>5, <3>1
    <3>2. CASE ~Pushes(client[c])
      <4>1. \A d \in Clients : ~Pushes(client[d])
        BY <1>1, <2>5, <3>2
      <4>2. live' = live /\ bots' = bots
        BY <3>2
      <4> QED BY <2>1, <2>5, <4>1, <4>2 DEF InStep
    <3> QED BY <3>1, <3>2
  <2> QED BY <2>3, <2>4, <2>5 DEF InStep, Pushes, Brings, Has, BotsGone, Gets
<1> QED BY <1>2, <1>3 DEF GameInv

\* What nobody has touched of the promise stays.
LEMMA PromiseStays ==
    ASSUME GameInv, UNCHANGED <<file, up, enforced, changing, promise>>
    PROVE  PromiseHolds'
BY DEF GameInv, PromiseHolds

\* A request that begins.
LEMMA AskKeeps ==
    ASSUME FileInv, GameInv, NEW c \in Clients, NEW op, NEW pc \in {"put", "load"}, NEW rows, NEW blind,
           Ask(c, op, pc, rows, blind),
           op = "password" => rows # <<>> /\ \E v \in Values : Last(rows) = Row(Password, v)
    PROVE  GameInv'
<1> DEFINE r == [Idle EXCEPT !.pc = pc, !.op = op, !.rows = rows, !.blind = blind]
<1>1. client' = [client EXCEPT ![c] = r] /\ UNCHANGED <<file, game, promise, drift>>
  BY DEF Ask
<1>2. r.pc = pc /\ r.op = op /\ r.rows = rows
  BY DEF Idle
<1> HIDE DEF r
<1>3. Knows(r, file, up) /\ ~Pushes(r)
  BY <1>2 DEF Knows, Pushes
<1>4. client[c].pc = "idle"
  BY DEF Ask, At
<1>5. ~Pushes(client[c])
  BY <1>4 DEF Pushes
<1>6. UNCHANGED <<up, live, enforced, changing, bots>> /\ live' \in Cvars
  BY <1>1 DEF game, GameInv
<1>7. PromiseHolds'
  BY <1>1, <1>6, PromiseStays
<1> QED BY <1>1, <1>3, <1>5, <1>6, <1>7, GameFollowsOne

\* Whatever is asked: a save of the settings, a password, a repair of RCON.
LEMMA AskedKeeps ==
    ASSUME FileInv, GameInv, NEW c \in Clients,
           \/ \E field \in Values \union {"blank"} : Save(c, field)
           \/ \E v \in Values : SetPassword(c, v)
           \/ RepairRCON(c)
    PROVE  GameInv'
<1>1. ASSUME NEW field, Save(c, field) PROVE GameInv'
  BY <1>1, AskKeeps DEF Save
<1>2. ASSUME NEW v \in Values, SetPassword(c, v) PROVE GameInv'
  <2>1. Row(Password, v) \in Rows
    BY RowType DEF Names
  <2>2. Sans(Extract(file), Password) \in Seq(Rows)
    <3>1. Extract(file) \in Seq(Rows)
      BY ExtractType DEF FileInv
    <3>2. Sans(Extract(file), Password) \in Seq(Rows \intersect NotNamed({Password}))
      BY <3>1, OnlyType DEF Sans
    <3> QED BY <3>2
  <2>3. \A s \in Seq(Rows), x \in Rows : s \o <<x>> # <<>> /\ Last(s \o <<x>>) = x
    BY DEF Last
  <2>4. <<Row(Password, v)>> # <<>> /\ Last(<<Row(Password, v)>>) = Row(Password, v)
    BY DEF Last
  <2> QED BY <1>2, <2>1, <2>2, <2>3, <2>4, AskKeeps DEF SetPassword
<1>3. ASSUME RepairRCON(c) PROVE GameInv'
  BY <1>3, AskKeeps DEF RepairRCON
<1> QED BY <1>1, <1>2, <1>3

\* A request after its push, or its connection: it knows what it knew.
LEMMA PushedKnows ==
    ASSUME FileInv, GameInv, NEW c \in Clients, Pushes(client[c]), NEW r,
           r = IF Then(c) = "idle" THEN Idle ELSE [client[c] EXCEPT !.pc = Then(c), !.todo = <<>>]
    PROVE  ~Pushes(r) /\ \A u : Knows(r, file, u)
<1>1. PICK x \in Requests : x = client[c] /\ Knows(x, file, up) /\ InTime(x, file)
  BY DEF FileInv, GameInv
<1>2. CASE Then(c) = "idle"
  BY <1>2, IdleKnows
<1>3. CASE Then(c) # "idle"
  <2>1. x.op \in {"save", "password", "repair"} /\ x.pc \in {"dial", "push", "kick"}
    BY <1>1 DEF Pushes, Requests, Kinds, InTime
  <2>2. Then(c) = "reload" => x.op = "password"
    BY <1>1, <2>1 DEF Then
  <2>3. Then(c) \in {"reload", "restart"}
    BY <1>1, <1>3, <2>1 DEF Then
  <2>4. PICK p \in {"reload", "restart"} : p = Then(c)
    BY <2>3
  <2>5. r = [x EXCEPT !.pc = p, !.todo = <<>>]
    BY <1>1, <1>3, <2>4
  <2>6. r.pc = p /\ r.op = x.op /\ r.rows = x.rows /\ r.crossed = x.crossed
    BY <2>5 DEF Requests
  <2> QED BY <1>1, <2>1, <2>2, <2>4, <2>6 DEF Knows, Pushes
<1> QED BY <1>2, <1>3

\* Returning, loading and not reloading.
LEMMA LooksKeep ==
    ASSUME FileInv, GameInv, NEW c \in Clients, PutRefused(c) \/ Load(c) \/ NotReloaded(c)
    PROVE  GameInv'
<1>1. PICK x \in Requests : x = client[c] /\ Knows(x, file, up)
  BY DEF FileInv, GameInv
<1>2. UNCHANGED <<file, up, live, enforced, changing, bots, promise, drift>> /\ live' \in Cvars
  BY DEF PutRefused, Load, NotReloaded, game, GameInv
<1>3. PromiseHolds'
  BY <1>2, PromiseStays
<1>4. ~Pushes(client[c])
  BY DEF PutRefused, Load, NotReloaded, At, Pushes
<1>5. \E r : client' = [client EXCEPT ![c] = r] /\ Knows(r, file, up) /\ ~Pushes(r)
  <2>1. CASE PutRefused(c) \/ NotReloaded(c)
    BY <2>1, IdleKnows DEF PutRefused, NotReloaded, Return
  <2>2. CASE Load(c)
    <3> DEFINE r == [x EXCEPT !.pc = "write", !.content = file]
    <3>1. client' = [client EXCEPT ![c] = r]
      BY <1>1, <2>2 DEF Load
    <3>2. r.pc = "write" /\ r.op = x.op /\ r.rows = x.rows
      BY DEF Requests
    <3> HIDE DEF r
    <3>3. Knows(r, file, up) /\ ~Pushes(r)
      BY <1>1, <3>2 DEF Knows, Pushes
    <3> QED BY <3>1, <3>3
  <2> QED BY <2>1, <2>2
<1>6. PICK r : client' = [client EXCEPT ![c] = r] /\ Knows(r, file, up) /\ ~Pushes(r)
  BY <1>5
<1> QED BY <1>2, <1>3, <1>4, <1>6, GameFollowsOne

\* The reload, and its promise.
LEMMA ReloadKeeps ==
    ASSUME FileInv, GameInv, NEW c \in Clients, Reload(c) PROVE GameInv'
<1>1. PICK x \in Requests : x = client[c] /\ Knows(x, file, up) /\ x.pc = "reload"
  BY DEF FileInv, GameInv, Reload, At
<1>2. /\ UNCHANGED <<file, up, live, bots, drift>> /\ live' \in Cvars /\ changing' = TRUE
      /\ client' = [client EXCEPT ![c] = Idle]
      /\ promise' = IF x.crossed THEN "none" ELSE Last(x.rows).val
  BY <1>1 DEF Reload, Return, GameInv
<1>3. ~Pushes(client[c])
  BY <1>1 DEF Pushes
<1>4. PromiseHolds'
  <2>1. SUFFICES ASSUME ~x.crossed
                 PROVE  promise' \in Values /\ Sets(Extract(file), Password, promise')
    BY <1>2 DEF PromiseHolds, Sets
  <2>2. PICK v \in Values : x.rows # <<>> /\ Last(x.rows) = Row(Password, v) /\ Extract(file) = x.rows
    BY <1>1, <2>1 DEF Knows
  <2>3. PICK rows \in Seq(Rows) : rows = x.rows
    BY DEF Requests
  <2>4. PICK l \in Nat : l = Len(rows) /\ l >= 1
    BY <2>2, <2>3
  <2>5. rows[l] = Row(Password, v)
    BY <2>2, <2>3, <2>4 DEF Last
  <2>6. GivesTo(Row(Password, v), Password) /\ Row(Password, v).val = v
    <3>1. v # Bare
      BY ConstantsAssumption DEF ValuesAssumption
    <3> QED BY <3>1 DEF GivesTo, Assigns, IsRow, Row
  <2>7. promise' = v
    BY <1>2, <2>1, <2>2, <2>6
  <2>8. Sets(rows, Password, v)
    <3>1. DOMAIN rows = 1..l /\ l \in 1..l /\ \A j \in 1..l : ~(j > l)
      BY <2>4
    <3> QED BY <2>5, <2>6, <3>1 DEF Sets
  <2> QED BY <2>2, <2>3, <2>7, <2>8
<1> QED BY <1>2, <1>3, <1>4, IdleKnows, GameFollowsOne

\* A dial: all that assigns is to be pushed.
LEMMA DialKeeps ==
    ASSUME FileInv, GameInv, NEW c \in Clients, Dial(c) PROVE GameInv'
<1>1. PICK x \in Requests : x = client[c] /\ Knows(x, file, up) /\ x.pc = "dial"
  BY DEF FileInv, GameInv, Dial, At
<1> DEFINE S == {y \in Rows : Assigns(y)}
<1>2. PICK todo : todo = Only(x.rows, S)
  OBVIOUS
<1>3. todo \in Seq(S)
  <2>1. x.rows \in Seq(Rows)
    BY DEF Requests
  <2>2. todo \in Seq(Rows \intersect S)
    BY <1>2, <2>1, OnlyType
  <2>3. Rows \intersect S = S
    OBVIOUS
  <2> QED BY <2>2, <2>3
<1> DEFINE r == [x EXCEPT !.pc = "push", !.todo = todo]
<1>4. /\ UNCHANGED <<file, up, live, enforced, changing, bots, promise, drift>> /\ live' \in Cvars
      /\ client' = [client EXCEPT ![c] = r] /\ up
  BY <1>1, <1>2 DEF Dial, Reachable, game, GameInv
<1>5. /\ r.pc = "push" /\ r.op = x.op /\ r.rows = x.rows /\ r.crossed = x.crossed /\ r.todo = todo
  BY DEF Requests
<1>6. \A i \in DOMAIN todo : Assigns(todo[i])
  <2>1. \A i \in DOMAIN todo : todo[i] \in S
    BY <1>3
  <2> QED BY <2>1
<1> HIDE DEF r
<1>7. Knows(r, file, up)
  BY <1>1, <1>4, <1>5, <1>6 DEF Knows
<1>8. PromiseHolds'
  BY <1>4, PromiseStays
<1>9. Pushes(client[c]) /\ Pushes(r)
  BY <1>1, <1>5 DEF Pushes
<1>10. ASSUME ~drift' PROVE Brings(r, file, live')
  <2>1. ~x.crossed /\ Extract(file) = x.rows
    BY <1>1, <1>4, <1>9, <1>10 DEF GameInv, InStep, Brings, Knows
  <2>2. PICK rows \in Seq(Rows) : rows = x.rows
    BY DEF Requests
  <2>3. ASSUME NEW n, NEW v, Sets(rows, n, v) PROVE Sets(todo, n, v)
    <3>1. \A y \in Rows : Assigns(y) => y \in S
      OBVIOUS
    <3> HIDE DEF S
    <3>2. Sets(Only(rows, S), n, v) <=> Sets(rows, n, v)
      BY <3>1, SetsOfOnly
    <3> QED BY <1>2, <2>2, <2>3, <3>2
  <2>4. Gets(file, live', todo)
    BY <2>1, <2>2, <2>3 DEF Gets
  <2> QED BY <1>5, <2>1, <2>4 DEF Brings
<1> QED BY <1>4, <1>7, <1>8, <1>9, <1>10, GameFollowsOne

\* A push that is given up leaves the game behind, unless it is down.
LEMMA GiveUpKeeps ==
    ASSUME FileInv, GameInv, NEW c \in Clients, GiveUp(c) PROVE GameInv'
<1>1. PICK r : r = IF Then(c) = "idle" THEN Idle ELSE [client[c] EXCEPT !.pc = Then(c), !.todo = <<>>]
  OBVIOUS
<1>2. /\ UNCHANGED <<file, up, live, enforced, changing, bots, promise>> /\ live' \in Cvars
      /\ client' = [client EXCEPT ![c] = r] /\ Pushes(client[c])
  BY <1>1 DEF GiveUp, Pushed, Pushing, Pushes, game, GameInv
<1>3. drift => drift'
  BY Zenon DEF GiveUp
<1>4. up => drift'
  BY Zenon DEF GiveUp
<1>5. ~Pushes(r) /\ Knows(r, file, up)
  BY <1>1, <1>2, PushedKnows
<1>6. PromiseHolds'
  BY <1>2, PromiseStays
<1> QED BY <1>2, <1>3, <1>4, <1>5, <1>6, GameFollowsOne

\* A row that is pushed.
LEMMA PushOneKeeps ==
    ASSUME FileInv, GameInv, NEW c \in Clients, PushOne(c) PROVE GameInv'
<1>1. PICK x \in Requests : x = client[c] /\ Knows(x, file, up) /\ x.pc = "push"
  BY DEF FileInv, GameInv, PushOne, At
<1>2. PICK todo \in Seq(Rows) : todo = x.todo /\ todo # <<>>
  BY <1>1 DEF Requests, PushOne
<1>3. PICK h \in Rows, t \in Seq(Rows) : h = Head(todo) /\ t = Tail(todo)
  BY <1>2, HeadTailProperties
<1>4. PICK l \in Nat : /\ DOMAIN t = 1..l /\ DOMAIN todo = 1..(l + 1)
                       /\ todo[1] = h /\ \A i \in 1..l : t[i] = todo[i + 1]
  <2>1. Len(todo) \in Nat /\ Len(todo) # 0 /\ Len(t) = Len(todo) - 1
    BY <1>2, <1>3, HeadTailProperties
  <2>2. PICK l \in Nat : l = Len(t)
    BY <1>3
  <2>3. Len(todo) = l + 1
    BY <2>1, <2>2
  <2>4. DOMAIN t = 1..l /\ DOMAIN todo = 1..(l + 1)
    BY <1>3, <2>2, <2>3
  <2>5. todo[1] = h /\ \A i \in 1..l : t[i] = todo[i + 1]
    BY <1>2, <1>3, <2>2, <2>3, HeadTailProperties
  <2> QED BY <2>4, <2>5
<1>5. \A i \in 1..(l + 1) : Assigns(todo[i])
  BY <1>1, <1>2, <1>4 DEF Knows
<1>6. Assigns(h) /\ h.name \in Names /\ h.val \in Values
  <2>1. 1 \in 1..(l + 1)
    OBVIOUS
  <2>2. Assigns(h)
    BY <1>4, <1>5, <2>1
  <2> QED BY <2>2, RowsAssign DEF Lines
<1>7. \A i \in 1..l : Assigns(t[i])
  <2>1. \A i \in 1..l : i + 1 \in 1..(l + 1)
    OBVIOUS
  <2> QED BY <1>4, <1>5, <2>1
<1> DEFINE r == [x EXCEPT !.todo = t]
<1>8. /\ UNCHANGED <<file, up, enforced, changing, bots, promise, drift>>
      /\ client' = [client EXCEPT ![c] = r] /\ live' = [live EXCEPT ![h.name] = h.val]
  BY <1>1, <1>2, <1>3 DEF PushOne
<1>9. live' \in Cvars /\ live'[h.name] = h.val /\ \A n \in Names : n # h.name => live'[n] = live[n]
  BY <1>6, <1>8 DEF GameInv, Cvars
<1>10. /\ r.pc = "push" /\ r.op = x.op /\ r.rows = x.rows /\ r.crossed = x.crossed /\ r.todo = t
  BY <1>1 DEF Requests
<1> HIDE DEF r
<1>11. Knows(r, file, up)
  BY <1>1, <1>4, <1>7, <1>10 DEF Knows
<1>12. PromiseHolds'
  BY <1>8, PromiseStays
<1>13. Pushes(client[c]) /\ Pushes(r)
  BY <1>1, <1>10 DEF Pushes
<1>14. ASSUME NEW n \in Names, NEW v
       PROVE  /\ Sets(todo, n, v) => Sets(t, n, v) \/ (Silent(t, n) /\ live'[n] = v)
              /\ Silent(todo, n) => Silent(t, n) /\ live'[n] = live[n]
  <2>1. \A j \in 1..(l + 1) : j = 1 \/ (j - 1 \in 1..l /\ t[j - 1] = todo[j])
    <3>1. \A j \in 1..(l + 1) : j = 1 \/ (j - 1 \in 1..l /\ (j - 1) + 1 = j)
      OBVIOUS
    <3> QED BY <1>4, <3>1
  <2>2. ASSUME Sets(todo, n, v) PROVE Sets(t, n, v) \/ (Silent(t, n) /\ live'[n] = v)
    <3>1. PICK i \in 1..(l + 1) : /\ GivesTo(todo[i], n) /\ todo[i].val = v
                                  /\ \A j \in 1..(l + 1) : j > i => ~GivesTo(todo[j], n)
      BY <1>4, <2>2 DEF Sets
    <3>2. CASE i = 1
      <4>1. \A j \in 1..l : j + 1 \in 1..(l + 1) /\ j + 1 > 1
        OBVIOUS
      <4>2. Silent(t, n)
        BY <1>4, <3>1, <3>2, <4>1 DEF Silent
      <4>3. n = h.name /\ v = h.val
        BY <1>4, <3>1, <3>2 DEF GivesTo
      <4> QED BY <1>9, <4>2, <4>3
    <3>3. CASE i # 1
      <4>1. PICK k \in 1..l : k = i - 1 /\ t[k] = todo[i]
        BY <2>1, <3>1, <3>3
      <4>2. \A j \in 1..l : j > k => j + 1 \in 1..(l + 1) /\ j + 1 > i
        BY <3>1, <4>1
      <4>3. \A j \in 1..l : j > k => ~GivesTo(t[j], n)
        BY <1>4, <3>1, <4>2
      <4> QED BY <1>4, <3>1, <4>1, <4>3 DEF Sets
    <3> QED BY <3>2, <3>3
  <2>3. ASSUME Silent(todo, n) PROVE Silent(t, n) /\ live'[n] = live[n]
    <3>1. \A j \in 1..l : j + 1 \in 1..(l + 1)
      OBVIOUS
    <3>2. Silent(t, n)
      BY <1>4, <2>3, <3>1 DEF Silent
    <3>3. 1 \in 1..(l + 1)
      OBVIOUS
    <3>4. ~GivesTo(h, n)
      BY <1>4, <2>3, <3>3 DEF Silent
    <3> QED BY <1>6, <1>9, <3>2, <3>4 DEF GivesTo
  <2> QED BY <2>2, <2>3
<1>15. ASSUME ~drift' PROVE Brings(r, file, live')
  <2>1. ~x.crossed /\ Gets(file, live, todo)
    BY <1>1, <1>2, <1>8, <1>13, <1>15 DEF GameInv, InStep, Brings
  <2>2. Governed(file) \subseteq Names
    BY DEF Governed
  <2>3. Gets(file, live', t)
    BY <1>14, <2>1, <2>2 DEF Gets
  <2> QED BY <1>10, <2>1, <2>3 DEF Brings
<1> QED BY <1>8, <1>9, <1>11, <1>12, <1>13, <1>15, GameFollowsOne

\* The end of a push: the game has what the block decides, and if bots may be left
\* the block does not say none.
LEMMA PushEndsKeeps ==
    ASSUME FileInv, GameInv, NEW c \in Clients, PushEnds(c) PROVE GameInv'
<1>1. PICK x \in Requests : x = client[c] /\ Knows(x, file, up) /\ x.pc = "push" /\ x.todo = <<>>
  BY DEF FileInv, GameInv, PushEnds, At
<1>2. UNCHANGED <<file, up, live, enforced, changing, bots, promise, drift>> /\ live' \in Cvars
  BY DEF PushEnds, game, GameInv
<1>3. PromiseHolds'
  BY <1>2, PromiseStays
<1>4. Pushes(client[c])
  BY <1>1 DEF Pushes
<1>5. ASSUME ~drift' PROVE ~x.crossed /\ Has(file, live) /\ Extract(file) = x.rows
  <2>1. ~x.crossed /\ Gets(file, live, x.todo)
    BY <1>1, <1>2, <1>4, <1>5 DEF GameInv, InStep, Brings
  <2>2. \A n, v : ~Sets(x.todo, n, v)
    BY <1>1 DEF Sets
  <2> QED BY <1>1, <2>1, <2>2 DEF Has, Gets, Knows
<1>6. CASE SwitchesBotsOff(x.rows)
  <2> DEFINE r == [x EXCEPT !.pc = "kick"]
  <2>1. client' = [client EXCEPT ![c] = r]
    BY <1>1, <1>6 DEF PushEnds, Goto
  <2>2. r.pc = "kick" /\ r.op = x.op /\ r.rows = x.rows /\ r.crossed = x.crossed
    BY DEF Requests
  <2> HIDE DEF r
  <2>3. Knows(r, file, up) /\ Pushes(r)
    BY <1>1, <2>2 DEF Knows, Pushes
  <2>4. ~drift' => Brings(r, file, live')
    BY <1>2, <1>5, <2>2 DEF Brings
  <2> QED BY <1>2, <1>3, <1>4, <2>1, <2>3, <2>4, GameFollowsOne
<1>7. CASE ~SwitchesBotsOff(x.rows)
  <2>1. PICK r : r = IF Then(c) = "idle" THEN Idle ELSE [client[c] EXCEPT !.pc = Then(c), !.todo = <<>>]
    OBVIOUS
  <2>2. client' = [client EXCEPT ![c] = r]
    BY <1>1, <1>7, <2>1 DEF PushEnds, Pushed
  <2>3. ~Pushes(r) /\ Knows(r, file, up)
    BY <1>4, <2>1, PushedKnows
  <2>4. ASSUME ~drift' PROVE Has(file, live') /\ BotsGone(file, live', bots')
    <3>1. SUFFICES ASSUME Quota \in Governed(file), live[Quota] = "0" PROVE FALSE
      BY <1>2, <1>5, <2>4 DEF BotsGone
    <3>2. PICK v \in Values : Sets(Extract(file), Quota, v)
      BY <3>1, GovernedIs DEF FileInv
    <3>3. v = "0"
      BY <1>5, <2>4, <3>1, <3>2 DEF Has
    <3>4. x.rows \in Seq(Rows) /\ Sets(x.rows, Quota, "0")
      BY <1>5, <2>4, <3>2, <3>3 DEF Requests
    <3>5. LastOf(x.rows, Quota) # 0 /\ x.rows[LastOf(x.rows, Quota)].val = "0"
      BY <3>4, LastOfSets
    <3> QED BY <1>7, <3>5 DEF SwitchesBotsOff
  <2> QED BY <1>2, <1>3, <1>4, <2>2, <2>3, <2>4, GameFollowsOne
<1> QED BY <1>6, <1>7

\* The end of a push that sends the bots away.
LEMMA KickKeeps ==
    ASSUME FileInv, GameInv, NEW c \in Clients, KickBots(c) PROVE GameInv'
<1>1. PICK r : r = IF Then(c) = "idle" THEN Idle ELSE [client[c] EXCEPT !.pc = Then(c), !.todo = <<>>]
  OBVIOUS
<1>2. /\ UNCHANGED <<file, up, live, enforced, changing, promise, drift>> /\ live' \in Cvars
      /\ bots' = FALSE /\ client' = [client EXCEPT ![c] = r] /\ client[c].pc = "kick"
  BY <1>1 DEF KickBots, Pushed, At, GameInv
<1>3. Pushes(client[c])
  BY <1>2 DEF Pushes
<1>4. ~Pushes(r) /\ Knows(r, file, up)
  BY <1>1, <1>3, PushedKnows
<1>5. PromiseHolds'
  BY <1>2, PromiseStays
<1>6. ~drift' => Has(file, live') /\ BotsGone(file, live', bots')
  BY <1>2, <1>3 DEF GameInv, InStep, Brings, BotsGone
<1> QED BY <1>2, <1>3, <1>4, <1>5, <1>6, GameFollowsOne

\* A change of the file by another frees a request from what it knew of it.
LEMMA CrossedKnows ==
    ASSUME FileInv, GameInv, NEW me, NEW g, NEW d \in Clients, d # me
    PROVE  Knows(CrossedBy(me)[d], g, up) /\ (Pushes(CrossedBy(me)[d]) => Pushes(client[d]))
<1>1. PICK x \in Requests : x = client[d] /\ Knows(x, file, up)
  BY DEF FileInv, GameInv
<1>2. CASE At(d, "idle")
  <2>1. CrossedBy(me)[d] = x
    BY <1>1, <1>2 DEF CrossedBy
  <2> QED BY <1>1, <1>2, <2>1 DEF At, Knows, Pushes
<1>3. CASE ~At(d, "idle")
  <2>1. CrossedBy(me)[d] = CrossedOnce(x)
    BY <1>1, <1>3 DEF CrossedBy, CrossedOnce, At
  <2>2. PICK q : q = CrossedOnce(x)
    OBVIOUS
  <2>3. /\ q.pc = x.pc /\ q.op = x.op /\ q.rows = x.rows /\ q.todo = x.todo /\ q.crossed = TRUE
    BY <2>2 DEF CrossedOnce, Requests
  <2> QED BY <1>1, <2>1, <2>2, <2>3 DEF Knows, Pushes
<1> QED BY <1>2, <1>3

\* A write of the block: the writer knows its rows, all others know nothing more.
LEMMA WriteKeeps ==
    ASSUME FileInv, GameInv, NEW c \in Clients, Write(c) PROVE GameInv'
<1>1. PICK x \in Requests : x = client[c] /\ Knows(x, file, up)
  BY DEF FileInv, GameInv
<1>2. FileInv' /\ Extract(file') = x.rows
  BY <1>1, Written
<1>3. PICK all \in [Clients -> Requests] : all = CrossedBy(c)
  <2>1. PICK g \in Seq(Lines) : g = file
    BY DEF FileInv
  <2> QED BY <2>1, FileChanges
<1> DEFINE r == [x EXCEPT !.pc = "dial", !.content = <<>>, !.blind = FALSE, !.crossed = FALSE, !.late = FALSE]
<1>4. client' = [all EXCEPT ![c] = r]
  <2>1. all[c] = x
    BY <1>1, <1>3 DEF CrossedBy
  <2>2. client' = [all EXCEPT ![c].pc = "dial", ![c].content = <<>>, ![c].blind = FALSE,
                              ![c].crossed = FALSE, ![c].late = FALSE]
    BY <1>3 DEF Write
  <2> QED BY <2>1, <2>2
<1>5. UNCHANGED <<up, live, bots>> /\ live' \in Cvars /\ promise' = "none"
  BY DEF Write, game, GameInv
<1>6. r.pc = "dial" /\ r.op = x.op /\ r.rows = x.rows /\ r.crossed = FALSE
  BY DEF Requests
<1> HIDE DEF r
<1>7. client'[c] = r /\ \A d \in Clients : d # c => client'[d] = CrossedBy(c)[d]
  BY <1>3, <1>4
<1>8. PICK g : g = file'
  OBVIOUS
<1>9. Knows(r, g, up) /\ Pushes(r) /\ Brings(r, g, live)
  BY <1>1, <1>2, <1>6, <1>8 DEF Knows, Pushes, Brings
<1>10. \A d \in Clients : Knows(client[d], file, up)'
  <2>1. ASSUME NEW d \in Clients PROVE Knows(client'[d], g, up)
    BY <1>7, <1>9, CrossedKnows
  <2> QED BY <1>5, <1>8, <2>1 DEF Knows
<1>11. ASSUME ~drift' PROVE InStep'
  <2>1. drift => drift'
    BY Zenon DEF Write
  <2>2. (\E d \in Clients : Pushing(d)) => drift'
    BY Zenon DEF Write
  <2>3. \A d \in Clients : ~Pushes(client[d])
    BY <1>11, <2>2 DEF Pushing, Pushes
  <2>4. \A d \in Clients : Pushes(client'[d]) => d = c
    BY <1>7, <2>3, CrossedKnows
  <2>5. \A d, e \in Clients : Pushes(client'[d]) /\ Pushes(client'[e]) => d = e
    BY <2>4
  <2>6. \A d \in Clients : Pushes(client'[d]) => Brings(client'[d], g, live)
    BY <1>7, <1>9, <2>4
  <2>7. ~(\A d \in Clients : ~Pushes(client'[d]))
    BY <1>7, <1>9
  <2> QED BY <1>5, <1>8, <2>5, <2>6, <2>7 DEF InStep, Pushes, Brings, Has, Gets
<1>12. PromiseHolds'
  BY <1>5 DEF PromiseHolds
<1> QED BY <1>5, <1>10, <1>11, <1>12 DEF GameInv

\* The operator edits the file.
LEMMA EditKeeps == ASSUME FileInv, GameInv, EditFile PROVE GameInv'
<1>1. /\ UNCHANGED <<up, live>> /\ live' \in Cvars /\ promise' = "none" /\ drift' = TRUE
      /\ client' = CrossedBy("operator")
  BY DEF EditFile, game, GameInv
<1>2. PICK g : g = file'
  OBVIOUS
<1>3. \A d \in Clients : Knows(client[d], file, up)'
  <2>1. ASSUME NEW d \in Clients PROVE Knows(client'[d], g, up)
    <3>1. d # "operator"
      BY ConstantsAssumption DEF ClientsAssumption
    <3> QED BY <1>1, <3>1, CrossedKnows
  <2> QED BY <1>1, <1>2, <2>1 DEF Knows
<1>4. PromiseHolds'
  BY <1>1 DEF PromiseHolds
<1> QED BY <1>1, <1>3, <1>4 DEF GameInv

\* The game executes the file, at a map load or at its start.
LEMMA BootKeeps ==
    ASSUME FileInv, GameInv, NEW cvars \in Cvars, Booted(cvars), up' = TRUE,
           file' = file, promise' = promise,
           drift /\ (\E c \in Clients : Pushes(client[c])) => drift',
           \A d \in Clients : \/ client'[d] = client[d]
                              \/ ~Pushes(client'[d]) /\ Knows(client'[d], file, TRUE)
    PROVE  GameInv'
<1>1. live' = Exec(file, cvars) /\ enforced' = Exec(file, cvars)[Password] /\ bots' = FALSE
  BY DEF Booted
<1>2. file \in Seq(Lines)
  BY DEF FileInv
<1>3. /\ Has(file, live') /\ live' \in Cvars
      /\ \A n \in Governed(file) : \A v : Sets(Extract(file), n, v) => live'[n] = v
  <2>1. PICK lv : lv = Exec(file, cvars)
    OBVIOUS
  <2>2. /\ Has(file, lv) /\ lv \in Cvars
        /\ \A n \in Governed(file) : \A v : Sets(Extract(file), n, v) => lv[n] = v
    BY <1>2, <2>1, ExecutedHas
  <2> QED BY <1>1, <2>1, <2>2
<1>4. \A d \in Clients : Knows(client[d], file, up)'
  <2>1. ASSUME NEW d \in Clients PROVE Knows(client'[d], file, TRUE)
    <3>1. Knows(client[d], file, TRUE)
      BY DEF GameInv, Knows
    <3> QED BY <3>1
  <2> QED BY <2>1 DEF Knows
<1>5. ASSUME ~drift' PROVE InStep'
  <2>1. \A d \in Clients : Pushes(client'[d]) => Pushes(client[d]) /\ client'[d] = client[d]
    OBVIOUS
  <2>2. \A d, e \in Clients : Pushes(client'[d]) /\ Pushes(client'[e]) => d = e
    BY <1>5, <2>1 DEF GameInv, InStep
  <2>3. ASSUME NEW d \in Clients, Pushes(client'[d]) PROVE Brings(client'[d], file, live')
    <3>1. PICK x : x = client[d] /\ x = client'[d] /\ Pushes(x)
      BY <2>1, <2>3
    <3>2. Brings(x, file, live)
      BY <1>5, <3>1 DEF GameInv, InStep
    <3>3. Gets(file, live, x.todo) => Gets(file, live', x.todo)
      BY <1>3 DEF Gets
    <3> QED BY <1>3, <3>1, <3>2, <3>3 DEF Brings
  <2>4. BotsGone(file, live', bots')
    BY <1>1 DEF BotsGone
  <2> QED BY <1>3, <2>2, <2>3, <2>4 DEF InStep, Pushes, Brings, Has, Gets, BotsGone
<1>6. PromiseHolds'
  BY <1>1, <1>3 DEF GameInv, PromiseHolds
<1> QED BY <1>3, <1>4, <1>5, <1>6 DEF GameInv

\* A game that stops drops the connections of those who push.
LEMMA DroppedKnows ==
    ASSUME FileInv, GameInv, NEW d \in Clients
    PROVE  \/ Dropped(d) = client[d] /\ client[d].pc \notin {"push", "kick"}
           \/ ~Pushes(Dropped(d)) /\ \A u : Knows(Dropped(d), file, u)
<1>1. CASE client[d].pc \in {"push", "kick"}
  <2>1. Pushes(client[d])
    BY <1>1 DEF Pushes
  <2> QED BY <1>1, <2>1, PushedKnows DEF Dropped
<1>2. CASE client[d].pc \notin {"push", "kick"}
  BY <1>2 DEF Dropped
<1> QED BY <1>1, <1>2

\* A map load, a start and a restart execute the file.
LEMMA BootsKeep ==
    ASSUME FileInv, GameInv, MapLoads \/ GameStarts \/ \E c \in Clients : Restart(c)
    PROVE  GameInv'
<1>1. "0" \in Values
  BY ConstantsAssumption DEF ValuesAssumption, Default
<1>2. Unset \in Cvars /\ live \in Cvars
  BY <1>1 DEF Unset, Cvars, GameInv
<1>3. \A c : Pushes(client[c]) <=> Pushing(c)
  BY DEF Pushes, Pushing
<1>4. CASE MapLoads
  <2>1. Booted(live) /\ up' = TRUE /\ file' = file /\ promise' = promise /\ client' = client
    <3>1. up' = TRUE
      BY <1>4, Zenon DEF MapLoads
    <3> QED BY <1>4, <3>1 DEF MapLoads, counters
  <2>2. drift /\ (\E c \in Clients : Pushing(c)) => drift'
    BY <1>4, Zenon DEF MapLoads
  <2> QED BY <1>2, <1>3, <2>1, <2>2, BootKeeps
<1>5. CASE GameStarts
  <2>1. Booted(Unset) /\ up' = TRUE /\ file' = file /\ promise' = promise /\ client' = client
    BY <1>5 DEF GameStarts, Boot
  <2>2. drift /\ (\E c \in Clients : Pushing(c)) => drift'
    BY <1>5, Zenon DEF GameStarts
  <2> QED BY <1>2, <1>3, <2>1, <2>2, BootKeeps
<1>6. ASSUME NEW c \in Clients, Restart(c) PROVE GameInv'
  <2>1. /\ Booted(Unset) /\ up' = TRUE /\ file' = file /\ promise' = promise
        /\ client' = [d \in Clients |-> IF d = c THEN Idle ELSE Dropped(d)]
    BY <1>6 DEF Restart, Boot
  <2>2. drift /\ (\E d \in Clients : Pushing(d)) => drift'
    BY <1>6, Zenon DEF Restart
  <2>3. ASSUME NEW d \in Clients
        PROVE  \/ client'[d] = client[d]
               \/ ~Pushes(client'[d]) /\ Knows(client'[d], file, TRUE)
    <3>1. CASE d = c
      BY <2>1, <3>1, IdleKnows
    <3>2. CASE d # c
      BY <2>1, <3>2, DroppedKnows
    <3> QED BY <3>1, <3>2
  <2> QED BY <1>2, <1>3, <2>1, <2>2, <2>3, BootKeeps
<1> QED BY <1>4, <1>5, <1>6

\* A game that stops owes nobody anything.
LEMMA GameStopsKeeps == ASSUME FileInv, GameInv, GameStops PROVE GameInv'
<1>1. /\ UNCHANGED <<file, live, promise, drift>> /\ live' \in Cvars /\ up' = FALSE
      /\ client' = [d \in Clients |-> Dropped(d)]
  BY DEF GameStops, GameInv
<1>2. \A d \in Clients : Knows(client[d], file, up)'
  <2>1. ASSUME NEW d \in Clients PROVE Knows(client'[d], file, FALSE)
    <3>1. CASE Dropped(d) = client[d] /\ client[d].pc \notin {"push", "kick"}
      BY <1>1, <3>1 DEF GameInv, Knows
    <3>2. CASE \A u : Knows(Dropped(d), file, u)
      BY <1>1, <3>2
    <3> QED BY <3>1, <3>2, DroppedKnows
  <2> QED BY <1>1, <2>1 DEF Knows
<1>3. ASSUME ~drift' PROVE InStep'
  <2>1. \A d \in Clients : Pushes(client'[d]) => Pushes(client[d]) /\ client'[d] = client[d]
    BY <1>1, DroppedKnows
  <2>2. ~drift /\ InStep
    BY <1>1, <1>3 DEF GameInv
  <2>3. \A d, e \in Clients : Pushes(client'[d]) /\ Pushes(client'[e]) => d = e
    BY <2>1, <2>2 DEF InStep
  <2>4. \A d \in Clients : Pushes(client'[d]) => Brings(client'[d], file, live)
    BY <2>1, <2>2 DEF InStep
  <2> QED BY <1>1, <2>3, <2>4 DEF InStep, Pushes, Brings, Has, Gets
<1>4. PromiseHolds'
  BY <1>1 DEF GameInv, PromiseHolds
<1> QED BY <1>1, <1>2, <1>3, <1>4 DEF GameInv

\* Bots join where the quota of the game is not zero.
LEMMA BotsJoinKeeps == ASSUME FileInv, GameInv, BotsJoin PROVE GameInv'
<1>1. /\ UNCHANGED <<file, up, live, enforced, changing, client, promise, drift>>
      /\ live[Quota] # "0"
  BY DEF BotsJoin
<1>2. \A d \in Clients : Knows(client[d], file, up)'
  BY <1>1 DEF GameInv, Knows
<1>3. ASSUME ~drift' PROVE InStep'
  BY <1>1, <1>3 DEF GameInv, InStep, Pushes, Brings, Has, Gets, BotsGone
<1>4. PromiseHolds'
  BY <1>1, PromiseStays
<1> QED BY <1>1, <1>2, <1>3, <1>4 DEF GameInv

\* Every step keeps the invariant.
LEMMA GameNext == FileInv /\ GameInv /\ [Next]_vars => GameInv'
<1>1. FileInv /\ GameInv /\ Next => GameInv'
  <2> SUFFICES ASSUME FileInv, GameInv, Next PROVE GameInv'
    OBVIOUS
  <2>1. ASSUME NEW c \in Clients,
               \/ \E field \in Values \union {"blank"} : Save(c, field)
               \/ \E v \in Values : SetPassword(c, v)
               \/ RepairRCON(c)
        PROVE  GameInv'
    BY <2>1, AskedKeeps
  <2>2. ASSUME NEW c \in Clients, PutRefused(c) \/ Load(c) \/ NotReloaded(c) PROVE GameInv'
    BY <2>2, LooksKeep
  <2>3. ASSUME NEW c \in Clients,
               Write(c) \/ Dial(c) \/ GiveUp(c) \/ PushOne(c) \/ PushEnds(c) \/ KickBots(c) \/ Reload(c)
        PROVE  GameInv'
    BY <2>3, WriteKeeps, DialKeeps, GiveUpKeeps, PushOneKeeps, PushEndsKeeps, KickKeeps, ReloadKeeps
  <2>4. ASSUME MapLoads \/ GameStarts \/ \E c \in Clients : Restart(c) PROVE GameInv'
    BY <2>4, BootsKeep
  <2>5. ASSUME GameStops \/ BotsJoin \/ EditFile PROVE GameInv'
    BY <2>5, GameStopsKeeps, BotsJoinKeeps, EditKeeps
  <2> QED BY <2>1, <2>2, <2>3, <2>4, <2>5 DEF Next
<1>2. GameInv /\ UNCHANGED vars => GameInv'
  <2> SUFFICES ASSUME GameInv, UNCHANGED vars PROVE GameInv'
    OBVIOUS
  <2>1. UNCHANGED <<file, up, live, enforced, changing, bots, client, promise, drift>>
    BY DEF vars, game
  <2>2. \A d \in Clients : Knows(client[d], file, up)'
    BY <2>1 DEF GameInv, Knows
  <2>3. ASSUME ~drift' PROVE InStep'
    BY <2>1, <2>3 DEF GameInv, InStep, Pushes, Brings, Has, Gets, BotsGone
  <2>4. PromiseHolds'
    BY <2>1, PromiseStays
  <2> QED BY <2>1, <2>2, <2>3, <2>4 DEF GameInv
<1> QED BY <1>1, <1>2

\* What requests in flight know of the file and still owe the game holds at all times
\* of the whole server, beside the facts of FileInv.
THEOREM GameInvariance == ServerSpec => []GameInv
<1>1. ServerInit => GameInv
  BY GameInit DEF ServerInit
<1>2. FileInv /\ GameInv /\ [ServerNext]_<<focus, vars, mapVars, unitVars>> => GameInv'
  <2>1. ServerNext => [Next]_vars
    BY DEF ServerNext
  <2> QED BY <2>1, GameNext
<1> QED BY <1>1, <1>2, FileInvariance, PTL DEF ServerSpec

\* Whatever requests, game, systemd and operator do, a game that runs with no change
\* under way plays by server.cfg: it has every value that the block decides and no
\* bots if that says none, unless an edit or a push that was cut short or overlapped
\* came in between (updateSettings writes first and pushes then), and it asks for the
\* password that the answer of SetPassword called locked.
THEOREM GamePlaysByTheFile == ServerSpec => []GameFollowsFile
<1>1. FileInv /\ GameInv => GameFollowsFile
  <2> SUFFICES ASSUME FileInv, GameInv PROVE GameFollowsFile
    OBVIOUS
  <2>1. LiveFollowsFile
    <3> SUFFICES ASSUME up, ~drift, \A c \in Clients : ~Pushing(c)
                 PROVE  /\ \A n \in Governed(file) : live[n] = Exec(file, Unset)[n]
                        /\ Quota \in Governed(file) /\ live[Quota] = "0" => ~bots
      BY DEF LiveFollowsFile
    <3>1. Has(file, live) /\ BotsGone(file, live, bots)
      BY DEF GameInv, InStep, Pushing, Pushes
    <3>2. ASSUME NEW n \in Governed(file) PROVE live[n] = Exec(file, Unset)[n]
      <4>1. PICK v \in Values : Sets(Extract(file), n, v) /\ \A cvars : Exec(file, cvars)[n] = v
        BY GovernedIs DEF FileInv
      <4> QED BY <3>1, <4>1 DEF Has
    <3> QED BY <3>1, <3>2 DEF BotsGone
  <2>2. PasswordLocks
    BY DEF PasswordLocks, GameInv, PromiseHolds
  <2> QED BY <2>1, <2>2 DEF GameFollowsFile
<1> QED BY <1>1, FileInvariance, GameInvariance, PTL

============================================================
