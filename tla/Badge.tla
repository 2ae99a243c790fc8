-------------------------------- MODULE Badge --------------------------------
(***************************************************************************)
(* Updater with a history that the code does not have.  What a Check or a  *)
(* Run records is a comparison of what it read a while ago, so the panel's *)
(* badge can be wrong once two goroutines are under way at the same time.  *)
(* The history says since when, and which pass sets it right again.        *)
(***************************************************************************)
EXTENDS Updater

VARIABLES
    mixed,      \* the goroutines that another one was under way beside
    muddled     \* nothing has set the badge right since the last such pair

badgeVars == <<vars, mixed, muddled>>

Busy(a) == at[a].pc \notin {"idle", "settle"}

Mixing == {a \in Actors : Busy(a) /\ \E b \in Actors \ {a} : Busy(b)}

\* A comparison of two builds, or an install, that nobody came between: the
\* badge says what there is to say.
SetsRight(a) ==
    /\ a \notin mixed
    /\ \/ Record(a) /\ at[a].seen # 0 /\ at[a].got # 0
       \/ AlreadyCurrent(a)
       \/ Installed(a)

\* The job of the panel's button asks Steam, and then fails: the cache has the
\* new build, and availableSince is as it was before.
FailsInformed == "job" \in Actors /\ (StopTimesOut("job") \/ GiveUp("job"))

BadgeInit == Init /\ mixed = {} /\ muddled = FALSE

BadgeNext ==
    /\ Next
    /\ mixed' = {a \in mixed : Busy(a)'} \union Mixing'
    /\ muddled' = \/ Mixing' # {}
                  \/ FailsInformed
                  \/ muddled /\ ~AgentRestarts /\ ~\E a \in Actors : SetsRight(a)

BadgeSpec == BadgeInit /\ [][BadgeNext]_badgeVars

AtRest == \A a \in Actors : ~Busy(a)

\* Between checks and updates the badge says what the struct's comment promises:
\* "Available is true when both builds are known and differ" (UpdateInfo).  Two
\* goroutines at once can leave it wrong, and so can an update by the button that
\* fails; the next check that runs by itself and gets its answer mends it.
BadgeIsTrue ==
    AtRest /\ ~muddled => (avail <=> local # 0 /\ cache.build # 0 /\ local # cache.build)
==============================================================================
