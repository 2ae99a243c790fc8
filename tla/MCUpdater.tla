------------------------------ MODULE MCUpdater ------------------------------
(***************************************************************************)
(* The updater with its loop, its job and two POSTs at once, which no      *)
(* definition tells apart, and the check of the panel's button.            *)
(***************************************************************************)
EXTENDS Updater, TLC

PostSymmetry == Permutations(Posts)

\* Bounds: the check, which touches neither the unit nor the flag, is followed up
\* only where nothing else is at work; a player, who keeps the loop from a Run and
\* is gone after a stop, only where no POST and no job is; and two POSTs at once
\* only where the loop is not in a pass.
Asks == \E p \in Posts : InProgress(p)
TwoAsk == \A p \in Posts : InProgress(p)

FewAtOnce ==
    /\ at["check"].pc # "idle" => ~Asks /\ \A a \in Actors \ {"check"} : at[a].pc = "idle"
    /\ players # 0 => ~Asks /\ at["job"].pc = "idle"
    /\ TwoAsk => at["auto"].pc = "idle"
==============================================================================
