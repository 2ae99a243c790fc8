------------------------------- MODULE MCServer -------------------------------
(***************************************************************************)
(* Three components around the running game, for TLC: its settings, its    *)
(* map and its unit.  They share no state, so nothing is learnt from their *)
(* interleavings: a behaviour moves one of them, the one in focus, and     *)
(* leaves the others as they are at the start.                             *)
(***************************************************************************)
EXTENDS Settings, TLC

CONSTANTS Installed, Foreign, Workshop, DefaultMap, MaxChanges
CONSTANTS Settle, Window, Burst, LoopRestarts, RestartDelays, MaxTime, MaxPresses

VARIABLES focus
VARIABLES env, map, coming, changer, changes, sent, apart
VARIABLES now, unit, delay, wakes, nRestarts, starts, limited, lastDeath, activated,
          button, presses

mapVars == <<env, map, coming, changer, changes, sent, apart>>
unitVars == <<now, unit, delay, wakes, nRestarts, starts, limited, lastDeath, activated,
              button, presses>>

M == INSTANCE MapEnv WITH client <- changer, asked <- changes
C == INSTANCE Control WITH client <- button, asked <- presses, MaxRequests <- MaxPresses

ASSUME ConstantsAssumption ==
    ValuesAssumption /\ ClientsAssumption /\ M!MapsAssumption /\ C!ControlAssumption

MCValues == {"0", "1"}

\* An orphan end marker and a row above the block, which the block overrides.
MCFiles ==
    {<<End, Row(Quota, "1"), Begin, Row(Secret, "1"), Row(Password, "0"), End>>}

Symmetry == Permutations(Clients)

ServerInit ==
    /\ focus \in {"settings", "map", "unit"}
    /\ Init /\ M!Init /\ C!Init
    /\ focus # "unit" => delay = CHOOSE d \in RestartDelays : TRUE

ServerNext ==
    /\ \/ focus = "settings" /\ Next /\ UNCHANGED <<mapVars, unitVars>>
       \/ focus = "map" /\ M!Next /\ UNCHANGED <<vars, unitVars>>
       \/ focus = "unit" /\ C!Next /\ UNCHANGED <<vars, mapVars>>
    /\ UNCHANGED focus

ServerSpec == ServerInit /\ [][ServerNext]_<<focus, vars, mapVars, unitVars>>

\* MapEnv: the next start plays the last map that was sent, as the game does
\* now.
MapSurvivesRestart == M!MapSurvivesRestart

\* Control: what the buttons answer is true, and a loop that systemd has given
\* up is told as one.
ButtonsAnswerTruly == C!ButtonsAnswerTruly

==============================================================================
