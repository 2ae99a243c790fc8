-------------------------------- MODULE MapEnv --------------------------------
(***************************************************************************)
(* The map that is played and the map the next start will play.            *)
(*                                                                         *)
(* The unit launches the game with the map of an environment file that     *)
(* cs2a owns (internal/agent/mapenv.go).  A map change fires the command   *)
(* first and records the map after it (handleMapChange); a new password    *)
(* reloads the map that a query named a moment before (SetPassword); the   *)
(* game goes on to other maps by itself.  Nothing serialises them.         *)
(***************************************************************************)
EXTENDS Naturals, FiniteSets

CONSTANTS
    Installed,   \* the maps in the game tree
    Foreign,     \* names that pass the pattern but are not installed
    Workshop,    \* workshop ids
    DefaultMap,  \* what a fresh install launches
    Clients,     \* requests that can be in progress at once
    MaxChanges   \* bound on the requests of a behaviour

\* A stock map is launched first; "none" stands for no map.
MapsAssumption ==
    /\ DefaultMap \in Installed /\ Installed \intersect Foreign = {}
    /\ "none" \notin Installed \union Foreign \union Workshop

VARIABLES
    env,     \* CS2A_MAP
    map,     \* the map that is played, "none" when the game is down
    coming,  \* the changelevel that the game has yet to carry out, or "none"
    client,  \* the requests
    asked,   \* counter that MaxChanges caps
    sent,    \* history: the last map that a request sent and could record
    apart    \* history: what has come between the two maps

vars == <<env, map, coming, client, asked, sent, apart>>

Recordable == Installed \union Foreign
Requested == Recordable \union Workshop
Idle == [pc |-> "idle", map |-> "none"]
Reasons == {"crossed", "unrecorded", "lost", "game", "foreign"}

TypeOK ==
    /\ env \in Recordable
    /\ map \in Installed \union Workshop \union {"none"}
    /\ coming \in Requested \union {"none"}
    /\ client \in [Clients -> [pc : {"idle", "fire", "record", "reload"}, map : Requested \union {"none"}]]
    /\ sent \in Recordable
    /\ apart \subseteq Reasons

\* EnsureMapEnv wrote the default map before the first start.
Init ==
    /\ env = DefaultMap
    /\ map = "none"
    /\ coming = "none"
    /\ client = [c \in Clients |-> Idle]
    /\ asked = 0
    /\ sent = DefaultMap
    /\ apart = {}

At(c, pc) == client[c].pc = pc
Return(c) == client' = [client EXCEPT ![c] = Idle]
Quiet == \A c \in Clients : At(c, "idle")
Alone(c) == \A d \in Clients \ {c} : At(d, "idle")
Crossing(c) == IF Alone(c) THEN {} ELSE {"crossed"}

\* ChangeMap accepts installed maps only, ChangeMapForce any name.
AskMap(c, m, force) ==
    /\ asked < MaxChanges /\ At(c, "idle")
    /\ m \in Installed \/ force
    /\ asked' = asked + 1
    /\ client' = [client EXCEPT ![c] = [pc |-> "fire", map |-> m]]
    /\ apart' = apart \union Crossing(c) \union (IF m \in Foreign THEN {"foreign"} ELSE {})
    /\ UNCHANGED <<env, map, coming, sent>>

\* rconFire: the game has the command, or a game that hangs up loses it and
\* it counts as sent; a game that is down refuses.
Sent(m) == /\ map # "none"
           /\ \/ coming' = m /\ apart' = apart
              \/ coming' = coming /\ apart' = apart \union {"lost"}

Fire(c) ==
    /\ At(c, "fire") /\ Sent(client[c].map)
    /\ client' = [client EXCEPT ![c].pc = "record"]
    /\ sent' = IF client[c].map \in Workshop THEN sent ELSE client[c].map
    /\ UNCHANGED <<env, map, asked>>

\* mutant: a refused command is recorded all the same
FireFailsUnnoticed(c) ==
    /\ At(c, "fire") /\ map = "none"
    /\ client' = [client EXCEPT ![c].pc = "record"]
    /\ UNCHANGED <<env, map, coming, asked, sent, apart>>

FireFails(c) ==
    /\ At(c, "fire") /\ map = "none"
    /\ Return(c)
    /\ UNCHANGED <<env, map, coming, asked, sent, apart>>

\* WriteMapEnv; a workshop id is not recorded, and the answer says so, as it
\* does when the write fails.
Record(c) ==
    /\ At(c, "record")
    /\ \/ client[c].map \notin Workshop /\ env' = client[c].map /\ apart' = apart
       \/ env' = env /\ apart' = apart \union {"unrecorded"}
    /\ Return(c)
    /\ UNCHANGED <<map, coming, asked, sent>>

\* SetPassword asks which map is played ...
AskReload(c) ==
    /\ asked < MaxChanges /\ At(c, "idle") /\ map \notin {"none"} \union Workshop
    /\ asked' = asked + 1
    /\ client' = [client EXCEPT ![c] = [pc |-> "reload", map |-> map]]
    /\ apart' = apart \union Crossing(c) \union (IF coming = "none" THEN {} ELSE {"crossed"})
    /\ UNCHANGED <<env, map, coming, sent>>

\* ... and changes to that one.
Reload(c) ==
    /\ At(c, "reload") /\ Sent(client[c].map)
    /\ Return(c)
    /\ UNCHANGED <<env, map, asked, sent>>

ReloadFails(c) ==
    /\ At(c, "reload") /\ map = "none"
    /\ Return(c)
    /\ UNCHANGED <<env, map, coming, asked, sent, apart>>

------------------------------------------------------------------------------
\* The game refuses a map it does not have.
MapLoads ==
    /\ coming # "none"
    /\ map' = IF coming \in Foreign THEN map ELSE coming
    /\ coming' = "none"
    /\ UNCHANGED <<env, client, asked, sent, apart>>

\* By itself it plays the next map of its group.
Rotates ==
    /\ map # "none" /\ coming = "none"
    /\ \E m \in Installed \ {map} : map' = m
    /\ apart' = apart \union {"game"}
    /\ UNCHANGED <<env, coming, client, asked, sent>>

\* The unit starts it with +map, and it comes up with a map it has.
Starts ==
    /\ map = "none"
    /\ map' = IF env \in Installed THEN env ELSE DefaultMap
    /\ coming' = "none"
    /\ apart' = IF env \in Installed /\ Quiet
                THEN apart \ {"lost", "game"} ELSE apart
    /\ UNCHANGED <<env, client, asked, sent>>

\* A stop takes a change that is not carried out with it, and a start may
\* come before the record.
Stops ==
    /\ map # "none"
    /\ map' = "none" /\ coming' = "none"
    /\ apart' = IF coming = "none" /\ Quiet THEN apart ELSE apart \union {"lost"}
    /\ UNCHANGED <<env, client, asked, sent>>

Next ==
    \/ \E c \in Clients :
        \/ \E m \in Requested, force \in BOOLEAN : AskMap(c, m, force)
        \/ Fire(c) \/ FireFails(c) \/ Record(c)
        \/ AskReload(c) \/ Reload(c) \/ ReloadFails(c)
    \/ MapLoads \/ Rotates \/ Starts \/ Stops

Spec == Init /\ [][Next]_vars

------------------------------------------------------------------------------
(***************************************************************************)
(* Property.                                                               *)
(***************************************************************************)
\* A map change outlives the session it was made in: once the requests are
\* done, the next start plays the last map that was sent, and the game that
\* runs plays it now, whatever passwords were set: unless requests
\* overlapped, the answer said that the map is not recorded, the command was
\* lost or a stop came before its record, or the game has moved on by itself.  A forced name that the game
\* does not have is recorded and not played.
MapSurvivesRestart ==
    /\ Quiet /\ apart \intersect {"crossed", "unrecorded"} = {} => env = sent
    /\ Quiet /\ apart = {} /\ map # "none" /\ coming = "none" => map = env

==============================================================================
