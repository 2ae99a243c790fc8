------------------------------- MODULE Loadout -------------------------------
(***************************************************************************)
(* A player's loadout: the panel validates the form, the agent stores it   *)
(* in its meta table and then writes it, statement by statement, into the  *)
(* tables WeaponPaints reads.  Requests are not serialised and the         *)
(* database may fail between two statements.                               *)
(* One player.  The item names and paint kits are members of small sets;   *)
(* wear, seed and the wording of the answers are left out.                 *)
(***************************************************************************)
EXTENDS Naturals, Sequences, Functions

CONSTANTS
    Clients,    \* requests: one player in several tabs
    Forms,      \* what the pages may post: see Form
    Catalog,    \* the <<weapon, paint>> pairs Cosmetics lists
    Sync,       \* wp_dsn is configured
    MaxSaves    \* bound: saves begun

VARIABLES
    meta,       \* the agent's meta table: the stored Loadout
    wp,         \* WeaponPaints' tables: a function from rows to their values
    client,     \* each request: its loadout, and the statements that are left
    saves,      \* bound: saves begun
    applied     \* history: the save that ended last was alone and answered ok
vars == <<meta, wp, client, saves, applied>>

Sides == {"t", "ct"}

\* A form and a Loadout: on each side a knife, gloves <<defindex, paint>>
\* or <<>>, an agent, and the skins by weapon, "" for an explicit vanilla.  A page
\* that got no catalog has no skin field.
Vanilla == ""
NoSkins == [w \in {} |-> Vanilla]
ZeroLoadout == [knife |-> [s \in Sides |-> ""], gloves |-> [s \in Sides |-> <<>>],
                agent |-> [s \in Sides |-> ""], skins |-> [s \in Sides |-> NoSkins]]
NoRows == [r \in {} |-> ""]

\* "guns are 1-64, gloves 5030+, so the rows never collide".
FormsAssumption ==
    \A form \in Forms :
        /\ DOMAIN form = {"knife", "gloves", "agent", "skins"}
        /\ \A s \in Sides :
             form.gloves[s] # <<>> => form.gloves[s][1] \notin DOMAIN form.skins[s]

At(pc, lo) == [pc |-> pc, lo |-> lo, todo |-> {}, key |-> <<>>, alone |-> TRUE]
Waiting == At("idle", ZeroLoadout)

Init ==
    /\ meta = ZeroLoadout
    /\ wp = NoRows
    /\ client = [c \in Clients |-> Waiting]
    /\ saves = 0
    /\ applied = FALSE

(***************************************************************************)
(* The panel                                                               *)
(***************************************************************************)

\* validSkins asks for the catalog once a side: without it no pick survives,
\* while an explicit "no skin" does.
validSkins(skins, listed) ==
    Restrict(skins, {w \in DOMAIN skins :
                       skins[w] = Vanilla \/ (listed /\ <<w, skins[w]>> \in Catalog)})

handleLoadoutPost(c) ==
    /\ client[c].pc = "idle" /\ saves < MaxSaves
    /\ \E form \in Forms, listed \in [Sides -> BOOLEAN] :
         client' = [client EXCEPT ![c] = At("put",
             [form EXCEPT !.skins = [s \in Sides |-> validSkins(form.skins[s], listed[s])]])]
    /\ saves' = saves + 1
    /\ UNCHANGED <<meta, wp, applied>>

(***************************************************************************)
(* The agent: the statements of syncWP                                     *)
(***************************************************************************)

Insert(row, value) == [op |-> "insert", row |-> row, value |-> value]
Delete(row) == [op |-> "delete", row |-> row, value |-> ""]
Bad == [op |-> "bad", row |-> <<"none">>, value |-> ""]

\* A map is walked in any order; the statements of one key stay together.  Those
\* of a key are one task, of the stage in which syncWP comes to its map.
Task(stage, key) == [stage |-> stage, key |-> key]

KnifeTasks(lo) ==
    {Task(1, <<Insert(<<"knife", s>>, lo.knife[s])>>) :
       s \in {s \in Sides : lo.knife[s] \notin {"", "default"}}}

\* The paint lives in the skins table, under the glove's defindex.
GloveKey(lo, s) ==
    LET gloves == Insert(<<"gloves", s>>, lo.gloves[s][1])
        paint == Insert(<<"skin", s, lo.gloves[s][1]>>, lo.gloves[s][2])
    IN  IF Len(lo.gloves[s]) # 2 THEN <<Bad>>
        ELSE IF lo.gloves[s][2] = "0" THEN <<gloves>> ELSE <<gloves, paint>>
GloveTasks(lo) == {Task(2, GloveKey(lo, s)) : s \in {s \in Sides : lo.gloves[s] # <<>>}}

AgentTasks(lo) ==
    IF \E s \in Sides : lo.agent[s] # "" THEN {Task(3, <<Insert(<<"agents">>, lo.agent)>>)} ELSE {}

\* Mutant: a skin that was cleared is skipped.
SkinTasksKeeping(lo, stage, s) ==
    {Task(stage, <<Insert(<<"skin", s, w>>, lo.skins[s][w])>>) :
       w \in {w \in DOMAIN lo.skins[s] : lo.skins[s][w] # Vanilla}}

SkinStatement(lo, s, w) ==
    IF lo.skins[s][w] = Vanilla THEN Delete(<<"skin", s, w>>)
    ELSE Insert(<<"skin", s, w>>, lo.skins[s][w])
SkinTasks(lo, stage, s) ==
    {Task(stage, <<SkinStatement(lo, s, w)>>) : w \in DOMAIN lo.skins[s]}

Tasks(lo) ==
    KnifeTasks(lo) \union GloveTasks(lo) \union AgentTasks(lo)
        \union SkinTasks(lo, 4, "t") \union SkinTasks(lo, 5, "ct")

\* The request cl with the statements of the key that comes next.
Turned(cl) ==
    IF cl.key # <<>> THEN {cl}
    ELSE {[cl EXCEPT !.key = task.key, !.todo = @ \ {task}] :
            task \in {task \in cl.todo : \A other \in cl.todo : task.stage <= other.stage}}

Exec(st) == IF st.op = "insert" THEN [r \in DOMAIN wp \union {st.row} |->
                                        IF r = st.row THEN st.value ELSE wp[r]]
            ELSE Restrict(wp, DOMAIN wp \ {st.row})

(***************************************************************************)
(* The agent: Set                                                          *)
(***************************************************************************)

Syncing(d) == client[d].pc = "sync"

\* SetMeta, then the synchronisation begins if there is a database.
SetMeta(c) ==
    /\ client[c].pc = "put"
    /\ meta' = client[c].lo
    /\ client' = [d \in Clients |->
         IF d = c THEN [client[c] EXCEPT !.pc = "sync",
                                         !.todo = IF Sync THEN Tasks(client[c].lo) ELSE {},
                                         !.alone = \A e \in Clients : ~Syncing(e)]
         ELSE [client[d] EXCEPT !.alone = @ /\ ~Syncing(d)]]
    /\ applied' = FALSE
    /\ UNCHANGED <<wp, saves>>

SetMetaFails(c) ==
    /\ client[c].pc = "put"
    /\ client' = [client EXCEPT ![c] = Waiting]
    /\ UNCHANGED <<meta, wp, saves, applied>>

Execute(c) ==
    /\ Syncing(c)
    /\ \E cl \in Turned(client[c]) :
         /\ Head(cl.key) # Bad
         /\ wp' = Exec(Head(cl.key))
         /\ client' = [client EXCEPT ![c] = [cl EXCEPT !.key = Tail(@)]]
    /\ UNCHANGED <<meta, saves, applied>>

\* The statement is refused, the database is gone, or the glove is malformed:
\* the rest is not run and the save is answered with a warning.
ExecuteFails(c) ==
    /\ Syncing(c) /\ Turned(client[c]) # {}
    /\ client' = [client EXCEPT ![c] = Waiting]
    /\ UNCHANGED <<meta, wp, saves, applied>>

Saved(c) ==
    /\ Syncing(c) /\ Turned(client[c]) = {}
    /\ client' = [client EXCEPT ![c] = Waiting]
    /\ applied' = (Sync /\ client[c].alone)
    /\ UNCHANGED <<meta, wp, saves>>

\* Requests that were under way are not resumed.
AgentRestarts ==
    /\ \E c \in Clients : client[c].pc # "idle"
    /\ client' = [c \in Clients |-> Waiting]
    /\ UNCHANGED <<meta, wp, saves, applied>>

Next ==
    \/ AgentRestarts
    \/ \E c \in Clients :
         \/ handleLoadoutPost(c) \/ SetMeta(c) \/ SetMetaFails(c)
         \/ Execute(c) \/ ExecuteFails(c) \/ Saved(c)

Spec == Init /\ [][Next]_vars

(***************************************************************************)
(* Properties                                                              *)
(***************************************************************************)

Holds(row, value) == row \in DOMAIN wp /\ wp[row] = value

\* "Loadout saved -- it applies when you (re)connect": when the last save was
\* answered so and ran alone, whatever was saved, refused, half written or
\* crossed by a restart before it, every pick of the stored loadout is in the
\* game's tables and no skin that it clears is left there (Set, syncWP and
\* syncWPSkins).  A default knife, gloves or pair of agents is no pick: its
\* old row stays.
SavedApplies ==
    applied =>
      \A s \in Sides :
        /\ meta.knife[s] \notin {"", "default"} => Holds(<<"knife", s>>, meta.knife[s])
        /\ meta.gloves[s] # <<>> =>
             /\ Holds(<<"gloves", s>>, meta.gloves[s][1])
             /\ meta.gloves[s][2] # "0" =>
                  Holds(<<"skin", s, meta.gloves[s][1]>>, meta.gloves[s][2])
        /\ meta.agent[s] # "" => Holds(<<"agents">>, meta.agent)
        /\ \A w \in DOMAIN meta.skins[s] :
             IF meta.skins[s][w] = Vanilla THEN <<"skin", s, w>> \notin DOMAIN wp
             ELSE Holds(<<"skin", s, w>>, meta.skins[s][w])

==============================================================================
