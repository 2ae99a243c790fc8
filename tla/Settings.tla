------------------------------- MODULE Settings -------------------------------
(***************************************************************************)
(* The game's settings: server.cfg on disk and the cvars of the server     *)
(* that runs.                                                              *)
(*                                                                         *)
(* cs2a owns a block of server.cfg between two marker lines and leaves the *)
(* rest to the operator (internal/cs2/cfg.go).  Three requests rewrite the *)
(* block: the panel's settings page, the server password and the repair of *)
(* RCON.  Each reads the block, works out the new rows, reads the file     *)
(* again, writes it, and then pushes the rows to the running game, best    *)
(* effort (internal/agent/server.go).  Nothing serialises the requests,    *)
(* and the operator edits the file by hand.                                *)
(***************************************************************************)
EXTENDS Naturals, Sequences, SequencesExt, FiniteSetsExt

CONSTANTS
    Clients,      \* requests that can be in progress at once
    Values,       \* what a cvar can be set to; "0" is one of them
    InitialFiles, \* server.cfg as the operator has it at the start
    Ops,          \* what clients ask: "save", "password", "repair"
    MaxRequests,  \* bound on the requests of a behaviour
    MaxEdits,     \* bound on the operator's edits
    MaxBoots,     \* bound on the boots of the game
    MaxLines      \* bound on the lines of server.cfg

VARIABLES
    file,     \* server.cfg, a sequence of lines
    up,       \* does the game run?
    live,     \* its cvars
    enforced, \* the password it asks for, taken from sv_password at map load
    changing, \* is a changelevel on its way?
    bots,     \* are bots on the server?
    client,   \* the requests
    asked, edits, boots, \* counters that the bounds cap
    promise,  \* history: the password that the last answer called locked
    drift     \* history: has something come between the file and the game?

game == <<up, live, enforced, changing, bots>>
counters == <<asked, edits, boots>>
vars == <<file, game, client, counters, promise, drift>>

Password == "sv_password"
Quota == "bot_quota"
Secret == "rcon_password"
Names == {Password, Quota, Secret}

\* The cvars of the settings page, and the standard value of its rows.
Curated == {Quota}
Default == "0"

\* The agent's RCON password is the value "1" here.
AgentSecret == "1"

------------------------------------------------------------------------------
(***************************************************************************)
(* The managed block, internal/cs2/cfg.go.  A row without a value is Bare, *)
(* a query that assigns nothing.                                           *)
(***************************************************************************)
Begin == [is |-> "begin", name |-> "", val |-> ""]
End == [is |-> "end", name |-> "", val |-> ""]
Bare == "bare"
Row(n, v) == [is |-> "row", name |-> n, val |-> v]
Rows == [is : {"row"}, name : Names, val : Values \union {Bare}]
Lines == {Begin, End} \union Rows
IsRow(line) == line.is = "row"
Assigns(line) == IsRow(line) /\ line.val # Bare

\* "0" is the standard value, the agent's password is one that can be set, and no
\* value stands for a row without one.
ValuesAssumption ==
    /\ {Default, AgentSecret} \subseteq Values /\ Bare \notin Values
    /\ InitialFiles \subseteq Seq(Lines)
ClientsAssumption == "operator" \notin Clients

\* The elements of a sequence that are in S, in their order.
Only(seq, S) ==
    LET upTo[i \in 0..Len(seq)] ==
            IF i = 0 THEN <<>>
            ELSE IF seq[i] \in S THEN Append(upTo[i - 1], seq[i]) ELSE upTo[i - 1]
    IN  upTo[Len(seq)]

\* The first end marker with a begin marker before it, and the last of those.
Closings(f) == {e \in DOMAIN f : f[e] = End /\ \E b \in 1..e : f[b] = Begin}
HasBlock(f) == Closings(f) # {}
BlockEnd(f) == Min(Closings(f))

BlockStart(f) == Max({b \in 1..BlockEnd(f) : f[b] = Begin})

Before(f) == IF HasBlock(f) THEN SubSeq(f, 1, BlockStart(f) - 1) ELSE f
After(f) == IF HasBlock(f) THEN SubSeq(f, BlockEnd(f) + 1, Len(f)) ELSE <<>>
Extract(f) == IF HasBlock(f)
              THEN Only(SubSeq(f, BlockStart(f), BlockEnd(f)), Rows)
              ELSE <<>>

\* mutant: a value in the place of a line that carried none
ApplyAssigning(f, rows) ==
    Before(f) \o <<Begin>> \o [i \in DOMAIN rows |->
        IF rows[i].val = Bare THEN Row(rows[i].name, "0") ELSE rows[i]]
    \o <<End>> \o After(f)

\* The first block is replaced; without one, it is appended.
ApplyManagedBlock(f, rows) == Before(f) \o <<Begin>> \o rows \o <<End>> \o After(f)

\* The engine executes the file from top to bottom.
LastOf(f, n) == LET is == {i \in DOMAIN f : Assigns(f[i]) /\ f[i].name = n}
                IN  IF is = {} THEN 0 ELSE Max(is)
Exec(f, cvars) == [n \in Names |-> IF LastOf(f, n) = 0 THEN cvars[n] ELSE f[LastOf(f, n)].val]
Unset == [n \in Names |-> "0"]

\* The cvars whose value the block decides: nothing after it sets them again.
Governed(f) == {n \in Names : /\ LastOf(Extract(f), n) # 0
                              /\ LastOf(After(f), n) = 0}

------------------------------------------------------------------------------
(***************************************************************************)
(* The rows a request writes.                                              *)
(***************************************************************************)
NotNamed(names) == {r \in Rows : r.name \notin names}
Sans(rows, n) == Only(rows, NotNamed({n}))

\* saveSettings: a field left blank keeps the value of the file, or takes the
\* standard one; every other row keeps its place.
Kept(rows, n) == IF LastOf(rows, n) = 0 THEN Default ELSE rows[LastOf(rows, n)].val
Resolved(rows, n, field) == IF field = "blank" THEN Kept(rows, n) ELSE field

Merged(rows, field) ==
    [i \in DOMAIN rows |-> IF rows[i].name \in Curated
                           THEN Row(rows[i].name, Resolved(rows, rows[i].name, field))
                           ELSE rows[i]]
    \o SetToSeq({Row(n, Resolved(rows, n, field)) :
                    n \in {m \in Curated : \A i \in DOMAIN rows : rows[i].name # m}})

\* kickBots, but for the quota mode
SwitchesBotsOff(rows) == LastOf(rows, Quota) # 0 /\ rows[LastOf(rows, Quota)].val = "0"

HasDuplicate(rows) == \E i, j \in DOMAIN rows : i < j /\ rows[i].name = rows[j].name

------------------------------------------------------------------------------
Idle == [pc |-> "idle", op |-> "none", rows |-> <<>>, content |-> <<>>, todo |-> <<>>,
         crossed |-> FALSE, blind |-> FALSE, late |-> FALSE]

TypeOK ==
    /\ file \in Seq(Lines)
    /\ live \in [Names -> Values] /\ enforced \in Values /\ promise \in Values \union {"none"}
    /\ {up, changing, bots, drift} \subseteq BOOLEAN
    /\ \A c \in Clients :
        client[c].pc \in {"idle", "put", "load", "write", "dial", "push", "kick", "reload", "restart"}

Init ==
    /\ file \in InitialFiles
    /\ up = TRUE
    /\ live = Exec(file, Unset)
    /\ enforced = live[Password]
    /\ changing = FALSE
    /\ bots = FALSE
    /\ client = [c \in Clients |-> Idle]
    /\ asked = 0 /\ edits = 0 /\ boots = 0
    /\ promise = "none"
    /\ drift = FALSE

At(c, pc) == client[c].pc = pc
Goto(c, pc) == client' = [client EXCEPT ![c].pc = pc]
Return(c) == client' = [client EXCEPT ![c] = Idle]
Pushing(c) == client[c].pc \in {"dial", "push", "kick"}

\* What a change of the file by others does to a request in progress.
CrossedBy(me) == [c \in Clients |->
    IF c = me \/ At(c, "idle") THEN client[c]
    ELSE [client[c] EXCEPT !.crossed = TRUE, !.late = client[c].late \/ At(c, "write")]]

Ask(c, op, pc, rows, blind) ==
    /\ op \in Ops /\ asked < MaxRequests /\ At(c, "idle")
    /\ asked' = asked + 1
    /\ client' = [client EXCEPT ![c] = [Idle EXCEPT !.pc = pc, !.op = op, !.rows = rows, !.blind = blind]]
    /\ UNCHANGED <<file, game, edits, boots, promise, drift>>

\* The settings page reads the rows and sends back all of them.
Save(c, field) == Ask(c, "save", "put", Merged(Extract(file), field), FALSE)

\* SetPassword reads them too, and takes a file that it cannot read for one
\* without rows.
SetPassword(c, val) ==
    \/ Ask(c, "password", "load", Sans(Extract(file), Password) \o <<Row(Password, val)>>, FALSE)
    \/ Ask(c, "password", "load", <<Row(Password, val)>>, TRUE)

\* RepairRCON, when the game refuses the agent or listens to nobody.
Reachable == up /\ live[Secret] = AgentSecret
RepairRCON(c) ==
    /\ ~Reachable
    /\ \/ Ask(c, "repair", "load", Sans(Extract(file), Secret) \o <<Row(Secret, AgentSecret)>>, FALSE)
       \/ Ask(c, "repair", "load", <<Row(Secret, AgentSecret)>>, TRUE)

\* handlePutSettings refuses a cvar that comes twice.
PutRefused(c) ==
    /\ At(c, "put") /\ HasDuplicate(client[c].rows)
    /\ Return(c)
    /\ UNCHANGED <<file, game, counters, promise, drift>>

\* ApplyManagedSettings: load ...
Load(c) ==
    /\ \/ At(c, "load")
       \/ At(c, "put") /\ ~HasDuplicate(client[c].rows)
    /\ client' = [client EXCEPT ![c].pc = "write", ![c].content = file]
    /\ UNCHANGED <<file, game, counters, promise, drift>>

\* ... and save.  Two requests that push at once settle the game in one order
\* and the file in the other.
Write(c) ==
    /\ At(c, "write")
    /\ file' = ApplyManagedBlock(client[c].content, client[c].rows)
    /\ client' = [CrossedBy(c) EXCEPT
            ![c].pc = "dial", ![c].content = <<>>, ![c].blind = FALSE, ![c].crossed = FALSE, ![c].late = FALSE]
    /\ promise' = "none"
    /\ drift' = (drift \/ \E d \in Clients : Pushing(d))
    /\ UNCHANGED <<game, counters>>

------------------------------------------------------------------------------
(***************************************************************************)
(* The live push.                                                          *)
(***************************************************************************)
Then(c) == CASE client[c].op = "save" -> "idle"
              [] client[c].op = "password" -> "reload"
              [] client[c].op = "repair" -> "restart"

Pushed(c) == client' = [client EXCEPT ![c] = IF Then(c) = "idle" THEN Idle
                                             ELSE [client[c] EXCEPT !.pc = Then(c), !.todo = <<>>]]

\* One connection for all rows that assign.
Dial(c) ==
    /\ At(c, "dial") /\ Reachable
    /\ client' = [client EXCEPT ![c].pc = "push",
                               ![c].todo = Only(client[c].rows, {r \in Rows : Assigns(r)})]
    /\ UNCHANGED <<file, game, counters, promise, drift>>

\* No connection, or it breaks: the rest is left out.  A game that is down
\* reads the file when it boots.
GiveUp(c) ==
    /\ Pushing(c)
    /\ Pushed(c)
    /\ drift' = (drift \/ up)
    /\ UNCHANGED <<file, game, counters, promise>>

PushOne(c) ==
    /\ At(c, "push") /\ client[c].todo # <<>>
    /\ LET r == Head(client[c].todo) IN live' = [live EXCEPT ![r.name] = r.val]
    /\ client' = [client EXCEPT ![c].todo = Tail(client[c].todo)]
    /\ UNCHANGED <<file, up, enforced, changing, bots, counters, promise, drift>>

PushEnds(c) ==
    /\ At(c, "push") /\ client[c].todo = <<>>
    /\ IF SwitchesBotsOff(client[c].rows) THEN Goto(c, "kick") ELSE Pushed(c)
    /\ UNCHANGED <<file, game, counters, promise, drift>>

KickBots(c) ==
    /\ At(c, "kick")
    /\ bots' = FALSE
    /\ Pushed(c)
    /\ UNCHANGED <<file, up, live, enforced, changing, counters, promise, drift>>

\* mutant: the cvar is thought to be enough
ReloadNothing(c) ==
    /\ At(c, "reload") /\ Reachable
    /\ promise' = IF client[c].crossed THEN "none" ELSE Last(client[c].rows).val
    /\ Return(c)
    /\ UNCHANGED <<file, game, counters, drift>>

\* SetPassword reloads the map that is played, and says that the door is
\* locked when the command was sent.
Reload(c) ==
    /\ At(c, "reload") /\ Reachable
    /\ changing' = TRUE
    /\ promise' = IF client[c].crossed THEN "none" ELSE Last(client[c].rows).val
    /\ Return(c)
    /\ UNCHANGED <<file, up, live, enforced, bots, counters, drift>>

\* The query or the command fails: not locked, says the answer.
NotReloaded(c) ==
    /\ At(c, "reload")
    /\ Return(c)
    /\ UNCHANGED <<file, game, counters, promise, drift>>

------------------------------------------------------------------------------
(***************************************************************************)
(* The game and the operator.                                              *)
(***************************************************************************)
\* A connection does not survive the game.
Dropped(c) == IF client[c].pc \in {"push", "kick"}
              THEN IF Then(c) = "idle" THEN Idle
                   ELSE [client[c] EXCEPT !.pc = Then(c), !.todo = <<>>]
              ELSE client[c]

Booted(cvars) ==
    /\ live' = Exec(file, cvars)
    /\ enforced' = Exec(file, cvars)[Password]
    /\ changing' = FALSE
    /\ bots' = FALSE

MapLoads ==
    /\ up /\ changing
    /\ Booted(live)
    /\ drift' = (drift /\ \E c \in Clients : Pushing(c))
    /\ UNCHANGED <<file, up, client, counters, promise>>

Boot ==
    /\ boots < MaxBoots /\ boots' = boots + 1
    /\ up' = TRUE
    /\ Booted(Unset)

GameStarts ==
    /\ ~up
    /\ Boot
    /\ drift' = (drift /\ \E c \in Clients : Pushing(c))
    /\ UNCHANGED <<file, client, asked, edits, promise>>

\* The end of RepairRCON.
Restart(c) ==
    /\ At(c, "restart")
    /\ Boot
    /\ client' = [d \in Clients |-> IF d = c THEN Idle ELSE Dropped(d)]
    /\ drift' = (drift /\ \E d \in Clients : Pushing(d))
    /\ UNCHANGED <<file, asked, edits, promise>>

GameStops ==
    /\ up
    /\ up' = FALSE /\ changing' = FALSE /\ bots' = FALSE
    /\ client' = [c \in Clients |-> Dropped(c)]
    /\ UNCHANGED <<file, live, enforced, counters, promise, drift>>

BotsJoin ==
    /\ up /\ live[Quota] # "0" /\ ~bots
    /\ bots' = TRUE
    /\ UNCHANGED <<file, up, live, enforced, changing, client, counters, promise, drift>>

\* The operator deletes a line, doubles the file as by a careless paste, adds
\* a query inside the block or a password below it.
Edits(f) ==
    {RemoveAt(f, i) : i \in DOMAIN f} \union {f \o f}
    \union {InsertAt(f, BlockEnd(f), Row(Quota, Bare)), Append(f, Row(Password, "1"))}

EditFile ==
    /\ edits < MaxEdits /\ edits' = edits + 1 /\ HasBlock(file)
    /\ \E f \in Edits(file) : Len(f) <= MaxLines /\ file' = f
    /\ client' = CrossedBy("operator")
    /\ promise' = "none"
    /\ drift' = TRUE
    /\ UNCHANGED <<game, asked, boots>>

------------------------------------------------------------------------------
Next ==
    \/ \E c \in Clients :
        \/ \E field \in Values \union {"blank"} : Save(c, field)
        \/ \E v \in Values : SetPassword(c, v)
        \/ RepairRCON(c) \/ PutRefused(c) \/ Load(c) \/ Write(c)
        \/ Dial(c) \/ GiveUp(c) \/ PushOne(c) \/ PushEnds(c) \/ KickBots(c)
        \/ Reload(c) \/ NotReloaded(c) \/ Restart(c)
    \/ MapLoads \/ GameStarts \/ GameStops \/ BotsJoin \/ EditFile

Spec == Init /\ [][Next]_vars

------------------------------------------------------------------------------
(***************************************************************************)
(* Properties.                                                             *)
(***************************************************************************)
Writes(c) == At(c, "write") /\ client'[c].pc = "dial"
Target(c) == CASE client[c].op = "save" -> Curated
               [] client[c].op = "password" -> {Password}
               [] client[c].op = "repair" -> {Secret}
Others(f, c) == Only(Extract(f), NotNamed(Target(c)))

\* A request leaves every line outside the block as the operator has it,
\* whatever markers were deleted or doubled, unless the file changed between
\* its read and its write.
OperatorTextKept == [][\A c \in Clients :
    Writes(c) /\ ~client[c].late => Before(file') = Before(file) /\ After(file') = After(file)]_vars

\* ... and it loses or alters no row of the block but the ones it is about,
\* unless another request or the operator changed the file since it read the
\* rows, or that read failed.
RowsKept == [][\A c \in Clients :
    Writes(c) /\ ~client[c].crossed /\ ~client[c].blind => Others(file', c) = Others(file, c)]_vars

FileIsKept == OperatorTextKept /\ RowsKept

\* The game runs what the block says and has no bots when it says none, once
\* the requests are done: but for an edit or a push that was cut short or
\* overlapped, until the next map load, and for cvars that text below sets.
LiveFollowsFile ==
    up /\ ~drift /\ ~changing /\ (\A c \in Clients : ~Pushing(c))
    => /\ \A n \in Governed(file) : live[n] = Exec(file, Unset)[n]
       /\ Quota \in Governed(file) /\ live[Quota] = "0" => ~bots

\* A password whose answer said that the door is locked is the one the game
\* asks for after the reload, unless the file was written by others meanwhile
\* or the block does not govern it.
PasswordLocks ==
    up /\ ~changing /\ promise # "none" /\ Password \in Governed(file) => enforced = promise

\* With a live game and no change under way, the game plays by the file: the
\* settings it holds, and the password that players need.
GameFollowsFile == LiveFollowsFile /\ PasswordLocks

==============================================================================
