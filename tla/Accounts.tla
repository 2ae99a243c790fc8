------------------------------ MODULE Accounts ------------------------------
(***************************************************************************)
(* The panel's accounts and their roles (the user handlers in              *)
(* internal/panel/pages.go, the setup in server.go and the users table of  *)
(* store.go).  A request is admitted by the role its user has when it      *)
(* arrives; what it then reads and writes are statements of their own.     *)
(***************************************************************************)
EXTENDS FiniteSets

CONSTANTS
    Users,      \* account ids, used once each
    Requests,   \* requests that can be in progress at once
    Ops         \* what administrators do to others: "role", "delete"

OpsAssumption == Ops \subseteq {"role", "delete"}

VARIABLES
    role,       \* an id's role; "none" before it exists, "gone" after
    token,      \* is the setup token on disk?
    req         \* the requests; "beside": history, not in the code: was another
                \* role change or deletion under way while this one was?

vars == <<role, token, req>>

Roles == {"admin", "player"}
Steps == {"idle", "read", "count", "update", "delete", "insert", "consume"}
NoRequest == [pc |-> "idle", op |-> "none", target |-> "none", role |-> "none",
         beside |-> FALSE]

TypeOK ==
    /\ role \in [Users -> Roles \union {"none", "gone"}]
    /\ token \in BOOLEAN
    /\ req \in [Requests -> [pc : Steps, op : {"none", "role", "delete", "create", "setup"},
                             target : Users \union {"none"}, role : Roles \union {"none"},
                             beside : BOOLEAN]]

Exists(u) == role[u] \in Roles
Admins == {u \in Users : role[u] = "admin"}

\* A fresh install: no account, and a token for the first.
Init ==
    /\ role = [u \in Users |-> "none"]
    /\ token = TRUE
    /\ req = [r \in Requests |-> NoRequest]

At(r, op, pc) == req[r].op = op /\ req[r].pc = pc
Target(r) == req[r].target
OnOthers(r) == req[r].op \in {"role", "delete"}
Begin(r, op, pc, target, to) ==
    LET overlaps == op \in Ops /\ \E q \in Requests : OnOthers(q) IN
    /\ req[r] = NoRequest
    /\ req' = [q \in Requests |->
                 IF q = r THEN [pc |-> pc, op |-> op, target |-> target, role |-> to,
                                beside |-> overlaps]
                 ELSE [req[q] EXCEPT !.beside = @ \/ (overlaps /\ OnOthers(q))]]
Goto(r, pc) == req' = [req EXCEPT ![r].pc = pc]
Return(r) == req' = [req EXCEPT ![r] = NoRequest]

------------------------------------------------------------------------------
(***************************************************************************)
(* The first administrator.                                                *)
(***************************************************************************)

\* Without any account, and with the token.
Setup(r, u) ==
    /\ \A v \in Users : ~Exists(v)
    /\ token
    /\ Begin(r, "setup", "insert", u, "admin")
    /\ UNCHANGED <<role, token>>

\* CreateUser, for the setup and for an administrator; an id is used once.
Insert(r) ==
    /\ At(r, "setup", "insert") \/ At(r, "create", "insert")
    /\ role[Target(r)] = "none"
    /\ role' = [role EXCEPT ![Target(r)] = req[r].role]
    /\ IF req[r].op = "setup" THEN Goto(r, "consume") ELSE Return(r)
    /\ UNCHANGED token

\* The name is taken.
InsertFails(r) ==
    /\ At(r, "setup", "insert") \/ At(r, "create", "insert")
    /\ role[Target(r)] # "none"
    /\ Return(r)
    /\ UNCHANGED <<role, token>>

ConsumeSetupToken(r) ==
    /\ At(r, "setup", "consume")
    /\ token' = FALSE
    /\ Return(r)
    /\ UNCHANGED role

------------------------------------------------------------------------------
(***************************************************************************)
(* What administrators do with others' accounts.                           *)
(***************************************************************************)

\* A role that is not one of the two makes a player.
Create(r, u, to) ==
    /\ Admins # {}
    /\ role[u] = "none"
    /\ Begin(r, "create", "insert", u, IF to \in Roles THEN to ELSE "player")
    /\ UNCHANGED <<role, token>>

\* mutant: also one's own
OnAny(r, actor, target, op) ==
    /\ op \in Ops
    /\ actor \in Admins
    /\ Begin(r, op, "read", target, "none")
    /\ UNCHANGED <<role, token>>

\* Nobody deletes or changes the own account.
On(r, actor, target, op) ==
    /\ op \in Ops
    /\ actor \in Admins
    /\ target # actor
    /\ Begin(r, op, "read", target, "none")
    /\ UNCHANGED <<role, token>>

\* GetUserByID: the role to change to is the other one.
ReadTarget(r) ==
    /\ req[r].pc = "read"
    /\ Exists(Target(r))
    /\ req' = [req EXCEPT ![r].role = IF role[Target(r)] = "player" THEN "admin" ELSE "player",
                          ![r].pc = IF req[r].op = "delete" THEN "delete"
                                    ELSE IF role[Target(r)] = "player" THEN "update" ELSE "count"]
    /\ UNCHANGED <<role, token>>

NotFound(r) ==
    /\ req[r].pc = "read"
    /\ ~Exists(Target(r))
    /\ Return(r)
    /\ UNCHANGED <<role, token>>

\* SetUserRole refuses to demote the last administrator: it counts the others
\* first.
CountOthers(r) ==
    /\ req[r].pc = "count"
    /\ IF Admins \ {Target(r)} = {} THEN Return(r) ELSE Goto(r, "update")
    /\ UNCHANGED <<role, token>>

\* The row may be gone by now.
Update(r) ==
    /\ req[r].pc = "update"
    /\ role' = [role EXCEPT ![Target(r)] = IF Exists(Target(r)) THEN req[r].role ELSE @]
    /\ Return(r)
    /\ UNCHANGED token

Delete(r) ==
    /\ req[r].pc = "delete"
    /\ role' = [role EXCEPT ![Target(r)] = IF Exists(Target(r)) THEN "gone" ELSE @]
    /\ Return(r)
    /\ UNCHANGED token

Handle(r) ==
    \/ Insert(r) \/ InsertFails(r) \/ ConsumeSetupToken(r)
    \/ ReadTarget(r) \/ NotFound(r) \/ CountOthers(r) \/ Update(r) \/ Delete(r)

Ask(r) ==
    \/ \E u \in Users : Setup(r, u)
    \/ \E u \in Users, to \in Roles \union {"other"} : Create(r, u, to)
    \/ \E actor, target \in Users, op \in Ops : On(r, actor, target, op)

Next == \E r \in Requests : Handle(r) \/ Ask(r)

Spec == Init /\ [][Next]_vars

------------------------------------------------------------------------------
(***************************************************************************)
(* Properties.                                                             *)
(***************************************************************************)

\* The last administrator is neither demoted nor deleted by a request that was
\* the only one on other accounts: "Demoting the last admin would lock everyone
\* out" (SetUserRole), and nobody acts on the own account.  The exception is
\* real: two administrators who demote or delete each other at once both pass
\* their checks, and leave none.
AdminRemains ==
    [][Admins # {} /\ Admins' = {} => \E r \in Requests : req[r].beside /\ req'[r] # req[r]]_vars

\* A deleted account is not brought back by a role change that was under way.
GoneStaysGone == [][\A u \in Users : role[u] = "gone" => role'[u] = "gone"]_vars

\* Changes of accounts leave an administrator, and bring nobody back.
AccountsHold == AdminRemains /\ GoneStaysGone

==============================================================================
