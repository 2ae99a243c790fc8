------------------------------ MODULE Sessions ------------------------------
(***************************************************************************)
(* A panel session (internal/panel/store.go and the requireRole middleware *)
(* in server.go): a row with two clocks, the browser's cookie, and the map *)
(* in memory by which GetSessionUser tells the middleware that it has just *)
(* refreshed the row, so that the same response refreshes the cookie.      *)
(*                                                                         *)
(* The model follows one session from its login.  Requests of the same     *)
(* browser (a page and its polls) run side by side; each is short against  *)
(* a tick of the clock.                                                    *)
(***************************************************************************)
EXTENDS Naturals

CONSTANTS
    Requests,   \* requests that can be in progress at once
    Idle,       \* SessionIdle, in ticks
    Touch,      \* SessionTouch
    MaxAge,     \* SessionMaxAge
    Horizon     \* bound: the clock stops here

ASSUME ClocksAssumption ==
    /\ Idle \in Nat /\ Touch \in Nat /\ MaxAge \in Nat /\ Horizon \in Nat
    /\ 0 < Touch /\ Touch < Idle /\ Idle < MaxAge

VARIABLES
    now,        \* the wall clock; the login is at 0
    row,        \* is the session in the table?
    seen,       \* its last_seen
    cookie,     \* when the browser drops its cookie; 0 without one
    touched,    \* is the session in the touched map?
    req,        \* where a request is
    admitted,   \* history: when a request was last let in
    out,        \* history: was the session logged out?
    cut         \* history: did a restart end a request half way?

vars == <<now, row, seen, cookie, touched, req, admitted, out, cut>>

Expires == MaxAge
Steps == {"none", "refresh", "mark", "check", "unmark"}

TypeOK ==
    /\ now \in 0 .. Horizon
    /\ row \in BOOLEAN
    /\ seen \in 0 .. now
    /\ cookie \in 0 .. now + Idle
    /\ touched \in BOOLEAN
    /\ req \in [Requests -> Steps]
    /\ admitted \in 0 .. now
    /\ out \in BOOLEAN
    /\ cut \in BOOLEAN

\* Logged in.
Init ==
    /\ now = 0
    /\ row = TRUE
    /\ seen = 0
    /\ cookie = Idle
    /\ touched = FALSE
    /\ req = [r \in Requests |-> "none"]
    /\ admitted = 0
    /\ out = FALSE
    /\ cut = FALSE

HasCookie == now < cookie
Valid == row /\ now < Expires /\ now < seen + Idle
Due == now - seen >= Touch
Goto(r, pc) == req' = [req EXCEPT ![r] = pc]

Quiet == \A r \in Requests : req[r] = "none"

Tick ==
    /\ Quiet
    /\ now < Horizon
    /\ now' = now + 1
    /\ UNCHANGED <<row, seen, cookie, touched, req, admitted, out, cut>>

------------------------------------------------------------------------------
(***************************************************************************)
(* requireRole.                                                            *)
(***************************************************************************)

\* mutant: the absolute cap is not looked at
AdmitUncapped(r) ==
    /\ req[r] = "none"
    /\ HasCookie /\ row /\ now < seen + Idle
    /\ admitted' = now
    /\ Goto(r, IF Due THEN "refresh" ELSE "check")
    /\ UNCHANGED <<now, row, seen, cookie, touched, out, cut>>

\* GetSessionUser finds the row valid, and old enough to be refreshed or not.
Admit(r) ==
    /\ req[r] = "none"
    /\ HasCookie /\ Valid
    /\ admitted' = now
    /\ Goto(r, IF Due THEN "refresh" ELSE "check")
    /\ UNCHANGED <<now, row, seen, cookie, touched, out, cut>>

\* Or not valid: the response drops the cookie.
Turn(r) ==
    /\ req[r] = "none"
    /\ HasCookie /\ ~Valid
    /\ cookie' = 0
    /\ UNCHANGED <<now, row, seen, touched, req, admitted, out, cut>>

\* The UPDATE finds no row when a logout came first.
Refresh(r) ==
    /\ req[r] = "refresh"
    /\ seen' = IF row THEN now ELSE seen
    /\ Goto(r, "mark")
    /\ UNCHANGED <<now, row, cookie, touched, admitted, out, cut>>

\* mutant: the middleware is not told
MarkNothing(r) ==
    /\ req[r] = "mark"
    /\ Goto(r, "check")
    /\ UNCHANGED <<now, row, seen, cookie, touched, admitted, out, cut>>

Mark(r) ==
    /\ req[r] = "mark"
    /\ touched' = TRUE
    /\ Goto(r, "check")
    /\ UNCHANGED <<now, row, seen, cookie, admitted, out, cut>>

\* SessionTouched reads the map ...
Check(r) ==
    /\ req[r] = "check"
    /\ Goto(r, IF touched THEN "unmark" ELSE "none")
    /\ UNCHANGED <<now, row, seen, cookie, touched, admitted, out, cut>>

\* ... and deletes the entry; then the cookie is issued again.
Unmark(r) ==
    /\ req[r] = "unmark"
    /\ touched' = FALSE
    /\ cookie' = now + Idle
    /\ Goto(r, "none")
    /\ UNCHANGED <<now, row, seen, admitted, out, cut>>

------------------------------------------------------------------------------
\* handleLogout.
Logout ==
    /\ HasCookie
    /\ row' = FALSE
    /\ cookie' = 0
    /\ out' = TRUE
    /\ UNCHANGED <<now, seen, touched, req, admitted, cut>>

\* DeleteExpiredSessions, at another login or a restart of the panel.
Sweep ==
    /\ row
    /\ now >= Expires \/ now >= seen + Idle
    /\ row' = FALSE
    /\ UNCHANGED <<now, seen, cookie, touched, req, admitted, out, cut>>

\* A restart of the panel also empties the map and ends its requests.
Restart ==
    /\ touched' = FALSE
    /\ req' = [r \in Requests |-> "none"]
    /\ row' = (row /\ now < Expires /\ now < seen + Idle)
    /\ cut' = (cut \/ ~Quiet)
    /\ UNCHANGED <<now, seen, cookie, admitted, out>>

Handle(r) ==
    Admit(r) \/ Turn(r) \/ Refresh(r) \/ Mark(r) \/ Check(r) \/ Unmark(r)

Next == Tick \/ Logout \/ Sweep \/ Restart \/ \E r \in Requests : Handle(r)

Spec == Init /\ [][Next]_vars

------------------------------------------------------------------------------
(***************************************************************************)
(* Properties.                                                             *)
(***************************************************************************)

\* No request is let in that comes a whole idle window after the last one, or
\* after the cap ("go this long without a request and the session dies").
DiesWhenIdle ==
    [][admitted' # admitted => admitted' - admitted < Idle /\ admitted' < Expires]_vars

\* A session that has ended does not come back, whatever requests were in
\* progress when it was logged out or swept.
EndedStaysEnded == [][~row => ~row']_vars

\* "An admin working all day is never interrupted": whoever sent a request
\* within the idle window, less the refresh period, and has not logged out,
\* is still signed in, in the table and in the browser, unless the panel was
\* stopped between a refresh of the one and a refresh of the other.
StaysSignedIn ==
    Quiet /\ ~out /\ ~cut /\ now - admitted < Idle - Touch /\ now < Expires => Valid /\ HasCookie

\* The touched map has no lock, so no request may use it while another one
\* writes it.
MapIsGuarded ==
    \A r, q \in Requests :
      r # q /\ req[r] \in {"mark", "unmark"} => req[q] \notin {"mark", "check", "unmark"}

\* A session ends when its clocks say so, and for good.
SessionEnds == DiesWhenIdle /\ EndedStaysEnded

==============================================================================
