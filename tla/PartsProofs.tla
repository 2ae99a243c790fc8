----------------------------- MODULE PartsProofs ------------------------------
(***************************************************************************)
(* Of the components that the parts run checks side by side, those whose   *)
(* promises can be proved for any number of requests, writers, pages and   *)
(* ticks: the panel's sessions and accounts, what it remembers of plugins, *)
(* a download, the writing of one file, the sign-in throttle, queries, and *)
(* loadouts.                                                               *)
(* Each has an inductive invariant of its own; in the composition a step   *)
(* is one of the component's or leaves it alone.                           *)
(***************************************************************************)
EXTENDS MCParts, Integers, Sequences, FiniteSetTheorems, TLAPS

------------------------------------------------------------------------------
(***************************************************************************)
(* Sessions.  The row and the cookie are refreshed by different steps of a *)
(* request; what is refreshed late is in some request's hands.             *)
(***************************************************************************)

\* A request in progress was let in at this tick, and the clocks allowed it.
LetInNow ==
    \A r \in Requests :
        req[r] # "none" => admitted = now /\ now < Expires /\ now < seen + Idle

\* The row goes with a logout or with its clocks.
RowEnds == row \/ out \/ now >= Expires \/ now >= seen + Idle

\* last_seen is never more than Touch behind, but for a refresh to come.
SeenFollows ==
    /\ seen <= admitted
    /\ \/ out \/ cut \/ admitted < seen + Touch
       \/ \E r \in Requests : req[r] = "refresh"

\* An entry of the touched map is on some request's way.
TouchedIsHandled == touched => \E r \in Requests : req[r] \in {"check", "unmark"}

\* The cookie outlives the row, or a request is about to issue it again.
CookieFollows ==
    \/ out \/ cut \/ now >= Expires \/ now >= seen + Idle
    \/ cookie >= seen + Idle
    \/ touched \/ \E r \in Requests : req[r] \in {"mark", "unmark"}

SessionInv ==
    TypeOK /\ LetInNow /\ RowEnds /\ SeenFollows /\ TouchedIsHandled /\ CookieFollows

------------------------------------------------------------------------------
(***************************************************************************)
(* Accounts.  Changes of other accounts that overlap are marked, all of    *)
(* them; one that is alone leaves its administrator in place.              *)
(***************************************************************************)

OverlapsAreMarked ==
    \A r, q \in Changes : r # q /\ A!OnOthers(r) /\ A!OnOthers(q) => change[r].beside

TheirSteps ==
    \A r \in Changes :
        change[r].pc \in {"read", "count", "update", "delete"} => A!OnOthers(r)

ActorRemains ==
    \A r \in Changes :
        A!OnOthers(r) /\ ~change[r].beside => \E u \in A!Admins : u # A!Target(r)

AccountInv == A!TypeOK /\ TheirSteps /\ OverlapsAreMarked /\ ActorRemains

------------------------------------------------------------------------------
(***************************************************************************)
(* CapsCache.  An answer that is out of date is about as old as the change *)
(* it missed; unless it is marked or about to be dropped, no job is at     *)
(* work, and it is what the agent would say now.                           *)
(***************************************************************************)

CacheType ==
    /\ plugin \in [installed : BOOLEAN, job : BOOLEAN]
    /\ cache \in [has : BOOLEAN, installed : BOOLEAN, age : 0 .. TTL + 1, late : BOOLEAN]
    /\ page \in [Renders -> [pc : {"idle", "asking", "answered"}, installed : BOOLEAN,
                             age : 0 .. Timeout, old : BOOLEAN]]
    /\ click \in {"none", "done"}
    /\ since \in 0 .. TTL + Timeout + 1

CacheIsAsOldAsTheChange ==
    /\ cache.has /\ cache.installed # plugin.installed => since <= cache.age + Timeout
    /\ \A r \in Renders :
         page[r].pc = "answered" /\ page[r].installed # plugin.installed => since <= page[r].age

ChangeIsMarked ==
    /\ cache.has /\ ~cache.late /\ click = "none"
         => ~plugin.job /\ cache.installed = plugin.installed
    /\ \A r \in Renders :
         page[r].pc # "idle" /\ ~page[r].old
           => ~plugin.job /\ (page[r].pc = "answered" => page[r].installed = plugin.installed)

CacheInv == CacheType /\ CacheIsAsOldAsTheChange /\ ChangeIsMarked

------------------------------------------------------------------------------
(***************************************************************************)
(* Fetch.  The file is the beginning of the body of this attempt, which    *)
(* nothing but a fault ends before its time.                               *)
(***************************************************************************)

FetchType ==
    /\ at \in {"ask", "copy", "wait", "ok", "failed"}
    /\ url \in 1 .. Urls /\ attempt \in 1 .. FetchAttempts
    /\ sent \in 0 .. size /\ size \in Nat
    /\ declared \in BOOLEAN /\ cancelled \in BOOLEAN
    /\ path \in {"fine", "breaks"}

FileIsThisBody == at \in {"copy", "ok"} => file = D!Body(D!This, sent)
OkIsComplete == at = "ok" => sent = size \/ ~declared
OnlyFaultsFail ==
    /\ at = "wait" => attempt < FetchAttempts
    /\ faults = {} => ~cancelled /\ at # "failed"

FetchInv == FetchType /\ FileIsThisBody /\ OkIsComplete /\ OnlyFaultsFail

------------------------------------------------------------------------------
(***************************************************************************)
(* AtomicFile.  The temporary file is complete from its write on, and has  *)
(* the access it will have before it is renamed.                           *)
(***************************************************************************)

File == [data : Writers \union {W!Partial, W!Old, W!Missing.data}, mode : W!Modes, owner : W!Owners]

FileType ==
    /\ target \in File
    /\ temp \in [Writers -> File]
    /\ step \in [Writers -> {"stat", "create", "write", "chmod", "chown", "rename", "mode",
                             "done", "failed"}]
    /\ keep \in SUBSET Writers
    /\ perm \in [Writers -> W!Modes]
    /\ spoiled \in BOOLEAN

TempIsWhole ==
    \A w \in Writers :
        /\ step[w] \in {"chmod", "chown", "rename"} => temp[w].data = w
        /\ step[w] \in {"chown", "rename"} => temp[w].mode = perm[w]
        /\ step[w] = "rename" /\ ~spoiled => temp[w].owner = W!Inherited
        /\ step[w] = "mode" => W!Exists

TargetIsAVersion == W!Exists => target.data # W!Missing.data

\* Who keeps a private mode found a file of the game's own.
PrivateIsTheGames ==
    \A w \in Writers :
        step[w] \notin W!Resting /\ perm[w] = "private" /\ ~spoiled => W!Inherited = "game"

FileInv ==
    FileType /\ TempIsWhole /\ TargetIsAVersion /\ PrivateIsTheGames /\ W!GameReadsTheFile

------------------------------------------------------------------------------
(***************************************************************************)
(* Proofs: sessions.                                                       *)
(***************************************************************************)

LEMMA SessionGoto ==
  ASSUME req \in [Requests -> Steps], NEW r \in Requests, NEW s \in Steps, Goto(r, s)
  PROVE  /\ req' \in [Requests -> Steps]
         /\ req'[r] = s
         /\ \A q \in Requests : q # r => req'[q] = req[q]
<1> DEFINE S == Steps
<1> HIDE DEF S
<1>1. req \in [Requests -> S] /\ s \in S
  BY DEF S
<1> QED
  BY <1>1 DEF Goto, S

LEMMA SessionInit == Init => SessionInv
<1> SUFFICES ASSUME Init PROVE SessionInv
  OBVIOUS
<1>1. TypeOK
  <2>1. now \in 0 .. Horizon /\ seen \in 0 .. now /\ admitted \in 0 .. now
    BY ClocksAssumption DEF Init
  <2>2. cookie \in 0 .. now + Idle
    BY ClocksAssumption DEF Init
  <2>3. req \in [Requests -> Steps]
    BY DEF Init, Steps
  <2> QED
    BY <2>1, <2>2, <2>3 DEF Init, TypeOK
<1>2. LetInNow /\ RowEnds /\ TouchedIsHandled
  BY DEF Init, LetInNow, RowEnds, TouchedIsHandled
<1>3. SeenFollows /\ CookieFollows
  BY ClocksAssumption DEF Init, SeenFollows, CookieFollows
<1> QED
  BY <1>1, <1>2, <1>3 DEF SessionInv

LEMMA AdmitKeeps ==
  ASSUME SessionInv, NEW r \in Requests, Admit(r)
  PROVE  SessionInv'
<1>1. PICK s \in {"refresh", "check"} :
        /\ Goto(r, s)
        /\ s = "check" => now < seen + Touch
  BY ClocksAssumption DEF Admit, Due, SessionInv, TypeOK
<1>2. /\ req' \in [Requests -> Steps] /\ req'[r] = s
      /\ \A q \in Requests : q # r => req'[q] = req[q]
  BY <1>1, SessionGoto DEF SessionInv, TypeOK, Steps
<1>3. TypeOK'
  BY <1>2 DEF Admit, SessionInv, TypeOK
<1>4. LetInNow'
  BY <1>2 DEF Admit, Valid, SessionInv, LetInNow
<1>5. SeenFollows'
  BY <1>1, <1>2 DEF Admit, SessionInv, SeenFollows, TypeOK
<1>6. RowEnds' /\ TouchedIsHandled' /\ CookieFollows'
  BY <1>1, <1>2 DEF Admit, SessionInv, RowEnds, TouchedIsHandled, CookieFollows
<1> QED
  BY <1>3, <1>4, <1>5, <1>6 DEF SessionInv

LEMMA RefreshKeeps ==
  ASSUME SessionInv, NEW r \in Requests, Refresh(r)
  PROVE  SessionInv'
<1>1. /\ req' \in [Requests -> Steps] /\ req'[r] = "mark"
      /\ \A q \in Requests : q # r => req'[q] = req[q]
  BY SessionGoto DEF Refresh, SessionInv, TypeOK, Steps
<1>2. /\ admitted = now /\ now < Expires /\ now < seen + Idle
      /\ req[r] = "refresh"
  BY DEF Refresh, SessionInv, LetInNow
<1>3. /\ seen' = IF row THEN now ELSE seen
      /\ UNCHANGED <<now, row, cookie, touched, admitted, out, cut>>
  BY DEF Refresh
<1>4. TypeOK'
  BY <1>1, <1>3 DEF SessionInv, TypeOK
<1>5. LetInNow' /\ RowEnds'
  BY <1>1, <1>2, <1>3, ClocksAssumption DEF SessionInv, LetInNow, RowEnds, TypeOK, Expires
<1>6. SeenFollows'
  BY <1>1, <1>2, <1>3, ClocksAssumption DEF SessionInv, SeenFollows, RowEnds, TypeOK, Expires
<1>7. TouchedIsHandled' /\ CookieFollows'
  BY <1>1, <1>2, <1>3 DEF SessionInv, TouchedIsHandled, CookieFollows
<1> QED
  BY <1>4, <1>5, <1>6, <1>7 DEF SessionInv

\* The rest of a request: mark, check and unmark.
LEMMA AnsweringKeeps ==
  ASSUME SessionInv, NEW r \in Requests, Mark(r) \/ Check(r) \/ Unmark(r)
  PROVE  SessionInv'
<1>1. UNCHANGED <<now, row, seen, admitted, out, cut>> /\ req[r] \in {"mark", "check", "unmark"}
  BY DEF Mark, Check, Unmark
<1>2. admitted = now /\ now < Expires /\ now < seen + Idle
  BY <1>1 DEF SessionInv, LetInNow
<1>3. PICK s \in {"none", "check", "unmark"} : Goto(r, s) /\ (req[r] = "check" /\ touched => s = "unmark")
                                               /\ (req[r] = "mark" => s = "check")
  BY DEF Mark, Check, Unmark
<1>4. /\ req' \in [Requests -> Steps] /\ req'[r] = s
      /\ \A q \in Requests : q # r => req'[q] = req[q]
  BY <1>3, SessionGoto DEF SessionInv, TypeOK, Steps
<1>5. LetInNow' /\ RowEnds' /\ SeenFollows'
  BY <1>1, <1>2, <1>4 DEF SessionInv, LetInNow, RowEnds, SeenFollows
<1>6. CASE Mark(r)
  <2>1. touched' = TRUE /\ cookie' = cookie /\ s = "check"
    BY <1>3, <1>6 DEF Mark
  <2> QED
    BY <1>1, <1>4, <1>5, <2>1 DEF SessionInv, TypeOK, TouchedIsHandled, CookieFollows
<1>7. CASE Check(r)
  <2>1. UNCHANGED <<touched, cookie>> /\ (touched => s = "unmark") /\ req[r] = "check"
    BY <1>3, <1>7 DEF Check
  <2> QED
    BY <1>1, <1>4, <1>5, <2>1 DEF SessionInv, TypeOK, TouchedIsHandled, CookieFollows
<1>8. CASE Unmark(r)
  <2>1. touched' = FALSE /\ cookie' = now + Idle
    BY <1>8 DEF Unmark
  <2>2. TypeOK'
    <3>1. cookie' \in 0 .. now + Idle
      BY <2>1, ClocksAssumption DEF SessionInv, TypeOK
    <3> QED
      BY <1>1, <1>4, <2>1, <3>1 DEF SessionInv, TypeOK
  <2>3. TouchedIsHandled'
    BY <2>1 DEF TouchedIsHandled
  <2>4. CookieFollows'
    BY <1>1, <2>1, ClocksAssumption DEF SessionInv, TypeOK, CookieFollows
  <2> QED
    BY <1>5, <2>2, <2>3, <2>4 DEF SessionInv
<1> QED
  BY <1>6, <1>7, <1>8

\* The clock, the browser's logout, and what the panel does by itself.
LEMMA BesideRequestsKeeps ==
  ASSUME SessionInv, Tick \/ Logout \/ Sweep \/ Restart \/ \E r \in Requests : Turn(r)
  PROVE  SessionInv'
<1>1. CASE Tick
  <2>1. /\ now < Horizon /\ now' = now + 1 /\ \A r \in Requests : req[r] = "none"
        /\ UNCHANGED <<row, seen, cookie, touched, req, admitted, out, cut>>
    BY <1>1 DEF Tick, Quiet
  <2>2. TypeOK'
    BY <2>1, ClocksAssumption DEF SessionInv, TypeOK
  <2>3. LetInNow' /\ TouchedIsHandled' /\ SeenFollows'
    BY <2>1 DEF SessionInv, LetInNow, TouchedIsHandled, SeenFollows
  <2>4. RowEnds'
    BY <2>1, ClocksAssumption DEF SessionInv, TypeOK, RowEnds, Expires
  <2>5. CookieFollows'
    BY <2>1, ClocksAssumption DEF SessionInv, TypeOK, CookieFollows, Expires
  <2> QED
    BY <2>2, <2>3, <2>4, <2>5 DEF SessionInv
<1>2. CASE Logout
  <2>1. /\ row' = FALSE /\ cookie' = 0 /\ out' = TRUE
        /\ UNCHANGED <<now, seen, touched, req, admitted, cut>>
    BY <1>2 DEF Logout
  <2>2. cookie' \in 0 .. now + Idle
    BY <2>1, ClocksAssumption DEF SessionInv, TypeOK
  <2>3. TypeOK'
    BY <2>1, <2>2 DEF SessionInv, TypeOK
  <2> QED
    BY <2>1, <2>3 DEF SessionInv, LetInNow, RowEnds, SeenFollows, TouchedIsHandled, CookieFollows
<1>3. CASE Sweep
  BY <1>3 DEF Sweep, SessionInv, TypeOK, LetInNow, RowEnds, SeenFollows, TouchedIsHandled,
     CookieFollows
<1>4. CASE Restart
  <2>1. /\ req' = [r \in Requests |-> "none"] /\ touched' = FALSE
        /\ UNCHANGED <<now, seen, cookie, admitted, out>>
        /\ cut' \in BOOLEAN /\ row' \in BOOLEAN
    BY <1>4 DEF Restart, SessionInv, TypeOK
  <2>2. RowEnds'
    BY <1>4, ClocksAssumption DEF Restart, SessionInv, TypeOK, RowEnds, Expires
  <2>3. cut' \/ (~cut /\ Quiet)
    BY <1>4, Zenon DEF Restart
  <2>4. TypeOK' /\ LetInNow' /\ TouchedIsHandled'
    BY <2>1 DEF SessionInv, TypeOK, LetInNow, TouchedIsHandled, Steps
  <2>5. SeenFollows' /\ CookieFollows'
    BY <2>1, <2>3 DEF SessionInv, SeenFollows, CookieFollows, TouchedIsHandled, Quiet
  <2> QED
    BY <2>2, <2>4, <2>5 DEF SessionInv
<1>5. ASSUME NEW r \in Requests, Turn(r)
      PROVE  SessionInv'
  <2>1. /\ cookie' = 0 /\ ~Valid
        /\ UNCHANGED <<now, row, seen, touched, req, admitted, out, cut>>
    BY <1>5 DEF Turn
  <2>2. out \/ now >= Expires \/ now >= seen + Idle
    BY <2>1, ClocksAssumption DEF Valid, SessionInv, RowEnds, TypeOK, Expires
  <2>3. TypeOK' /\ LetInNow' /\ RowEnds' /\ SeenFollows' /\ TouchedIsHandled'
    BY <2>1, ClocksAssumption
       DEF SessionInv, TypeOK, LetInNow, RowEnds, SeenFollows, TouchedIsHandled, Expires
  <2>4. CookieFollows'
    BY <2>1, <2>2 DEF CookieFollows, Expires
  <2> QED
    BY <2>3, <2>4 DEF SessionInv
<1> QED
  BY <1>1, <1>2, <1>3, <1>4, <1>5

LEMMA SessionNext ==
  ASSUME SessionInv, [PartsNext]_<<focus, vars, accountVars, throttleVars, capsVars, loadoutVars,
                                   queryVars, fetchVars, treeVars, fileVars>>
  PROVE  SessionInv' /\ [Next]_vars
<1>1. [Next]_vars
  BY DEF PartsNext
<1>2. CASE Next
  BY <1>2, AdmitKeeps, RefreshKeeps, AnsweringKeeps, BesideRequestsKeeps DEF Next, Handle
<1>3. CASE UNCHANGED vars
  BY <1>3 DEF vars, SessionInv, TypeOK, LetInNow, RowEnds, SeenFollows, TouchedIsHandled,
     CookieFollows
<1> QED
  BY <1>1, <1>2, <1>3

THEOREM SessionInvariance == PartsSpec => []SessionInv
<1>1. PartsInit => SessionInv
  BY SessionInit DEF PartsInit
<1> QED
  BY <1>1, SessionNext, PTL DEF PartsSpec

\* "An admin working all day is never interrupted": whoever sent a request within
\* the idle window, less the refresh period, has a valid row and a cookie, unless
\* they logged out or the panel was stopped between the two refreshes.
THEOREM NeverInterrupted == PartsSpec => []StaysSignedIn
<1>1. SessionInv => StaysSignedIn
  <2> SUFFICES ASSUME SessionInv, Quiet, ~out, ~cut,
                      now - admitted < Idle - Touch, now < Expires
               PROVE  Valid /\ HasCookie
    BY DEF StaysSignedIn
  <2>1. now < seen + Idle
    BY ClocksAssumption DEF SessionInv, TypeOK, SeenFollows, Quiet
  <2>2. row
    BY <2>1, ClocksAssumption DEF SessionInv, TypeOK, RowEnds, Expires
  <2>3. now < cookie
    BY <2>1, ClocksAssumption DEF SessionInv, TypeOK, CookieFollows, TouchedIsHandled, Quiet, Expires
  <2> QED
    BY <2>1, <2>2, <2>3 DEF Valid, HasCookie
<1> QED
  BY <1>1, SessionInvariance, PTL

\* No request is let in a whole idle window after the last one, nor after the
\* cap, and a session that is gone stays gone: last_seen never runs ahead of the
\* requests, and GetSessionUser's UPDATE brings no row back.
THEOREM SessionsEnd == PartsSpec => SessionEnds
<1>1. ASSUME SessionInv, [Next]_vars, admitted' # admitted
      PROVE  admitted' - admitted < Idle /\ admitted' < Expires
  <2>1. PICK r \in Requests : Admit(r)
    BY <1>1 DEF Next, Handle, vars, Tick, Logout, Sweep, Restart, Turn, Refresh, Mark, Check, Unmark
  <2> QED
    BY <1>1, <2>1, ClocksAssumption DEF Admit, Valid, SessionInv, SeenFollows, TypeOK, Expires
<1>2. ASSUME [Next]_vars, ~row
      PROVE  ~row'
  BY <1>2 DEF Next, Handle, vars, Tick, Logout, Sweep, Restart, Admit, Turn, Refresh, Mark, Check, Unmark
<1>3. SessionInv /\ [PartsNext]_<<focus, vars, accountVars, throttleVars, capsVars, loadoutVars,
                                  queryVars, fetchVars, treeVars, fileVars>>
        => /\ [admitted' # admitted => admitted' - admitted < Idle /\ admitted' < Expires]_vars
           /\ [~row => ~row']_vars
  BY <1>1, <1>2, SessionNext
<1> QED
  BY <1>3, SessionInvariance, PTL DEF PartsSpec, SessionEnds, DiesWhenIdle, EndedStaysEnded

------------------------------------------------------------------------------
(***************************************************************************)
(* Proofs: accounts.                                                       *)
(***************************************************************************)

Change == [pc : A!Steps, op : {"none", "role", "delete", "create", "setup"},
           target : Users \union {"none"}, role : A!Roles \union {"none"}, beside : BOOLEAN]

LEMMA NoRequestIs ==
  /\ A!NoRequest \in Change /\ A!NoRequest.op = "none" /\ ~A!NoRequest.beside
  /\ A!NoRequest.pc = "idle"
BY DEF A!NoRequest, Change, A!Steps

LEMMA ChangesAre == A!TypeOK => change \in [Changes -> Change]
BY DEF A!TypeOK, Change

\* What a step of a change in progress leaves: its op, target and mark.
ChangeGoesOn(r) ==
    /\ change' \in [Changes -> Change]
    /\ \A q \in Changes : q # r => change'[q] = change[q]
    /\ \/ change'[r] = A!NoRequest
       \/ /\ change'[r].op = change[r].op /\ change'[r].target = change[r].target
          /\ change'[r].beside = change[r].beside
          /\ \/ change'[r].pc \notin {"read", "count", "update", "delete"}
             \/ change[r].pc \in {"read", "count", "update", "delete"}

LEMMA ChangeGoto ==
  ASSUME change \in [Changes -> Change], NEW r \in Changes, NEW s \in A!Steps, A!Goto(r, s),
         s # "consume" => change[r].pc \in {"read", "count", "update", "delete"}
  PROVE  ChangeGoesOn(r)
<1> DEFINE S == A!Steps
           R == A!Roles \union {"none"}
           T1 == Users \union {"none"}
           O == {"none", "role", "delete", "create", "setup"}
<1>1. Change = [pc : S, op : O, target : T1, role : R, beside : BOOLEAN] /\ s \in S
  BY DEF Change
<1> HIDE DEF S, R, T1, O
<1>2. change' = [change EXCEPT ![r].pc = s]
  BY DEF A!Goto
<1>3. /\ change' \in [Changes -> Change]
      /\ \A q \in Changes : q # r => change'[q] = change[q]
      /\ change'[r].op = change[r].op /\ change'[r].target = change[r].target
      /\ change'[r].beside = change[r].beside /\ change'[r].pc = s
  BY <1>1, <1>2
<1> QED
  BY <1>3 DEF ChangeGoesOn

LEMMA ChangeReturn ==
  ASSUME change \in [Changes -> Change], NEW r \in Changes, A!Return(r)
  PROVE  ChangeGoesOn(r) /\ change'[r] = A!NoRequest
<1>1. change' = [change EXCEPT ![r] = A!NoRequest]
  BY DEF A!Return
<1> QED
  BY <1>1, NoRequestIs DEF ChangeGoesOn

\* GetUserByID settles the role to change to.
LEMMA ChangeReads ==
  ASSUME change \in [Changes -> Change], NEW r \in Changes, A!ReadTarget(r)
  PROVE  ChangeGoesOn(r)
<1> DEFINE S == A!Steps
           R == A!Roles \union {"none"}
           T1 == Users \union {"none"}
           O == {"none", "role", "delete", "create", "setup"}
<1>1. PICK to \in {"admin", "player"}, s \in {"delete", "update", "count"} :
        /\ change' = [change EXCEPT ![r].role = to, ![r].pc = s]
        /\ change[r].pc = "read"
  BY DEF A!ReadTarget
<1>2. /\ Change = [pc : S, op : O, target : T1, role : R, beside : BOOLEAN]
      /\ to \in R /\ s \in S
  BY DEF Change, A!Roles, A!Steps
<1> HIDE DEF S, R, T1, O
<1>3. /\ change' \in [Changes -> Change]
      /\ \A q \in Changes : q # r => change'[q] = change[q]
      /\ change'[r].op = change[r].op /\ change'[r].target = change[r].target
      /\ change'[r].beside = change[r].beside
  BY <1>1, <1>2
<1> QED
  BY <1>1, <1>3 DEF ChangeGoesOn

\* Going on keeps the marks; who had administrators beside its target has them,
\* if no administrator is lost.
LEMMA GoingOnKeeps ==
  ASSUME AccountInv, NEW r \in Changes, ChangeGoesOn(r),
         role' \in [Users -> A!Roles \union {"none", "gone"}], token' \in BOOLEAN
  PROVE  /\ A!TypeOK' /\ TheirSteps' /\ OverlapsAreMarked'
         /\ \A q \in Changes : A!OnOthers(q)' => /\ A!OnOthers(q)
                                                 /\ change'[q].target = change[q].target
                                                 /\ change'[q].beside = change[q].beside
         /\ A!Admins \subseteq A!Admins' => ActorRemains'
<1>1. A!TypeOK'
  BY DEF ChangeGoesOn, A!TypeOK, Change
<1>2. ASSUME NEW q \in Changes, A!OnOthers(q)'
      PROVE  /\ A!OnOthers(q)
             /\ change'[q].target = change[q].target
             /\ change'[q].beside = change[q].beside
  <2>1. change'[q] # A!NoRequest
    BY <1>2, NoRequestIs DEF A!OnOthers
  <2> QED
    BY <1>2, <2>1 DEF ChangeGoesOn, A!OnOthers
<1>3. OverlapsAreMarked'
  BY <1>2 DEF AccountInv, OverlapsAreMarked
<1>4. A!Admins \subseteq A!Admins' => ActorRemains'
  BY <1>2 DEF AccountInv, ActorRemains, A!Target
<1>5. TheirSteps'
  BY NoRequestIs DEF ChangeGoesOn, AccountInv, TheirSteps, A!OnOthers
<1> QED
  BY <1>1, <1>2, <1>3, <1>4, <1>5

\* A change that begins marks itself and every one that is in progress.
LEMMA BeginMarks ==
  ASSUME AccountInv, NEW r \in Changes, NEW op \in {"role", "delete", "create", "setup"},
         NEW s \in A!Steps, NEW u \in Users, NEW to \in A!Roles \union {"none"},
         A!Begin(r, op, s, u, to), UNCHANGED <<role, token>>,
         op \in {"role", "delete"} => op \in Ops /\ \E a \in A!Admins : a # u,
         op \notin {"role", "delete"} => s = "insert"
  PROVE  AccountInv'
<1> DEFINE over == op \in Ops /\ \E q \in Changes : A!OnOthers(q)
           New == [pc |-> s, op |-> op, target |-> u, role |-> to, beside |-> over]
           Kept(q) == [change[q] EXCEPT !.beside = @ \/ (over /\ A!OnOthers(q))]
<1>1. change' = [q \in Changes |-> IF q = r THEN New ELSE Kept(q)]
  BY DEF A!Begin
<1>2. New \in Change
  BY DEF Change
<1>3. change \in [Changes -> Change]
  BY ChangesAre DEF AccountInv
<1>4. ASSUME NEW q \in Changes
      PROVE  /\ Kept(q) \in Change
             /\ Kept(q).pc = change[q].pc /\ Kept(q).op = change[q].op /\ Kept(q).target = change[q].target
             /\ Kept(q).beside <=> change[q].beside \/ (over /\ A!OnOthers(q))
  <2> DEFINE S == A!Steps
             R == A!Roles \union {"none"}
             T1 == Users \union {"none"}
             O == {"none", "role", "delete", "create", "setup"}
  <2>1. Change = [pc : S, op : O, target : T1, role : R, beside : BOOLEAN]
    BY DEF Change
  <2> HIDE DEF S, R, T1, O
  <2>2. change[q] \in [pc : S, op : O, target : T1, role : R, beside : BOOLEAN]
    BY <1>3, <2>1
  <2> HIDE DEF over
  <2> QED
    BY <2>1, <2>2
<1>5. New.pc = s /\ New.op = op /\ New.target = u /\ New.beside = over
  OBVIOUS
<1> HIDE DEF New, Kept
<1>6. /\ change' \in [Changes -> Change]
      /\ change'[r] = New
      /\ \A q \in Changes : q # r => change'[q] = Kept(q)
  BY <1>1, <1>2, <1>4
<1>7. A!TypeOK'
  BY <1>6 DEF AccountInv, A!TypeOK, Change
<1>8. OverlapsAreMarked'
  <2> SUFFICES ASSUME NEW p \in Changes, NEW q \in Changes, p # q, A!OnOthers(p)', A!OnOthers(q)'
               PROVE  change'[p].beside
    BY DEF OverlapsAreMarked
  <2>1. CASE p # r /\ q # r
    BY <1>4, <1>6, <2>1 DEF AccountInv, OverlapsAreMarked, A!OnOthers
  <2>2. CASE p = r
    <3>1. op \in {"role", "delete"} /\ A!OnOthers(q)
      BY <1>4, <1>5, <1>6, <2>2 DEF A!OnOthers
    <3> QED
      BY <1>5, <1>6, <2>2, <3>1
  <2>3. CASE q = r
    <3>1. op \in {"role", "delete"} /\ A!OnOthers(p)
      BY <1>4, <1>5, <1>6, <2>3 DEF A!OnOthers
    <3> QED
      BY <1>4, <1>6, <2>3, <3>1
  <2> QED
    BY <2>1, <2>2, <2>3
<1>9. ActorRemains'
  <2> SUFFICES ASSUME NEW q \in Changes, A!OnOthers(q)', ~change'[q].beside
               PROVE  \E v \in A!Admins : v # change'[q].target
    BY DEF ActorRemains, A!Admins, A!Target
  <2>1. CASE q = r
    BY <1>5, <1>6, <2>1 DEF A!OnOthers
  <2>2. CASE q # r
    BY <1>4, <1>6, <2>2 DEF AccountInv, ActorRemains, A!OnOthers, A!Target
  <2> QED
    BY <2>1, <2>2
<1>10. TheirSteps'
  BY <1>4, <1>5, <1>6 DEF AccountInv, TheirSteps, A!OnOthers
<1> QED
  BY <1>7, <1>8, <1>9, <1>10 DEF AccountInv

\* A role is taken from an administrator, or the account is deleted: who did it
\* remains, or the change was not alone.
LEMMA TakingKeeps ==
  ASSUME AccountInv, NEW r \in Changes, A!Update(r) \/ A!Delete(r)
  PROVE  /\ AccountInv'
         /\ change[r].beside \/ A!Admins' # {}
         /\ \A u \in Users : role[u] = "gone" => role'[u] = "gone"
<1> DEFINE u == A!Target(r)
<1>1. PICK to \in A!Roles \union {"none", "gone"} :
        /\ role' = [role EXCEPT ![u] = IF A!Exists(u) THEN to ELSE @]
        /\ A!Return(r) /\ UNCHANGED token
  <2>1. change[r].role \in A!Roles \union {"none"}
    BY ChangesAre DEF AccountInv, Change
  <2> QED
    BY <2>1 DEF A!Update, A!Delete
<1>2. ChangeGoesOn(r) /\ change'[r] = A!NoRequest
  BY <1>1, ChangesAre, ChangeReturn DEF AccountInv
<1>3. /\ role' \in [Users -> A!Roles \union {"none", "gone"}] /\ token' \in BOOLEAN
      /\ \A v \in Users : v # u => role'[v] = role[v]
      /\ \A v \in Users : role[v] = "gone" => role'[v] = "gone"
  BY <1>1 DEF AccountInv, A!TypeOK, A!Exists, A!Roles
<1>4. A!OnOthers(r)
  BY DEF A!Update, A!Delete, AccountInv, TheirSteps
<1>5. A!TypeOK' /\ TheirSteps' /\ OverlapsAreMarked'
  BY <1>2, <1>3, GoingOnKeeps
<1>6. \A q \in Changes \ {r} : A!OnOthers(q) => change[q].beside /\ change'[q] = change[q]
  BY <1>2, <1>4 DEF AccountInv, OverlapsAreMarked, ChangeGoesOn
<1>7. ActorRemains'
  <2> SUFFICES ASSUME NEW q \in Changes, A!OnOthers(q)', ~change'[q].beside
               PROVE  FALSE
    BY DEF ActorRemains
  <2>1. q # r
    BY <1>2, NoRequestIs DEF A!OnOthers
  <2> QED
    BY <1>2, <1>6, <2>1 DEF ChangeGoesOn, A!OnOthers
<1>8. change[r].beside \/ A!Admins' # {}
  <2> SUFFICES ASSUME ~change[r].beside
               PROVE  \E v \in Users : role'[v] = "admin"
    BY DEF A!Admins
  <2>1. PICK v \in A!Admins : v # u
    BY <1>4 DEF AccountInv, ActorRemains
  <2> QED
    BY <1>3, <2>1 DEF A!Admins
<1> QED
  BY <1>3, <1>5, <1>7, <1>8 DEF AccountInv

\* Every other step of a request in progress takes no role from anybody.
LEMMA HandlingKeeps ==
  ASSUME AccountInv, NEW r \in Changes,
         \/ A!Insert(r) \/ A!InsertFails(r) \/ A!ConsumeSetupToken(r)
         \/ A!ReadTarget(r) \/ A!NotFound(r) \/ A!CountOthers(r)
  PROVE  AccountInv' /\ A!Admins \subseteq A!Admins' /\ \A u \in Users : role[u] = "gone" => role'[u] = "gone"
<1>1. change \in [Changes -> Change]
  BY ChangesAre DEF AccountInv
<1>2. ChangeGoesOn(r)
  <2>1. CASE A!ReadTarget(r)
    BY <1>1, <2>1, ChangeReads
  <2>2. CASE A!Return(r)
    BY <1>1, <2>2, ChangeReturn
  <2>3. CASE A!Goto(r, "consume")
    BY <1>1, <2>3, ChangeGoto DEF A!Steps
  <2>4. CASE A!Goto(r, "update") /\ change[r].pc = "count"
    BY <1>1, <2>4, ChangeGoto DEF A!Steps
  <2> QED
    BY <2>1, <2>2, <2>3, <2>4
       DEF A!Insert, A!InsertFails, A!ConsumeSetupToken, A!NotFound, A!CountOthers
<1>3. /\ role' \in [Users -> A!Roles \union {"none", "gone"}]
      /\ \A u \in Users : role'[u] = role[u] \/ role[u] = "none"
  <2>1. CASE A!Insert(r)
    <3>1. change[r].role \in A!Roles \union {"none", "gone"}
      BY <1>1 DEF Change
    <3> QED
      BY <2>1, <3>1 DEF A!Insert, AccountInv, A!TypeOK
  <2> QED
    BY <2>1 DEF A!InsertFails, A!ConsumeSetupToken, A!ReadTarget, A!NotFound, A!CountOthers,
       AccountInv, A!TypeOK
<1>4. token' \in BOOLEAN
  BY DEF A!Insert, A!InsertFails, A!ConsumeSetupToken, A!ReadTarget, A!NotFound, A!CountOthers,
     AccountInv, A!TypeOK
<1>5. A!Admins \subseteq A!Admins'
  BY <1>3 DEF A!Admins
<1> QED
  BY <1>2, <1>3, <1>4, <1>5, GoingOnKeeps DEF AccountInv

\* A request that comes in changes no account.
LEMMA AskingKeeps ==
  ASSUME AccountInv, NEW r \in Changes, A!Ask(r)
  PROVE  AccountInv' /\ UNCHANGED role
<1>1. PICK op \in {"role", "delete", "create", "setup"}, s \in A!Steps, u \in Users,
           to \in A!Roles \union {"none"} :
        /\ A!Begin(r, op, s, u, to) /\ UNCHANGED <<role, token>>
        /\ op \in {"role", "delete"} => op \in Ops /\ \E a \in A!Admins : a # u
        /\ op \notin {"role", "delete"} => s = "insert"
  <2>1. ASSUME NEW u \in Users, A!Setup(r, u)
        PROVE  A!Begin(r, "setup", "insert", u, "admin") /\ UNCHANGED <<role, token>>
    BY <2>1 DEF A!Setup
  <2>2. ASSUME NEW u \in Users, NEW to \in A!Roles \union {"other"}, A!Create(r, u, to)
        PROVE  \E as \in A!Roles : A!Begin(r, "create", "insert", u, as) /\ UNCHANGED <<role, token>>
    BY <2>2 DEF A!Create, A!Roles
  <2>3. ASSUME NEW actor \in Users, NEW u \in Users, NEW op \in Ops, A!On(r, actor, u, op)
        PROVE  /\ A!Begin(r, op, "read", u, "none") /\ UNCHANGED <<role, token>>
               /\ op \in {"role", "delete"} /\ \E a \in A!Admins : a # u
    BY <2>3, ConstantsAssumption DEF A!On, A!OpsAssumption
  <2>4. {"insert", "read"} \subseteq A!Steps /\ "admin" \in A!Roles
    BY DEF A!Steps, A!Roles
  <2> QED
    BY <2>1, <2>2, <2>3, <2>4 DEF A!Ask
<1> QED
  BY <1>1, BeginMarks

LEMMA AccountInit == A!Init => AccountInv
<1> SUFFICES ASSUME A!Init PROVE AccountInv
  OBVIOUS
<1>1. change \in [Changes -> Change] /\ \A r \in Changes : change[r] = A!NoRequest
  BY NoRequestIs DEF A!Init
<1>2. A!TypeOK
  BY <1>1 DEF A!Init, A!TypeOK, Change
<1> QED
  BY <1>1, <1>2, NoRequestIs
     DEF AccountInv, TheirSteps, OverlapsAreMarked, ActorRemains, A!OnOthers

LEMMA AccountNext ==
  ASSUME AccountInv, [PartsNext]_<<focus, vars, accountVars, throttleVars, capsVars, loadoutVars,
                                   queryVars, fetchVars, treeVars, fileVars>>
  PROVE  /\ AccountInv'
         /\ A!Admins # {} /\ A!Admins' = {}
              => \E r \in Changes : change[r].beside /\ change'[r] # change[r]
         /\ \A u \in Users : role[u] = "gone" => role'[u] = "gone"
<1>1. CASE UNCHANGED accountVars
  BY <1>1 DEF accountVars, AccountInv, A!TypeOK, TheirSteps, OverlapsAreMarked, ActorRemains,
     A!OnOthers, A!Admins, A!Target
<1>2. ASSUME NEW r \in Changes, A!Ask(r)
      PROVE  /\ AccountInv' /\ A!Admins' = A!Admins
             /\ \A u \in Users : role[u] = "gone" => role'[u] = "gone"
  BY <1>2, AskingKeeps DEF A!Admins
<1>3. ASSUME NEW r \in Changes, A!Update(r) \/ A!Delete(r)
      PROVE  /\ AccountInv'
             /\ A!Admins' = {} => change[r].beside /\ change'[r] # change[r]
             /\ \A u \in Users : role[u] = "gone" => role'[u] = "gone"
  <2>1. change[r] # change'[r]
    <3>1. A!Return(r) /\ A!OnOthers(r)
      BY <1>3 DEF A!Update, A!Delete, AccountInv, TheirSteps
    <3> QED
      BY <3>1, ChangesAre, ChangeReturn, NoRequestIs DEF AccountInv, A!OnOthers
  <2> QED
    BY <1>3, <2>1, TakingKeeps
<1>4. CASE \E r \in Changes : A!Ask(r) \/ A!Update(r) \/ A!Delete(r)
  BY <1>2, <1>3, <1>4
<1>5. CASE \E r \in Changes :
             \/ A!Insert(r) \/ A!InsertFails(r) \/ A!ConsumeSetupToken(r)
             \/ A!ReadTarget(r) \/ A!NotFound(r) \/ A!CountOthers(r)
  BY <1>5, HandlingKeeps
<1> QED
  BY <1>1, <1>4, <1>5 DEF PartsNext, A!Next, A!Handle

THEOREM AccountInvariance == PartsSpec => []AccountInv
<1>1. PartsInit => AccountInv
  BY AccountInit DEF PartsInit
<1> QED
  BY <1>1, AccountNext, PTL DEF PartsSpec

\* A demotion or deletion that no other one overlaps leaves an administrator:
\* the one who asked for it, since nobody acts on the own account and nobody
\* else took that role meanwhile.  And a role change under way brings no deleted
\* account back.
THEOREM AnAdministratorRemains == PartsSpec => AccountsHold
<1>1. AccountInv /\ [PartsNext]_<<focus, vars, accountVars, throttleVars, capsVars, loadoutVars,
                                  queryVars, fetchVars, treeVars, fileVars>>
        => /\ [A!Admins # {} /\ A!Admins' = {}
                 => \E r \in Changes : change[r].beside /\ change'[r] # change[r]]_A!vars
           /\ [\A u \in Users : role[u] = "gone" => role'[u] = "gone"]_A!vars
  BY AccountNext
<1> QED
  BY <1>1, AccountInvariance, PTL
     DEF PartsSpec, AccountsHold, A!AccountsHold, A!AdminRemains, A!GoneStaysGone

------------------------------------------------------------------------------
(***************************************************************************)
(* Proofs: what the panel remembers of the plugin.                         *)
(***************************************************************************)

Page == [pc : {"idle", "asking", "answered"}, installed : BOOLEAN, age : 0 .. Timeout,
         old : BOOLEAN]

LEMMA CacheInit == C!Init => CacheInv
<1> SUFFICES ASSUME C!Init PROVE CacheInv
  OBVIOUS
<1>1. TTL \in Nat /\ Timeout \in Nat
  BY ConstantsAssumption DEF C!AgesAssumption
<1>2. plugin \in [installed : BOOLEAN, job : BOOLEAN]
  BY DEF C!Init
<1>3. C!NoPage \in Page /\ C!NoPage.pc = "idle"
  BY <1>1 DEF C!NoPage, Page
<1>4. page \in [Renders -> Page] /\ \A r \in Renders : page[r].pc = "idle"
  BY <1>3 DEF C!Init
<1>5. /\ ~cache.has
      /\ cache \in [has : BOOLEAN, installed : BOOLEAN, age : 0 .. TTL + 1, late : BOOLEAN]
  BY <1>1 DEF C!Init, C!Empty
<1>6. since \in 0 .. TTL + Timeout + 1 /\ click = "none"
  BY <1>1 DEF C!Init
<1>7. CacheType
  BY <1>2, <1>4, <1>5, <1>6 DEF CacheType, Page
<1> QED
  BY <1>4, <1>5, <1>7 DEF CacheInv, CacheIsAsOldAsTheChange, ChangeIsMarked

\* A page's own steps.
LEMMA PageKeeps ==
  ASSUME CacheInv, NEW r \in Renders, C!Miss(r) \/ C!Answer(r) \/ C!put(r) \/ C!FetchFails(r)
  PROVE  CacheInv'
<1>1. /\ TTL \in Nat /\ Timeout \in Nat /\ page \in [Renders -> Page]
      /\ UNCHANGED <<plugin, click, since>>
  BY ConstantsAssumption
     DEF C!AgesAssumption, CacheInv, CacheType, Page, C!Miss, C!Answer, C!put, C!FetchFails
<1>2. C!NoPage \in Page /\ C!NoPage.pc = "idle"
  BY <1>1 DEF C!NoPage, Page
<1>3. PICK p \in Page :
        /\ page' = [page EXCEPT ![r] = p]
        /\ p.pc = "answered" => /\ p.installed = plugin.installed \/ p = page[r]
                                /\ p.installed = plugin.installed
        /\ p.pc # "idle" /\ ~p.old => ~plugin.job
  <2>1. CASE C!Miss(r)
    <3> DEFINE p == [C!NoPage EXCEPT !.pc = "asking", !.old = plugin.job]
    <3>1. p \in Page /\ p.pc = "asking" /\ p.old = plugin.job
      BY <1>2 DEF Page, CacheInv, CacheType
    <3>2. page' = [page EXCEPT ![r] = p]
      BY <2>1 DEF C!Miss
    <3> QED
      BY <3>1, <3>2
  <2>2. CASE C!Answer(r)
    <3> DEFINE p == [page[r] EXCEPT !.pc = "answered", !.installed = plugin.installed]
    <3>1. p \in Page /\ p.installed = plugin.installed /\ p.old = page[r].old
      BY <1>1 DEF Page, CacheInv, CacheType
    <3>3. page[r].pc = "asking"
      BY <2>2 DEF C!Answer
    <3>2. page' = [page EXCEPT ![r] = p]
      BY <1>1, <2>2 DEF C!Answer
    <3>4. ~p.old => ~plugin.job
      BY <3>1, <3>3 DEF CacheInv, ChangeIsMarked
    <3> QED
      BY <3>1, <3>2, <3>4
  <2> QED
    BY <1>2, <2>1, <2>2 DEF C!put, C!FetchFails
<1>4. page' \in [Renders -> Page] /\ page'[r] = p /\ \A q \in Renders : q # r => page'[q] = page[q]
  BY <1>1, <1>3
<1>5. CASE C!put(r)
  <2>1. /\ cache' = [has |-> TRUE, installed |-> page[r].installed, age |-> 0, late |-> page[r].old]
        /\ page[r].pc = "answered" /\ page[r] \in Page
    BY <1>1, <1>5 DEF C!put
  <2>2. /\ cache'.installed = page[r].installed /\ cache'.age = 0 /\ cache'.late = page[r].old
        /\ cache' \in [has : BOOLEAN, installed : BOOLEAN, age : 0 .. TTL + 1, late : BOOLEAN]
    BY <1>1, <2>1 DEF Page
  <2>3. page[r].age <= Timeout /\ page[r].age \in Nat /\ since \in Nat
    BY <1>1, <2>1 DEF Page, CacheInv, CacheType
  <2>4. CacheType'
    BY <1>1, <1>4, <2>2 DEF CacheInv, CacheType, Page
  <2>5. CacheIsAsOldAsTheChange'
    BY <1>1, <1>3, <1>4, <2>1, <2>2, <2>3 DEF CacheInv, CacheIsAsOldAsTheChange
  <2>6. ChangeIsMarked'
    BY <1>1, <1>3, <1>4, <2>1, <2>2 DEF CacheInv, ChangeIsMarked
  <2> QED
    BY <2>4, <2>5, <2>6 DEF CacheInv
<1>6. CASE UNCHANGED cache
  <2>1. CacheType'
    BY <1>1, <1>4, <1>6 DEF CacheInv, CacheType, Page
  <2>2. CacheIsAsOldAsTheChange' /\ ChangeIsMarked'
    BY <1>1, <1>3, <1>4, <1>6 DEF CacheInv, CacheIsAsOldAsTheChange, ChangeIsMarked
  <2> QED
    BY <2>1, <2>2 DEF CacheInv
<1> QED
  BY <1>5, <1>6 DEF C!Miss, C!Answer, C!FetchFails

\* What the operator and the agent's job do.
LEMMA ChangingKeeps ==
  ASSUME CacheInv,
         \/ C!handlePluginInstall \/ C!handlePluginUninstall \/ C!reset \/ C!AnswerLost
         \/ \E ok \in BOOLEAN : C!JobEnds(ok)
  PROVE  CacheInv'
<1>1. TTL \in Nat /\ Timeout \in Nat /\ page \in [Renders -> Page]
  BY ConstantsAssumption DEF C!AgesAssumption, CacheInv, CacheType, Page
<1>7. page' = C!Outdated =>
        /\ page' \in [Renders -> Page]
        /\ \A q \in Renders : /\ page'[q].pc = page[q].pc /\ page'[q].installed = page[q].installed
                              /\ page'[q].age = page[q].age
                              /\ page'[q].old <=> page[q].pc # "idle"
  <2> SUFFICES ASSUME page' = C!Outdated
               PROVE  /\ page' \in [Renders -> Page]
                      /\ \A q \in Renders : /\ page'[q].pc = page[q].pc
                                            /\ page'[q].installed = page[q].installed
                                            /\ page'[q].age = page[q].age
                                            /\ page'[q].old <=> page[q].pc # "idle"
    OBVIOUS
  <2>1. \A q \in Renders : page'[q] = [page[q] EXCEPT !.old = page[q].pc # "idle"]
    BY DEF C!Outdated
  <2>2. \A q \in Renders : /\ page'[q] \in Page
                           /\ page'[q].pc = page[q].pc /\ page'[q].installed = page[q].installed
                           /\ page'[q].age = page[q].age
                           /\ page'[q].old <=> page[q].pc # "idle"
    BY <1>1, <2>1 DEF Page
  <2> QED
    BY <2>2 DEF C!Outdated
<1>2. CASE C!handlePluginInstall
  <2>1. /\ plugin' \in [installed : BOOLEAN, job : BOOLEAN]
        /\ plugin'.installed = plugin.installed
        /\ UNCHANGED <<cache, since>> /\ click' = "done" /\ page' = C!Outdated
    BY <1>2 DEF C!handlePluginInstall, CacheInv, CacheType
  <2>2. CacheType'
    BY <1>1, <1>7, <2>1 DEF CacheInv, CacheType, Page
  <2>3. CacheIsAsOldAsTheChange'
    BY <1>7, <2>1 DEF CacheInv, CacheIsAsOldAsTheChange
  <2>4. ChangeIsMarked'
    BY <1>7, <2>1 DEF ChangeIsMarked
  <2> QED
    BY <2>2, <2>3, <2>4 DEF CacheInv
<1>3. CASE C!handlePluginUninstall
  <2>1. /\ plugin' \in [installed : BOOLEAN, job : BOOLEAN] /\ ~plugin'.installed
        /\ UNCHANGED cache /\ click' = "done" /\ since' = 0 /\ page' = C!Outdated
    BY <1>3 DEF C!handlePluginUninstall, CacheInv, CacheType
  <2>4. CacheType'
    BY <1>1, <1>7, <2>1 DEF CacheInv, CacheType, Page
  <2>5. CacheIsAsOldAsTheChange'
    <3>1. cache.age \in Nat /\ \A q \in Renders : page[q].age \in Nat
      BY <1>1 DEF CacheInv, CacheType, Page
    <3> QED
      BY <1>1, <1>7, <2>1, <3>1 DEF CacheIsAsOldAsTheChange
  <2>6. ChangeIsMarked'
    BY <1>7, <2>1 DEF ChangeIsMarked
  <2> QED
    BY <2>4, <2>5, <2>6 DEF CacheInv
<1>4. CASE C!reset
  <2>1. /\ UNCHANGED <<plugin, page, since>> /\ click' = "none" /\ ~cache'.has
        /\ cache' \in [has : BOOLEAN, installed : BOOLEAN, age : 0 .. TTL + 1, late : BOOLEAN]
    BY <1>4 DEF C!reset, CacheInv, CacheType
  <2> QED
    BY <2>1 DEF CacheInv, CacheType, CacheIsAsOldAsTheChange, ChangeIsMarked
<1>5. CASE C!AnswerLost
  <2>1. /\ UNCHANGED <<plugin, page, since>> /\ click' = "none" /\ cache'.late
        /\ cache'.has = cache.has /\ cache'.installed = cache.installed /\ cache'.age = cache.age
        /\ cache' \in [has : BOOLEAN, installed : BOOLEAN, age : 0 .. TTL + 1, late : BOOLEAN]
    BY <1>5 DEF C!AnswerLost, CacheInv, CacheType
  <2> QED
    BY <2>1 DEF CacheInv, CacheType, CacheIsAsOldAsTheChange, ChangeIsMarked
<1>6. ASSUME NEW ok \in BOOLEAN, C!JobEnds(ok)
      PROVE  CacheInv'
  <2>1. /\ plugin' = [installed |-> plugin.installed \/ ok, job |-> FALSE]
        /\ UNCHANGED <<cache, page, click>> /\ plugin.job
        /\ since' = 0 \/ (plugin'.installed = plugin.installed /\ since' = since)
    BY <1>6 DEF C!JobEnds
  <2>2. plugin' \in [installed : BOOLEAN, job : BOOLEAN] /\ (plugin.installed => plugin'.installed)
    BY <2>1
  <2>3. CacheType'
    BY <1>1, <2>1, <2>2 DEF CacheInv, CacheType
  <2>4. CacheIsAsOldAsTheChange'
    <3>1. cache.age \in Nat /\ \A q \in Renders : page[q].age \in Nat
      BY <1>1 DEF CacheInv, CacheType, Page
    <3> QED
      BY <1>1, <2>1, <3>1 DEF CacheInv, CacheIsAsOldAsTheChange
  <2>5. ChangeIsMarked'
    BY <2>1, <2>2 DEF CacheInv, ChangeIsMarked
  <2> QED
    BY <2>3, <2>4, <2>5 DEF CacheInv
<1> QED
  BY <1>2, <1>3, <1>4, <1>5, <1>6

\* A tick makes the change older by what it makes the answers older.
LEMMA AgeingKeeps ==
  ASSUME CacheInv, C!Tick
  PROVE  CacheInv'
<1>1. TTL \in Nat /\ Timeout \in Nat /\ page \in [Renders -> Page]
  BY ConstantsAssumption DEF C!AgesAssumption, CacheInv, CacheType, Page
<1>2. /\ cache.age \in 0 .. TTL + 1 /\ since \in 0 .. TTL + Timeout + 1
      /\ cache' = [cache EXCEPT !.age = IF cache.age > TTL THEN cache.age ELSE cache.age + 1]
      /\ since' = IF since > TTL + Timeout THEN since ELSE since + 1
      /\ UNCHANGED <<plugin, click>>
      /\ page' = [r \in Renders |->
                    IF page[r].pc = "idle" THEN C!NoPage ELSE [page[r] EXCEPT !.age = @ + 1]]
      /\ \A r \in Renders : page[r].age < Timeout
  BY DEF CacheInv, CacheType, C!Tick
<1>4. /\ cache' \in [has : BOOLEAN, installed : BOOLEAN, age : 0 .. TTL + 1, late : BOOLEAN]
      /\ cache'.has = cache.has /\ cache'.installed = cache.installed /\ cache'.late = cache.late
      /\ cache'.age = IF cache.age > TTL THEN cache.age ELSE cache.age + 1
  BY <1>1, <1>2 DEF CacheInv, CacheType
<1>5. since' \in 0 .. TTL + Timeout + 1 /\ since' <= since + 1 /\ since' <= TTL + Timeout + 1
  BY <1>1, <1>2
<1>6. C!NoPage \in Page /\ C!NoPage.pc = "idle"
  BY <1>1 DEF C!NoPage, Page
<1>7. \A r \in Renders :
        /\ page'[r] \in Page
        /\ page'[r].pc # "idle" => page[r].pc # "idle" /\ page'[r].old = page[r].old
        /\ page'[r].pc = "answered" =>
             /\ page[r].pc = "answered" /\ page'[r].installed = page[r].installed
             /\ page'[r].old = page[r].old /\ page'[r].age = page[r].age + 1 /\ page[r].age \in Nat
  <2> SUFFICES ASSUME NEW r \in Renders
               PROVE  /\ page'[r] \in Page
                      /\ page'[r].pc # "idle" => /\ page[r].pc # "idle"
                                                 /\ page'[r].old = page[r].old
                      /\ page'[r].pc = "answered" =>
                           /\ page[r].pc = "answered" /\ page'[r].installed = page[r].installed
                           /\ page'[r].old = page[r].old /\ page'[r].age = page[r].age + 1
                           /\ page[r].age \in Nat
    OBVIOUS
  <2>1. CASE page[r].pc = "idle"
    BY <1>2, <1>6, <2>1
  <2>2. CASE page[r].pc # "idle"
    <3>1. page[r] \in Page /\ page[r].age < Timeout /\ page'[r] = [page[r] EXCEPT !.age = @ + 1]
      BY <1>1, <1>2, <2>2
    <3> QED
      BY <1>1, <3>1 DEF Page
  <2> QED
    BY <2>1, <2>2
<1>8. page' \in [Renders -> Page]
  BY <1>2, <1>7
<1>9. CacheType'
  BY <1>2, <1>4, <1>5, <1>8 DEF CacheInv, CacheType, Page
<1>10. CacheIsAsOldAsTheChange'
  <2>1. cache'.has /\ cache'.installed # plugin'.installed => since' <= cache'.age + Timeout
    BY <1>1, <1>2, <1>4, <1>5 DEF CacheInv, CacheIsAsOldAsTheChange
  <2>2. ASSUME NEW r \in Renders, page'[r].pc = "answered", page'[r].installed # plugin'.installed
        PROVE  since' <= page'[r].age
    <3>1. page[r].pc = "answered" /\ page[r].installed # plugin.installed
      BY <1>2, <1>7, <2>2
    <3>2. since <= page[r].age
      BY <3>1 DEF CacheInv, CacheIsAsOldAsTheChange
    <3>3. page'[r].age = page[r].age + 1 /\ page[r].age \in Nat
      BY <1>7, <2>2
    <3>4. since \in Nat /\ since' \in Nat
      <4>1. since \in 0 .. TTL + Timeout + 1
        BY <1>2
      <4> QED
        BY <1>1, <1>5, <4>1
    <3> QED
      BY <1>5, <3>2, <3>3, <3>4
  <2> QED
    BY <2>1, <2>2 DEF CacheIsAsOldAsTheChange
<1>11. ChangeIsMarked'
  BY <1>2, <1>4, <1>7 DEF CacheInv, ChangeIsMarked
<1> QED
  BY <1>9, <1>10, <1>11 DEF CacheInv

LEMMA CacheNext ==
  ASSUME CacheInv, [PartsNext]_<<focus, vars, accountVars, throttleVars, capsVars, loadoutVars,
                                 queryVars, fetchVars, treeVars, fileVars>>
  PROVE  CacheInv'
<1>1. CASE UNCHANGED capsVars
  BY <1>1 DEF capsVars, CacheInv, CacheType, CacheIsAsOldAsTheChange, ChangeIsMarked
<1>2. CASE C!Next
  BY <1>2, PageKeeps, ChangingKeeps, AgeingKeeps DEF C!Next
<1> QED
  BY <1>1, <1>2 DEF PartsNext

THEOREM CacheInvariance == PartsSpec => []CacheInv
<1>1. PartsInit => CacheInv
  BY CacheInit DEF PartsInit
<1> QED
  BY <1>1, CacheNext, PTL DEF PartsSpec

\* The Loadout tab follows the plugin: a cached answer is out of date for no
\* longer than capsTTL and one fetch, though its age is counted from put and not
\* from the agent's answer; and once the operator's install or uninstall is
\* answered, what is out of date comes from a fetch that was under way at the
\* removal or while the job ran, or from a lost answer.
THEOREM TabFollows == PartsSpec => []TabFollowsPlugin
<1>1. CacheInv => TabFollowsPlugin
  <2> SUFFICES ASSUME CacheInv PROVE C!StaleOnlyBriefly /\ C!ResetIsFollowed
    BY DEF TabFollowsPlugin, C!TabFollowsPlugin
  <2>1. cache.age \in Nat /\ since \in Nat /\ TTL \in Nat /\ Timeout \in Nat
    BY ConstantsAssumption DEF C!AgesAssumption, CacheInv, CacheType
  <2>2. C!StaleOnlyBriefly
    BY <2>1 DEF CacheInv, CacheIsAsOldAsTheChange, C!StaleOnlyBriefly, C!Hit
  <2>3. C!ResetIsFollowed
    BY <2>1 DEF CacheInv, ChangeIsMarked, C!ResetIsFollowed, C!Hit
  <2> QED
    BY <2>2, <2>3
<1> QED
  BY <1>1, CacheInvariance, PTL

------------------------------------------------------------------------------
(***************************************************************************)
(* Proofs: a download.                                                     *)
(***************************************************************************)

LEMMA BodyGrows ==
  ASSUME NEW r, NEW n \in Nat
  PROVE  Append(D!Body(r, n), <<r, n + 1>>) = D!Body(r, n + 1)
<1> DEFINE b == D!Body(r, n)
           c == D!Body(r, n + 1)
<1>1. b \in Seq({r} \X Nat) /\ Len(b) = n /\ \A i \in 1 .. n : b[i] = <<r, i>>
  BY DEF D!Body
<1>2. c \in Seq({r} \X Nat) /\ Len(c) = n + 1 /\ \A i \in 1 .. n + 1 : c[i] = <<r, i>>
  BY DEF D!Body
<1> HIDE DEF b, c
<1>3. Len(Append(b, <<r, n + 1>>)) = n + 1
  BY <1>1
<1>4. \A i \in 1 .. n + 1 : Append(b, <<r, n + 1>>)[i] = c[i]
  <2> SUFFICES ASSUME NEW i \in 1 .. n + 1 PROVE Append(b, <<r, n + 1>>)[i] = <<r, i>>
    BY <1>2
  <2>1. CASE i = n + 1
    BY <1>1, <2>1
  <2>2. CASE i # n + 1
    <3>1. i \in 1 .. Len(b)
      BY <1>1, <2>2
    <3>2. Append(b, <<r, n + 1>>)[i] = b[i]
      BY <1>1, <3>1
    <3> QED
      BY <1>1, <3>1, <3>2
  <2> QED
    BY <2>1, <2>2
<1>5. Append(b, <<r, n + 1>>) \in Seq({r} \X Nat)
  BY <1>1
<1> QED
  BY <1>2, <1>3, <1>4, <1>5 DEF b, c

LEMMA BodyStarts == \A r : D!Body(r, 0) = << >>
BY DEF D!Body

LEMMA FetchConstants ==
  /\ Urls \in Nat /\ 1 <= Urls /\ FetchAttempts \in Nat /\ 1 <= FetchAttempts
  /\ Sizes \subseteq Nat /\ Cap \in Nat
BY ConstantsAssumption DEF D!FetchAssumption

\* Attempts are numbered from one to the last of the last mirror.
LEMMA AttemptsAreNumbered ==
  ASSUME url \in 1 .. Urls, attempt \in 1 .. FetchAttempts
  PROVE  D!This \in 1 .. Urls * FetchAttempts
<1>1. \A a, b, c \in Nat : a <= b => a * c <= b * c
  OBVIOUS
<1>2. url * FetchAttempts <= Urls * FetchAttempts
  BY <1>1, FetchConstants
<1>3. (url - 1) * FetchAttempts + FetchAttempts = url * FetchAttempts
  BY FetchConstants
<1>4. (url - 1) * FetchAttempts \in Nat
  BY FetchConstants
<1> QED
  BY <1>2, <1>3, <1>4, FetchConstants DEF D!This

LEMMA FetchInit ==
  ASSUME D!Init
  PROVE  FetchInv
<1>1. /\ at = "ask" /\ url \in 1 .. Urls /\ attempt \in 1 .. FetchAttempts
      /\ size \in Nat /\ sent \in 0 .. size
  BY FetchConstants DEF D!Init
<1>2. FetchType
  BY <1>1 DEF D!Init, FetchType
<1> QED
  BY <1>1, <1>2 DEF D!Init, FetchInv, FileIsThisBody, OkIsComplete, OnlyFaultsFail

\* An attempt that has failed is made again, or the next mirror is asked.
LEMMA FailingGoesOn ==
  ASSUME FetchType, NEW retryable \in BOOLEAN, D!Fails(retryable)
  PROVE  /\ url' \in 1 .. Urls /\ attempt' \in 1 .. FetchAttempts
         /\ at' \in {"wait", "ask", "failed"}
         /\ at' = "wait" => attempt' < FetchAttempts
         /\ retryable /\ ~cancelled /\ attempt < FetchAttempts => at' = "wait"
BY FetchConstants DEF D!Fails, D!NextUrl, FetchType

LEMMA AskFailsKeeps ==
  ASSUME FetchInv, D!AskFails
  PROVE  FetchInv'
<1>1. UNCHANGED <<file, sent, declared, cancelled, size, path>>
  BY DEF D!AskFails
<1>2. D!Fails(TRUE) \/ D!Fails(FALSE)
  BY DEF D!AskFails
<1>3. /\ url' \in 1 .. Urls /\ attempt' \in 1 .. FetchAttempts
      /\ at' \in {"wait", "ask", "failed"}
      /\ at' = "wait" => attempt' < FetchAttempts
  BY <1>2, FailingGoesOn DEF FetchInv
<1>4. faults' = {} => faults = {} /\ at' = "wait"
  <2> SUFFICES ASSUME faults' = {}
               PROVE  faults = {} /\ at' = "wait"
    OBVIOUS
  <2>1. faults = {} /\ ((path = "breaks" /\ ~D!Http11 /\ D!Fails(TRUE)) \/ cancelled)
    BY DEF D!AskFails, D!Fault
  <2>2. ~cancelled
    BY <2>1 DEF FetchInv, OnlyFaultsFail
  <2>3. attempt < FetchAttempts
    <3>1. attempt # FetchAttempts /\ attempt \in 1 .. FetchAttempts
      BY <2>1, <2>2 DEF D!Http11, FetchInv, FetchType
    <3> QED
      BY <3>1, FetchConstants
  <2> QED
    BY <2>1, <2>2, <2>3, FailingGoesOn DEF FetchInv
<1>5. FetchType'
  BY <1>1, <1>3 DEF FetchInv, FetchType
<1> QED
  BY <1>1, <1>3, <1>4, <1>5 DEF FetchInv, FileIsThisBody, OkIsComplete, OnlyFaultsFail

\* The file is started over, and grows by what this attempt sends.
LEMMA CopyingKeeps ==
  ASSUME FetchInv, D!AskAnswered \/ D!Chunk
  PROVE  FetchInv'
<1>1. CASE D!AskAnswered
  <2>1. /\ at' = "copy" /\ sent' = 0 /\ declared' \in BOOLEAN /\ file' = << >>
        /\ UNCHANGED <<url, attempt, cancelled, size, path, faults>>
    BY <1>1 DEF D!AskAnswered
  <2>2. FetchType'
    BY <2>1 DEF FetchInv, FetchType
  <2>3. FileIsThisBody'
    BY <2>1, BodyStarts DEF FileIsThisBody
  <2> QED
    BY <2>1, <2>2, <2>3 DEF FetchInv, OkIsComplete, OnlyFaultsFail
<1>2. CASE D!Chunk
  <2>1. /\ at = "copy" /\ sent < size /\ sent' = sent + 1
        /\ file' = Append(file, <<D!This, sent + 1>>)
        /\ UNCHANGED <<at, url, attempt, declared, cancelled, size, path, faults>>
    BY <1>2 DEF D!Chunk
  <2>2. FetchType'
    BY <2>1 DEF FetchInv, FetchType
  <2>3. sent \in Nat /\ D!This' = D!This
    BY <2>1 DEF FetchInv, FetchType, D!This
  <2>4. FileIsThisBody'
    BY <2>1, <2>3, BodyGrows DEF FetchInv, FileIsThisBody
  <2> QED
    BY <2>1, <2>2, <2>4 DEF FetchInv, OkIsComplete, OnlyFaultsFail
<1> QED
  BY <1>1, <1>2

\* The body has ended: complete if nothing was cut, and else a fault.
LEMMA CopyEndsKeeps ==
  ASSUME FetchInv, D!CopyEnds
  PROVE  FetchInv'
<1>1. /\ at = "copy" /\ UNCHANGED <<file, sent, declared, cancelled, size, path>>
      /\ faults \subseteq faults'
  BY DEF D!CopyEnds
<1>2. CASE sent > Cap \/ (declared /\ sent # size)
  <2>1. D!Fails(TRUE)
    BY <1>2 DEF D!CopyEnds
  <2>2. faults' # {}
    BY <1>2, FetchConstants DEF D!CopyEnds, FetchInv, FetchType
  <2>3. FetchType' /\ at' \in {"wait", "ask", "failed"} /\ (at' = "wait" => attempt' < FetchAttempts)
    BY <1>1, <2>1, FailingGoesOn DEF FetchInv, FetchType
  <2> QED
    BY <2>2, <2>3 DEF FetchInv, FileIsThisBody, OkIsComplete, OnlyFaultsFail
<1>3. CASE ~(sent > Cap \/ (declared /\ sent # size))
  <2>1. at' = "ok" /\ UNCHANGED <<url, attempt>>
    BY <1>3 DEF D!CopyEnds
  <2>2. FetchType'
    BY <1>1, <2>1 DEF FetchInv, FetchType
  <2>3. FileIsThisBody'
    BY <1>1, <2>1 DEF FetchInv, FileIsThisBody, D!This
  <2> QED
    BY <1>1, <1>3, <2>1, <2>2, <2>3 DEF FetchInv, OkIsComplete, OnlyFaultsFail
<1> QED
  BY <1>2, <1>3

LEMMA CopyFailsKeeps ==
  ASSUME FetchInv, D!CopyFails
  PROVE  FetchInv'
<1>1. /\ UNCHANGED <<file, sent, declared, cancelled, size, path>>
      /\ D!Fails(TRUE) \/ D!Fails(FALSE)
      /\ faults' # {} \/ (cancelled /\ faults' = faults)
  BY DEF D!CopyFails, D!Fault
<1>2. /\ url' \in 1 .. Urls /\ attempt' \in 1 .. FetchAttempts
      /\ at' \in {"wait", "ask", "failed"}
      /\ at' = "wait" => attempt' < FetchAttempts
  BY <1>1, FailingGoesOn DEF FetchInv
<1>3. FetchType'
  BY <1>1, <1>2 DEF FetchInv, FetchType
<1> QED
  BY <1>1, <1>2, <1>3 DEF FetchInv, FileIsThisBody, OkIsComplete, OnlyFaultsFail

LEMMA AgainKeeps ==
  ASSUME FetchInv, D!Again
  PROVE  FetchInv'
<1>1. at = "wait" /\ UNCHANGED <<file, sent, declared, cancelled, size, path, faults>>
  BY DEF D!Again
<1>2. CASE cancelled
  <2>1. D!NextUrl /\ faults # {}
    BY <1>2 DEF D!Again, FetchInv, OnlyFaultsFail
  <2>2. url' \in 1 .. Urls /\ attempt' \in 1 .. FetchAttempts /\ at' \in {"ask", "failed"}
    BY <2>1, FetchConstants DEF D!NextUrl, FetchInv, FetchType
  <2>3. FetchType'
    BY <1>1, <2>2 DEF FetchInv, FetchType
  <2> QED
    BY <1>1, <2>1, <2>2, <2>3 DEF FetchInv, FileIsThisBody, OkIsComplete, OnlyFaultsFail
<1>3. CASE ~cancelled
  <2>1. at' = "ask" /\ attempt' = attempt + 1 /\ UNCHANGED url
    BY <1>3 DEF D!Again
  <2>2. attempt < FetchAttempts
    BY <1>1 DEF FetchInv, OnlyFaultsFail
  <2>3. FetchType'
    BY <1>1, <2>1, <2>2, FetchConstants DEF FetchInv, FetchType
  <2> QED
    BY <1>1, <2>1, <2>3 DEF FetchInv, FileIsThisBody, OkIsComplete, OnlyFaultsFail
<1> QED
  BY <1>2, <1>3

LEMMA CancelKeeps ==
  ASSUME FetchInv, D!Cancel
  PROVE  FetchInv'
<1>1. /\ cancelled' = TRUE /\ at \notin {"ok", "failed"} /\ faults' # {}
      /\ UNCHANGED <<at, url, attempt, file, sent, declared, size, path>>
  BY DEF D!Cancel, D!Fault
<1>2. FetchType'
  BY <1>1 DEF FetchInv, FetchType
<1> QED
  BY <1>1, <1>2 DEF FetchInv, FileIsThisBody, OkIsComplete, OnlyFaultsFail, D!This

LEMMA FetchNext ==
  ASSUME FetchInv, [PartsNext]_<<focus, vars, accountVars, throttleVars, capsVars, loadoutVars,
                                 queryVars, fetchVars, treeVars, fileVars>>
  PROVE  FetchInv'
<1>1. CASE UNCHANGED fetchVars
  BY <1>1 DEF fetchVars, FetchInv, FetchType, FileIsThisBody, OkIsComplete, OnlyFaultsFail, D!This
<1>2. CASE D!Next
  BY <1>2, AskFailsKeeps, CopyingKeeps, CopyEndsKeeps, CopyFailsKeeps, AgainKeeps, CancelKeeps
     DEF D!Next
<1> QED
  BY <1>1, <1>2 DEF PartsNext

THEOREM FetchInvariance == PartsSpec => []FetchInv
<1>1. PartsInit => FetchInv
  BY FetchInit DEF PartsInit
<1> QED
  BY <1>1, FetchNext, PTL DEF PartsSpec

\* What a download leaves is one complete body, however many attempts at however
\* many mirrors it took: a retry starts the file over, and the length the server
\* declared is kept.  And a path that breaks HTTP/2 alone never fails it, for the
\* last attempt at a mirror makes no use of it.
THEOREM DownloadsAreWhole == PartsSpec => []DownloadIsWhole
<1>1. FetchInv => DownloadIsWhole
  <2> SUFFICES ASSUME FetchInv PROVE D!FileIsOneBody /\ D!PathIsSurvived
    BY DEF DownloadIsWhole, D!DownloadIsWhole
  <2>1. at = "ok" => file = D!Body(D!This, sent) /\ (sent = size \/ ~declared)
    BY DEF FetchInv, FileIsThisBody, OkIsComplete
  <2>2. D!This \in 1 .. Urls * FetchAttempts /\ sent \in 0 .. size
    BY AttemptsAreNumbered DEF FetchInv, FetchType
  <2>3. D!FileIsOneBody
    BY <2>1, <2>2 DEF D!FileIsOneBody
  <2>4. D!PathIsSurvived
    BY DEF FetchInv, OnlyFaultsFail, D!PathIsSurvived
  <2> QED
    BY <2>3, <2>4
<1> QED
  BY <1>1, FetchInvariance, PTL

------------------------------------------------------------------------------
(***************************************************************************)
(* Proofs: the writing of one file.                                        *)
(***************************************************************************)

LEMMA VersionsAre ==
  \A w \in Writers : w # W!Partial /\ w # W!Missing.data
BY ConstantsAssumption DEF W!WritersAssumption

LEMMA RecordsAre ==
  /\ W!Missing \in File /\ W!NoTemp \in File
  /\ {"private", "public"} \subseteq W!Modes /\ {"game", "root"} \subseteq W!Owners
BY DEF W!Missing, W!NoTemp, File, W!Modes, W!Owners, W!Partial

FileSteps == {"stat", "create", "write", "chmod", "chown", "rename", "mode", "done", "failed"}

\* A writer goes on; the others stay where they are.
LEMMA WriterGoes ==
  ASSUME step \in [Writers -> FileSteps], NEW w \in Writers, NEW s \in FileSteps,
         step' = [step EXCEPT ![w] = s]
  PROVE  /\ step' \in [Writers -> FileSteps] /\ step'[w] = s
         /\ \A v \in Writers : v # w => step'[v] = step[v]
<1> HIDE DEF FileSteps
<1> QED
  OBVIOUS

\* What becomes of its temporary file.
LEMMA TempIs ==
  ASSUME temp \in [Writers -> File], NEW w \in Writers, NEW f \in File,
         temp' = [temp EXCEPT ![w] = f]
  PROVE  /\ temp' \in [Writers -> File] /\ temp'[w] = f
         /\ \A v \in Writers : v # w => temp'[v] = temp[v]
<1> HIDE DEF File
<1> QED
  OBVIOUS

LEMMA FileInit ==
  ASSUME W!Init
  PROVE  FileInv
<1>1. target \in File
  BY RecordsAre DEF W!Init, File
<1>2. FileType
  BY <1>1, RecordsAre DEF W!Init, FileType
<1>3. TempIsWhole /\ PrivateIsTheGames
  BY DEF W!Init, TempIsWhole, PrivateIsTheGames
<1>4. target.data = W!Old \/ target = W!Missing
  BY DEF W!Init
<1>5. TargetIsAVersion
  BY <1>4 DEF TargetIsAVersion, W!Exists, W!Old, W!Missing
<1>6. W!GameReadsTheFile
  BY <1>4 DEF W!Init, W!GameReadsTheFile, W!Exists, W!Old, W!Partial
<1> QED
  BY <1>2, <1>3, <1>5, <1>6 DEF FileInv

\* Up to the rename a writer touches nothing but its own.
LEMMA PreparingKeeps ==
  ASSUME FileInv, NEW w \in Writers,
         W!Stat(w) \/ W!Create(w) \/ W!Write(w) \/ W!Chmod(w) \/ W!Chown(w)
  PROVE  FileInv'
<1>1. UNCHANGED <<target, keep>> /\ FileType
  BY DEF W!Stat, W!Create, W!Write, W!Chmod, W!Chown, FileInv
<1>2. step \in [Writers -> FileSteps] /\ temp \in [Writers -> File] /\ perm \in [Writers -> W!Modes]
  BY <1>1 DEF FileType, FileSteps
<1>3. W!Inherited' = W!Inherited /\ W!Exists' = W!Exists
  BY <1>1 DEF W!Inherited, W!Exists
<1>4. TargetIsAVersion' /\ (spoiled' = spoiled => W!GameReadsTheFile')
  BY <1>1, <1>3 DEF FileInv, TargetIsAVersion, W!GameReadsTheFile
<1>5. CASE W!Stat(w)
  <2>1. PICK m \in W!Modes : /\ perm' = [perm EXCEPT ![w] = m]
                             /\ m = "public" \/ (m = target.mode /\ W!Exists)
    BY <1>1, <1>5, RecordsAre DEF W!Stat, FileType, File
  <2>2. /\ step' = [step EXCEPT ![w] = "create"] /\ UNCHANGED <<temp, spoiled>> /\ "create" \in FileSteps
    BY <1>5 DEF W!Stat, FileSteps
  <2>3. perm' \in [Writers -> W!Modes] /\ perm'[w] = m /\ \A v \in Writers : v # w => perm'[v] = perm[v]
    BY <1>2, <2>1
  <2>4. m = "private" /\ ~spoiled => W!Inherited = "game"
    BY <2>1, RecordsAre DEF FileInv, W!GameReadsTheFile, W!Inherited
  <2>5. FileType'
    BY <1>1, <1>2, <2>2, <2>3, WriterGoes DEF FileType, FileSteps
  <2>6. TempIsWhole'
    BY <1>2, <1>3, <2>2, <2>3, WriterGoes DEF FileInv, TempIsWhole
  <2>7. PrivateIsTheGames'
    BY <1>2, <1>3, <2>2, <2>3, <2>4, WriterGoes DEF FileInv, PrivateIsTheGames
  <2> QED
    BY <1>4, <2>2, <2>5, <2>6, <2>7 DEF FileInv
<1>6. CASE W!Create(w) \/ W!Write(w) \/ W!Chmod(w)
  <2>1. PICK s \in FileSteps, f \in File :
          /\ step' = [step EXCEPT ![w] = s] /\ temp' = [temp EXCEPT ![w] = f]
          /\ \/ s = "failed"
             \/ s = "write" /\ step[w] = "create"
             \/ s = "chmod" /\ step[w] = "write" /\ f.data = w
             \/ s = "chown" /\ step[w] = "chmod" /\ f.data = temp[w].data /\ f.mode = perm[w]
    <3>1. temp = [temp EXCEPT ![w] = temp[w]] /\ temp[w] \in File /\ {"failed", "write", "chmod", "chown"} \subseteq FileSteps
      BY <1>2 DEF FileSteps
    <3>2. CASE W!Create(w)
      BY <3>1, <3>2, RecordsAre DEF W!Create
    <3>3. CASE W!Write(w)
      <4> DEFINE f == [temp[w] EXCEPT !.data = w]
      <4>1. f \in File /\ f.data = w
        BY <3>1 DEF File
      <4>2. temp' = [temp EXCEPT ![w] = f] \/ temp' = temp
        BY <1>2, <3>3 DEF W!Write
      <4> QED
        BY <3>1, <3>3, <4>1, <4>2 DEF W!Write
    <3>4. CASE W!Chmod(w)
      <4> DEFINE f == [temp[w] EXCEPT !.mode = perm[w]]
      <4>1. f \in File /\ f.data = temp[w].data /\ f.mode = perm[w]
        BY <1>2, <3>1 DEF File
      <4>2. temp' = [temp EXCEPT ![w] = f]
        BY <1>2, <3>4 DEF W!Chmod
      <4> QED
        BY <3>1, <3>4, <4>1, <4>2 DEF W!Chmod
    <3> QED
      BY <1>6, <3>2, <3>3, <3>4
  <2>2. UNCHANGED <<perm, spoiled>>
    BY <1>6 DEF W!Create, W!Write, W!Chmod
  <2>3. FileType'
    BY <1>1, <1>2, <2>1, <2>2, WriterGoes, TempIs DEF FileType, FileSteps
  <2>4. /\ step'[w] = s /\ temp'[w] = f
        /\ \A v \in Writers : v # w => step'[v] = step[v] /\ temp'[v] = temp[v]
    BY <1>2, <2>1, WriterGoes, TempIs
  <2>5. TempIsWhole'
    BY <1>3, <2>1, <2>2, <2>4 DEF FileInv, TempIsWhole
  <2>6. PrivateIsTheGames'
    BY <1>3, <2>1, <2>2, <2>4 DEF FileInv, PrivateIsTheGames, W!Resting
  <2> QED
    BY <1>4, <2>2, <2>3, <2>5, <2>6 DEF FileInv
<1>7. CASE W!Chown(w)
  <2>1. PICK f \in File :
          /\ temp' = [temp EXCEPT ![w] = f] /\ f.data = temp[w].data /\ f.mode = temp[w].mode
          /\ \/ f.owner = W!Inherited /\ spoiled' = spoiled
             \/ spoiled' = TRUE
    <3> DEFINE f == [temp[w] EXCEPT !.owner = W!Inherited]
    <3>1. W!Inherited \in W!Owners
      BY <1>1, RecordsAre DEF W!Inherited, FileType, File
    <3>2. f \in File /\ f.owner = W!Inherited /\ f.data = temp[w].data /\ f.mode = temp[w].mode
      BY <1>2, <3>1 DEF File
    <3>3. temp[w] \in File /\ temp = [temp EXCEPT ![w] = temp[w]]
      BY <1>2
    <3>4. CASE temp' = [temp EXCEPT ![w].owner = W!Inherited] /\ UNCHANGED spoiled
      <4>1. temp' = [temp EXCEPT ![w] = f]
        BY <1>2, <3>4
      <4> QED
        BY <3>2, <3>4, <4>1
    <3>5. CASE spoiled' = TRUE /\ UNCHANGED temp
      BY <3>3, <3>5
    <3> QED
      BY <1>7, <3>4, <3>5 DEF W!Chown
  <2>2. /\ step' = [step EXCEPT ![w] = "rename"] /\ UNCHANGED perm /\ step[w] = "chown"
        /\ "rename" \in FileSteps
    BY <1>7 DEF W!Chown, FileSteps
  <2>3. /\ step'[w] = "rename" /\ temp'[w] = f
        /\ \A v \in Writers : v # w => step'[v] = step[v] /\ temp'[v] = temp[v]
    BY <1>2, <2>1, <2>2, WriterGoes, TempIs
  <2>4. FileType'
    BY <1>1, <1>2, <2>1, <2>2, WriterGoes, TempIs DEF FileType, FileSteps
  <2>5. TempIsWhole'
    BY <1>3, <2>1, <2>2, <2>3 DEF FileInv, TempIsWhole
  <2>6. PrivateIsTheGames'
    BY <1>3, <2>1, <2>2, <2>3 DEF FileInv, PrivateIsTheGames, W!Resting
  <2>7. W!GameReadsTheFile'
    BY <1>1, <1>3, <2>1 DEF FileInv, W!GameReadsTheFile
  <2> QED
    BY <1>4, <2>4, <2>5, <2>6, <2>7 DEF FileInv
<1> QED
  BY <1>5, <1>6, <1>7

\* The rename shows a whole file with the access it will have; the owner stays.
LEMMA RenameKeeps ==
  ASSUME FileInv, NEW w \in Writers, W!Rename(w)
  PROVE  FileInv'
<1>1. /\ step[w] = "rename" /\ UNCHANGED <<keep, perm, temp, spoiled>>
      /\ step \in [Writers -> FileSteps] /\ temp \in [Writers -> File] /\ FileType
  BY DEF W!Rename, FileInv, FileType, FileSteps
<1>2. CASE target' = temp[w] /\ step' = [step EXCEPT ![w] = "mode"]
  <2>1. /\ step' \in [Writers -> FileSteps] /\ step'[w] = "mode"
        /\ \A v \in Writers : v # w => step'[v] = step[v]
    BY <1>1, <1>2, WriterGoes DEF FileSteps
  <2>2. target'.data = w /\ target'.mode = perm[w] /\ (~spoiled => target'.owner = W!Inherited)
    BY <1>1, <1>2 DEF FileInv, TempIsWhole
  <2>3. W!Exists' /\ target'.data # W!Partial /\ target'.data # W!Missing.data
    BY <2>2, VersionsAre DEF W!Exists
  <2>4. W!Inherited' = target'.owner
    BY <2>3 DEF W!Inherited, W!Exists
  <2>5. FileType'
    BY <1>1, <1>2, <2>1 DEF FileType, FileSteps
  <2>6. TempIsWhole'
    BY <1>1, <2>1, <2>2, <2>3, <2>4 DEF FileInv, TempIsWhole
  <2>7. PrivateIsTheGames'
    BY <1>1, <2>1, <2>2, <2>4 DEF FileInv, PrivateIsTheGames, W!Resting
  <2>8. W!GameReadsTheFile'
    <3>1. perm[w] = "private" \/ perm[w] = "public"
      BY <1>1 DEF FileType, W!Modes
    <3> QED
      BY <1>1, <2>2, <2>3, <3>1 DEF FileInv, PrivateIsTheGames, W!GameReadsTheFile, W!Resting
  <2> QED
    BY <2>3, <2>5, <2>6, <2>7, <2>8 DEF FileInv, TargetIsAVersion
<1>3. CASE step' = [step EXCEPT ![w] = "failed"] /\ UNCHANGED target
  <2>1. /\ step' \in [Writers -> FileSteps] /\ step'[w] = "failed"
        /\ \A v \in Writers : v # w => step'[v] = step[v]
    BY <1>1, <1>3, WriterGoes DEF FileSteps
  <2>2. W!Inherited' = W!Inherited /\ W!Exists' = W!Exists
    BY <1>3 DEF W!Inherited, W!Exists
  <2>3. FileType'
    BY <1>1, <1>3, <2>1 DEF FileType, FileSteps
  <2> QED
    BY <1>1, <1>3, <2>1, <2>2, <2>3
       DEF FileInv, TempIsWhole, PrivateIsTheGames, TargetIsAVersion, W!GameReadsTheFile, W!Resting
<1> QED
  BY <1>2, <1>3 DEF W!Rename

\* The mode once more: a private one falls on a file of the game's.
LEMMA ModeAgainKeeps ==
  ASSUME FileInv, NEW w \in Writers, W!ModeAgain(w)
  PROVE  FileInv'
<1>1. /\ step[w] = "mode" /\ UNCHANGED <<keep, perm, temp, spoiled>>
      /\ step' = [step EXCEPT ![w] = "done"]
      /\ step \in [Writers -> FileSteps] /\ FileType
      /\ target' = [target EXCEPT !.mode = perm[w]]
  BY DEF W!ModeAgain, FileInv, FileType, FileSteps
<1>2. /\ step' \in [Writers -> FileSteps] /\ step'[w] = "done"
      /\ \A v \in Writers : v # w => step'[v] = step[v]
  BY <1>1, WriterGoes DEF FileSteps
<1>3. /\ target' \in File /\ target'.mode = perm[w]
      /\ target'.data = target.data /\ target'.owner = target.owner
  BY <1>1 DEF FileType, File
<1>4. W!Exists /\ target.data # W!Missing.data
  BY <1>1 DEF FileInv, TempIsWhole, TargetIsAVersion
<1>5. W!Exists' /\ W!Inherited' = W!Inherited
  BY <1>3, <1>4 DEF W!Exists, W!Inherited
<1>6. FileType'
  BY <1>1, <1>2, <1>3 DEF FileType, FileSteps
<1>7. TempIsWhole' /\ PrivateIsTheGames' /\ TargetIsAVersion'
  BY <1>1, <1>2, <1>3, <1>4, <1>5
     DEF FileInv, TempIsWhole, PrivateIsTheGames, TargetIsAVersion, W!Resting
<1>8. W!GameReadsTheFile'
  <2>1. perm[w] = "private" \/ perm[w] = "public"
    BY <1>1 DEF FileType, W!Modes
  <2> QED
    BY <1>1, <1>3, <1>4, <2>1
       DEF FileInv, PrivateIsTheGames, W!GameReadsTheFile, W!Resting, W!Inherited
<1> QED
  BY <1>6, <1>7, <1>8 DEF FileInv

\* An operator changes the file's access, or the agent dies.
LEMMA MeddlingKeeps ==
  ASSUME FileInv, W!Meddle \/ W!Die
  PROVE  FileInv'
<1>1. FileType /\ step \in [Writers -> FileSteps]
  BY DEF FileInv, FileType, FileSteps
<1>2. CASE W!Meddle
  <2>1. PICK m \in W!Modes, o \in W!Owners :
          /\ o = "game" \/ m = "public"
          /\ target' = [target EXCEPT !.mode = m, !.owner = o]
    BY <1>2 DEF W!Meddle
  <2>2. /\ target' \in File /\ target'.mode = m /\ target'.owner = o /\ target'.data = target.data
    BY <1>1, <2>1 DEF FileType, File
  <2>3. /\ UNCHANGED <<step, keep, perm, temp>> /\ W!Exists
        /\ spoiled' \in BOOLEAN
    BY <1>2 DEF W!Meddle
  <2>4. spoiled' \/ \A w \in Writers : step[w] \in W!Resting
    BY <1>2 DEF W!Meddle
  <2>5. W!Exists' /\ target'.data # W!Missing.data
    BY <2>2, <2>3 DEF FileInv, TargetIsAVersion, W!Exists
  <2>6. FileType'
    BY <1>1, <2>2, <2>3 DEF FileType
  <2>7. TempIsWhole' /\ PrivateIsTheGames'
    BY <2>3, <2>4, <2>5 DEF FileInv, TempIsWhole, PrivateIsTheGames, W!Resting
  <2>8. W!GameReadsTheFile'
    BY <2>1, <2>2, <2>3 DEF FileInv, W!GameReadsTheFile
  <2> QED
    BY <2>5, <2>6, <2>7, <2>8 DEF FileInv, TargetIsAVersion
<1>3. CASE W!Die
  <2>1. /\ step' = [w \in Writers |-> IF step[w] \in W!Resting THEN step[w] ELSE "failed"]
        /\ UNCHANGED <<target, keep, perm, temp, spoiled>>
    BY <1>3 DEF W!Die
  <2>2. /\ step' \in [Writers -> FileSteps] /\ \A w \in Writers : step'[w] \in W!Resting
    BY <1>1, <2>1 DEF W!Resting, FileSteps
  <2>3. FileType'
    BY <1>1, <2>1, <2>2 DEF FileType, FileSteps
  <2>4. TempIsWhole' /\ PrivateIsTheGames'
    BY <2>2 DEF TempIsWhole, PrivateIsTheGames, W!Resting
  <2> QED
    BY <2>1, <2>3, <2>4 DEF FileInv, TargetIsAVersion, W!GameReadsTheFile, W!Exists
<1> QED
  BY <1>2, <1>3

LEMMA FileNext ==
  ASSUME FileInv, [PartsNext]_<<focus, vars, accountVars, throttleVars, capsVars, loadoutVars,
                                queryVars, fetchVars, treeVars, fileVars>>
  PROVE  FileInv'
<1>1. CASE UNCHANGED fileVars
  BY <1>1 DEF fileVars, FileInv, FileType, TempIsWhole, TargetIsAVersion, PrivateIsTheGames,
     W!GameReadsTheFile, W!Inherited, W!Exists
<1>2. CASE W!Next
  BY <1>2, PreparingKeeps, RenameKeeps, ModeAgainKeeps, MeddlingKeeps DEF W!Next
<1> QED
  BY <1>1, <1>2 DEF PartsNext

\* At every moment, also when the agent has died, what is at the path is one
\* whole version that the game may read: the access is right before the rename,
\* for any number of writers of the one file.
THEOREM GameReads == PartsSpec => []GameReadsTheFile
<1>1. PartsInit => FileInv
  BY FileInit DEF PartsInit
<1>2. FileInv => GameReadsTheFile
  BY DEF FileInv, GameReadsTheFile
<1> QED
  BY <1>1, <1>2, FileNext, PTL DEF PartsSpec

------------------------------------------------------------------------------
(***************************************************************************)
(* Proofs: the sign-in throttle.  The wrong passwords of a key fall into   *)
(* stretches, one for each time its count began anew; between two of them  *)
(* lies more than a Window.  Of the last stretch the entry has the count,  *)
(* and who is in flight may still add to it.                               *)
(***************************************************************************)

MostGuesses == Threshold + MaxInFlight - 1

\* The wrong passwords at the times w are in order, and never too many within a
\* Window.
Bounded(w) ==
    \A i, j \in DOMAIN w : i <= j =>
        /\ w[i] <= w[j]
        /\ w[j] <= w[i] + Window => j - i < MostGuesses

\* The last c of them are more than a Window after the others; with none of
\* them, so is the present.
Apart(w, c, tick) ==
    /\ c \in 0 .. Len(w)
    /\ \A i \in DOMAIN w : w[i] <= tick
    /\ \A i \in DOMAIN w : i <= Len(w) - c =>
         /\ c = 0 => w[i] + Window < tick
         /\ \A j \in DOMAIN w : j > Len(w) - c => w[i] + Window < w[j]

\* The count that the next wrong password adds to.
CountOf(st, tick) == IF st.until # T!Never /\ tick > st.until THEN 0 ELSE st.count

\* An entry st of a key with the wrong passwords w.
Tracks(st, w) ==
    /\ st.count # 0 => \A i \in DOMAIN w : w[i] <= st.seen
    /\ st.until # T!Never <=> st.count >= Threshold
    /\ st.until # T!Never => st.until = st.seen + Window

\* Of one key with the wrong passwords w, the entry st and n sign-ins in flight.
KeyInv(w, st, n, tick) ==
    /\ Bounded(w)
    /\ Apart(w, CountOf(st, tick), tick)
    /\ Tracks(st, w)
    /\ CountOf(st, tick) + n <= MostGuesses

OnKey(k) == {s \in T!SignIns : hashing[s] # T!Nobody /\ k \in T!keysFor(hashing[s])}

Entry == [count : Nat, until : Nat, seen : Nat]

\* A key without an entry is one with nothing in it.
Untracked == [count |-> 0, until |-> T!Never, seen |-> 0]
EntryOf(k) == IF k \in DOMAIN fail THEN fail[k] ELSE Untracked

ThrottleType ==
    /\ clock \in Nat \ {0}
    /\ fail = [k \in DOMAIN fail |-> fail[k]]
    /\ \A k \in DOMAIN fail : k \in T!Keys /\ fail[k] \in Entry /\ fail[k].count # 0
    /\ hashing \in [T!SignIns -> T!Attempts \union {T!Nobody}]
    /\ wrong \in [T!Keys -> Seq(Nat)]

ThrottleInv ==
    /\ ThrottleType
    /\ \A k \in T!Keys :
         KeyInv(wrong[k], EntryOf(k), Cardinality(OnKey(k)), clock)

LEMMA Numbers ==
    /\ Threshold \in Nat \ {0} /\ MaxInFlight \in Nat \ {0} /\ MaxTime \in Nat \ {0}
    /\ Window \in Nat /\ Forgotten \in Nat /\ Window <= Forgotten
    /\ MostGuesses \in Nat \ {0} /\ MaxInFlight <= MostGuesses /\ Threshold <= MostGuesses
<1>1. /\ Threshold \in Nat \ {0} /\ MaxInFlight \in Nat \ {0} /\ MaxTime \in Nat \ {0}
      /\ Window \in Nat /\ Forgotten \in Nat /\ Window <= Forgotten
  BY ConstantsAssumption DEF T!ThrottleAssumption
<1>2. \A a, b \in Nat \ {0} : a + b - 1 \in Nat \ {0} /\ b <= a + b - 1 /\ a <= a + b - 1
  OBVIOUS
<1> QED BY <1>1, <1>2 DEF MostGuesses

\* One more wrong password, now, when fewer than the most are counted.
LEMMA GuessCounts ==
    ASSUME NEW w \in Seq(Nat), NEW c, NEW tick \in Nat, Bounded(w), Apart(w, c, tick),
           c + 1 <= MostGuesses
    PROVE  /\ Append(w, tick) \in Seq(Nat)
           /\ Bounded(Append(w, tick)) /\ Apart(Append(w, tick), c + 1, tick)
           /\ \A i \in DOMAIN Append(w, tick) : Append(w, tick)[i] <= tick
<1> DEFINE v == Append(w, tick)
           n == Len(w)
<1>1. /\ v \in Seq(Nat) /\ n \in Nat /\ Len(v) = n + 1 /\ DOMAIN v = 1 .. n + 1
      /\ DOMAIN w = 1 .. n /\ v[n + 1] = tick /\ c \in 0 .. n
      /\ \A i \in 1 .. n : v[i] = w[i] /\ w[i] \in Nat /\ w[i] <= tick
  BY DEF Apart
<1> HIDE DEF v, n
<1>2. Window \in Nat /\ MostGuesses \in Nat \ {0}
  BY Numbers
<1>3. \A i \in 1 .. n : i <= n - c => w[i] + Window < tick
  <2> SUFFICES ASSUME NEW i \in 1 .. n, i <= n - c PROVE w[i] + Window < tick
    OBVIOUS
  <2>1. CASE c = 0
    BY <1>1, <2>1 DEF Apart, n
  <2>2. CASE c # 0
    <3>1. n \in 1 .. n /\ n > n - c
      BY <1>1, <2>2
    <3>2. w[i] + Window < w[n]
      BY <1>1, <3>1 DEF Apart, n
    <3> QED BY <1>1, <1>2, <3>1, <3>2
  <2> QED BY <2>1, <2>2
<1>4. Bounded(v)
  <2> SUFFICES ASSUME NEW i \in DOMAIN v, NEW j \in DOMAIN v, i <= j
               PROVE  v[i] <= v[j] /\ (v[j] <= v[i] + Window => j - i < MostGuesses)
    BY DEF Bounded
  <2>1. CASE j <= n
    <3>1. i \in DOMAIN w /\ j \in DOMAIN w /\ v[i] = w[i] /\ v[j] = w[j]
      BY <1>1, <2>1
    <3> QED BY <3>1 DEF Bounded
  <2>2. CASE j = n + 1 /\ i = n + 1
    BY <1>1, <1>2, <2>2
  <2>3. CASE j = n + 1 /\ i <= n
    <3>1. v[i] = w[i] /\ v[j] = tick /\ i \in 1 .. n /\ w[i] \in Nat /\ w[i] <= tick
      BY <1>1, <2>3
    <3>2. CASE i <= n - c
      BY <1>2, <1>3, <3>1, <3>2
    <3>3. CASE i > n - c
      <4>1. j - i < c + 1
        BY <1>1, <2>3, <3>1, <3>3
      <4> QED BY <1>1, <1>2, <2>3, <3>1, <4>1
    <3> QED BY <1>1, <3>1, <3>2, <3>3
  <2> QED BY <1>1, <2>1, <2>2, <2>3
<1>5. Apart(v, c + 1, tick)
  <2>1. c + 1 \in 0 .. Len(v) /\ c + 1 # 0
    BY <1>1
  <2>2. \A i \in DOMAIN v : v[i] <= tick
    BY <1>1
  <2>3. ASSUME NEW i \in DOMAIN v, i <= Len(v) - (c + 1), NEW j \in DOMAIN v,
               j > Len(v) - (c + 1)
        PROVE  v[i] + Window < v[j]
    <3>1. i \in 1 .. n /\ i <= n - c /\ j > n - c /\ v[i] = w[i]
      BY <1>1, <2>3
    <3>2. CASE j = n + 1
      BY <1>1, <1>3, <3>1, <3>2
    <3>3. CASE j \in 1 .. n
      BY <1>1, <3>1, <3>3 DEF Apart, n
    <3> QED BY <1>1, <3>2, <3>3
  <2> QED BY <2>1, <2>2, <2>3 DEF Apart
<1> QED BY <1>1, <1>4, <1>5 DEF v

LEMMA CountIs ==
    ASSUME NEW tick \in Nat, NEW st \in Entry
    PROVE  /\ CountOf(st, tick) \in Nat
           /\ CountOf(st, tick) \in {0, st.count}
BY DEF CountOf, Entry

LEMMA NoneTracked == Untracked \in Entry /\ \A tick : CountOf(Untracked, tick) = 0
BY DEF Untracked, Entry, CountOf, T!Never

LEMMA CountedKeeps ==
    ASSUME NEW w \in Seq(Nat), NEW st \in Entry, NEW n \in Nat, NEW m \in Nat, m + 1 <= n,
           KeyInv(w, st, n, clock), clock \in Nat \ {0}
    PROVE  /\ T!Counted(st) \in Entry /\ T!Counted(st).count # 0
           /\ KeyInv(Append(w, clock), T!Counted(st), m, clock)
<1> DEFINE c == CountOf(st, clock)
           new == T!Counted(st)
<1>1. /\ c \in Nat /\ c + n <= MostGuesses /\ Bounded(w) /\ Apart(w, c, clock)
      /\ Tracks(st, w)
      /\ c = IF T!Expired(st) THEN 0 ELSE st.count
  BY CountIs DEF KeyInv, CountOf, T!Expired
<1> HIDE DEF c
<1>2. /\ Threshold \in Nat \ {0} /\ Window \in Nat /\ MostGuesses \in Nat
  BY Numbers
<1>3. c + 1 + m <= MostGuesses /\ c + 1 <= MostGuesses
  BY <1>1, <1>2
<1>4. /\ new.count = c + 1 /\ new.seen = clock
      /\ new.until = IF c + 1 >= Threshold THEN clock + Window ELSE T!Never
      /\ new = [count |-> new.count, until |-> new.until, seen |-> new.seen]
  <2>2. CASE T!Expired(st)
    BY <1>1, <1>2, <2>2 DEF T!Counted, T!Never
  <2>3. CASE ~T!Expired(st)
    <3>1. c = st.count /\ st.count \in Nat /\ (st.until # T!Never <=> st.count >= Threshold)
      BY <1>1, <2>3 DEF Entry, Tracks
    <3>2. c + 1 < Threshold => st.until = T!Never
      BY <1>2, <3>1
    <3> QED BY <1>1, <1>2, <2>3, <3>1, <3>2 DEF T!Counted, Entry
  <2> QED BY <2>2, <2>3
<1> HIDE DEF new
<1>5. new \in Entry
  <2>1. clock + Window \in Nat /\ c + 1 \in Nat /\ clock \in Nat
    BY <1>1, <1>2
  <2> QED BY <1>4, <2>1 DEF Entry, T!Never
<1>6. CountOf(new, clock) = c + 1
  BY <1>2, <1>4 DEF CountOf, T!Never
<1>7. Tracks(new, Append(w, clock))
  <2>1. \A i \in DOMAIN Append(w, clock) : Append(w, clock)[i] <= clock
    BY <1>1, <1>3, GuessCounts
  <2>2. clock + Window # T!Never
    BY <1>2 DEF T!Never
  <2> QED BY <1>1, <1>2, <1>4, <2>1, <2>2 DEF Tracks
<1>8. Bounded(Append(w, clock)) /\ Apart(Append(w, clock), c + 1, clock)
  BY <1>1, <1>3, GuessCounts
<1>9. KeyInv(Append(w, clock), new, m, clock)
  BY <1>3, <1>6, <1>7, <1>8 DEF KeyInv
<1>10. new.count # 0
  BY <1>1, <1>4
<1> QED BY <1>5, <1>9, <1>10 DEF new

\* An entry goes when what it counted is old.
LEMMA DroppedKeeps ==
    ASSUME NEW w \in Seq(Nat), NEW st \in Entry, NEW n \in Nat, KeyInv(w, st, n, clock),
           clock \in Nat, clock - st.seen > Forgotten, st.count # 0
    PROVE  KeyInv(w, Untracked, n, clock)
<1>1. \A i \in DOMAIN w : w[i] + Window < clock
  <2> SUFFICES ASSUME NEW i \in DOMAIN w PROVE w[i] + Window < clock
    OBVIOUS
  <2>1. w[i] \in Nat /\ w[i] <= st.seen /\ st.seen \in Nat
    BY DEF KeyInv, Tracks, Entry
  <2> QED BY <2>1, Numbers
<1>2. CountOf(Untracked, clock) = 0 /\ CountOf(st, clock) \in Nat
  BY CountIs, NoneTracked
<1>3. Apart(w, 0, clock)
  <2>1. Len(w) \in Nat /\ DOMAIN w = 1 .. Len(w) /\ \A i \in DOMAIN w : w[i] \in Nat
    OBVIOUS
  <2>2. \A i \in DOMAIN w : w[i] <= clock
    BY <2>1, <1>1, Numbers
  <2> QED BY <1>1, <2>1, <2>2 DEF Apart
<1>4. 0 + n <= MostGuesses
  <2>1. CountOf(st, clock) + n <= MostGuesses /\ MostGuesses \in Nat
    BY Numbers DEF KeyInv
  <2>2. \A c, g \in Nat : c + n <= g => 0 + n <= g
    OBVIOUS
  <2> QED BY <1>2, <2>1, <2>2
<1>5. Bounded(w) /\ Tracks(Untracked, w)
  BY Numbers DEF KeyInv, Tracks, Untracked, T!Never
<1> QED BY <1>2, <1>3, <1>4, <1>5 DEF KeyInv

\* Fewer in flight, or a later time.
LEMMA FewerKeeps ==
    ASSUME NEW w, NEW st \in Entry, NEW n \in Nat, NEW m \in Nat, m <= n,
           KeyInv(w, st, n, clock), clock \in Nat
    PROVE  KeyInv(w, st, m, clock)
<1>1. CountOf(st, clock) \in Nat /\ MostGuesses \in Nat
  BY CountIs, Numbers
<1> QED BY <1>1 DEF KeyInv

LEMMA LaterKeeps ==
    ASSUME NEW w \in Seq(Nat), NEW st \in Entry, NEW n \in Nat, KeyInv(w, st, n, clock),
           clock \in Nat
    PROVE  KeyInv(w, st, n, clock + 1)
<1>1. /\ CountOf(st, clock) \in Nat /\ MostGuesses \in Nat /\ Window \in Nat
      /\ Len(w) \in Nat /\ DOMAIN w = 1 .. Len(w) /\ \A i \in DOMAIN w : w[i] \in Nat
  <2>1. CountOf(st, clock) \in Nat
    BY CountIs
  <2>2. MostGuesses \in Nat /\ Window \in Nat
    BY Numbers
  <2>3. Len(w) \in Nat /\ DOMAIN w = 1 .. Len(w) /\ \A i \in DOMAIN w : w[i] \in Nat
    OBVIOUS
  <2> QED BY <2>1, <2>2, <2>3
<1>2. CASE CountOf(st, clock + 1) = CountOf(st, clock)
  <2>1. Apart(w, CountOf(st, clock), clock + 1)
    BY <1>1 DEF Apart, KeyInv
  <2> QED BY <1>2, <2>1 DEF KeyInv
<1>3. CASE CountOf(st, clock + 1) # CountOf(st, clock)
  <2>1. /\ st.until # T!Never /\ clock + 1 > st.until /\ st.count # 0
        /\ CountOf(st, clock + 1) = 0
    BY <1>3 DEF CountOf, Entry, T!Never
  <2>2. \A i \in DOMAIN w : w[i] + Window < clock + 1
    <3>1. /\ st.until = st.seen + Window /\ st.seen \in Nat
          /\ \A i \in DOMAIN w : w[i] <= st.seen
      BY <2>1 DEF KeyInv, Tracks, Entry
    <3> QED BY <1>1, <2>1, <3>1
  <2>3. Apart(w, 0, clock + 1)
    BY <1>1, <2>2 DEF Apart
  <2>4. 0 + n <= MostGuesses
    <3>1. \A c, g \in Nat : c + n <= g => 0 + n <= g
      OBVIOUS
    <3> QED BY <1>1, <3>1 DEF KeyInv
  <2> QED BY <2>1, <2>3, <2>4 DEF KeyInv
<1> QED BY <1>2, <1>3

\* A new sign-in of a key that is not locked.
LEMMA LetInKeeps ==
    ASSUME NEW w, NEW st \in Entry, NEW n \in Nat, NEW m \in Nat, m <= MaxInFlight,
           clock \in Nat \ {0}, KeyInv(w, st, n, clock), ~(st.until >= clock)
    PROVE  KeyInv(w, st, m, clock)
<1>1. /\ Threshold \in Nat \ {0} /\ MaxInFlight \in Nat \ {0}
      /\ MostGuesses = Threshold + MaxInFlight - 1
  BY Numbers DEF MostGuesses
<1>2. CountOf(st, clock) \in Nat /\ CountOf(st, clock) < Threshold
  BY <1>1 DEF CountOf, KeyInv, Tracks, Entry, T!Never
<1>3. CountOf(st, clock) + m <= MostGuesses
  BY <1>1, <1>2
<1> QED BY <1>3 DEF KeyInv

\* The right password: a new list.
LEMMA ClearedKeeps ==
    ASSUME NEW n \in Nat, n <= MaxInFlight, clock \in Nat
    PROVE  KeyInv(<<>>, Untracked, n, clock)
<1>1. CountOf(Untracked, clock) = 0
  BY NoneTracked
<1>2. 0 + n <= MostGuesses
  BY Numbers
<1>3. Bounded(<<>>) /\ Apart(<<>>, 0, clock) /\ Tracks(Untracked, <<>>)
  BY Numbers DEF Bounded, Apart, Tracks, Untracked, T!Never
<1> QED BY <1>1, <1>2, <1>3 DEF KeyInv

\* The sign-ins of a key are among those that can be in flight.
LEMMA InFlight ==
    ASSUME NEW h, NEW k
    PROVE  LET on == {s \in T!SignIns : h[s] # T!Nobody /\ k \in T!keysFor(h[s])}
           IN  IsFiniteSet(on) /\ Cardinality(on) \in Nat /\ Cardinality(on) <= MaxInFlight
<1> DEFINE on == {s \in T!SignIns : h[s] # T!Nobody /\ k \in T!keysFor(h[s])}
<1>1. /\ IsFiniteSet(1 .. MaxInFlight) /\ Cardinality(1 .. MaxInFlight) = MaxInFlight
  <2>1. MaxInFlight \in Nat /\ MaxInFlight >= 1 /\ MaxInFlight - 1 + 1 = MaxInFlight
    BY Numbers
  <2> QED BY <2>1, FS_Interval
<1>2. on \subseteq 1 .. MaxInFlight
  BY DEF T!SignIns
<1>3. IsFiniteSet(on) /\ Cardinality(on) <= MaxInFlight
  BY <1>1, <1>2, FS_Subset
<1> QED BY <1>3, FS_CardinalityType

\* A sign-in that leaves is one fewer of its keys.
LEMMA OneLeaves ==
    ASSUME ThrottleType, NEW s \in T!SignIns, T!Leaves(s), NEW k \in T!Keys
    PROVE  /\ Cardinality(OnKey(k)) \in Nat /\ Cardinality(OnKey(k)') \in Nat
           /\ Cardinality(OnKey(k)') <= Cardinality(OnKey(k))
           /\ k \in T!keysFor(hashing[s]) => Cardinality(OnKey(k)') + 1 <= Cardinality(OnKey(k))
<1>1. /\ \A q \in T!SignIns : q # s => hashing'[q] = hashing[q]
      /\ hashing'[s] = T!Nobody /\ hashing[s] # T!Nobody
  BY DEF T!Leaves, ThrottleType
<1>2. OnKey(k)' = OnKey(k) \ {s}
  BY <1>1 DEF OnKey
<1>3. IsFiniteSet(OnKey(k)) /\ Cardinality(OnKey(k)) \in Nat
  BY InFlight DEF OnKey
<1>4. s \in OnKey(k) <=> k \in T!keysFor(hashing[s])
  BY <1>1 DEF OnKey
<1>5. Cardinality(OnKey(k)') = IF s \in OnKey(k) THEN Cardinality(OnKey(k)) - 1 ELSE Cardinality(OnKey(k))
  BY <1>2, <1>3, FS_RemoveElement
<1>6. Cardinality(OnKey(k)') \in Nat
  BY <1>2, <1>3, FS_RemoveElement, FS_CardinalityType
<1> QED BY <1>3, <1>4, <1>5, <1>6

LEMMA KeysAre ==
    ASSUME ThrottleType, NEW s \in T!SignIns, T!Leaves(s)
    PROVE  /\ hashing[s] \in T!Attempts
           /\ hashing' \in [T!SignIns -> T!Attempts \union {T!Nobody}]
<1>1. hashing[s] \in T!Attempts /\ hashing' = [hashing EXCEPT ![s] = T!Nobody]
  BY DEF T!Leaves, ThrottleType
<1> DEFINE Pairs == T!Attempts
<1> HIDE DEF Pairs
<1>2. hashing \in [T!SignIns -> Pairs \union {T!Nobody}]
  BY DEF ThrottleType, Pairs
<1>3. hashing' \in [T!SignIns -> Pairs \union {T!Nobody}]
  BY <1>1, <1>2
<1> QED BY <1>1, <1>3 DEF Pairs

LEMMA ThrottleInit == T!Init => ThrottleInv
<1> SUFFICES ASSUME T!Init PROVE ThrottleInv
  OBVIOUS
<1>1. clock = 1 /\ DOMAIN fail = {} /\ fail = [k \in DOMAIN fail |-> fail[k]]
      /\ hashing = [s \in T!SignIns |-> T!Nobody] /\ wrong = [k \in T!Keys |-> <<>>]
  BY DEF T!Init, T!None
<1>2. ThrottleType
  BY <1>1 DEF ThrottleType
<1>3. ASSUME NEW k \in T!Keys
      PROVE  KeyInv(wrong[k], EntryOf(k), Cardinality(OnKey(k)), clock)
  <2>1. Cardinality(OnKey(k)) \in Nat /\ Cardinality(OnKey(k)) <= MaxInFlight
    BY InFlight DEF OnKey
  <2>2. KeyInv(<<>>, Untracked, Cardinality(OnKey(k)), clock)
    BY <1>1, <2>1, ClearedKeeps
  <2>3. EntryOf(k) = Untracked /\ wrong[k] = <<>>
    BY <1>1 DEF EntryOf
  <2> QED BY <2>2, <2>3
<1> QED BY <1>2, <1>3 DEF ThrottleInv

LEMMA ThrottleTick == ThrottleInv /\ T!Tick => ThrottleInv'
<1> SUFFICES ASSUME ThrottleInv, T!Tick PROVE ThrottleInv'
  OBVIOUS
<1>1. clock' = clock + 1 /\ UNCHANGED <<fail, hashing, wrong>> /\ clock \in Nat \ {0}
  BY DEF T!Tick, ThrottleInv, ThrottleType
<1>2. ThrottleType'
  BY <1>1 DEF ThrottleInv, ThrottleType
<1>3. ASSUME NEW k \in T!Keys
      PROVE  KeyInv(wrong[k], EntryOf(k), Cardinality(OnKey(k)), clock + 1)
  <2>1. Cardinality(OnKey(k)) \in Nat
    BY InFlight DEF OnKey
  <2>2. wrong[k] \in Seq(Nat) /\ EntryOf(k) \in Entry
    BY NoneTracked DEF ThrottleInv, ThrottleType, EntryOf
  <2>3. KeyInv(wrong[k], EntryOf(k), Cardinality(OnKey(k)), clock)
    BY DEF ThrottleInv
  <2> QED BY <1>1, <2>1, <2>2, <2>3, LaterKeeps
<1>4. \A k : OnKey(k)' = OnKey(k) /\ EntryOf(k)' = EntryOf(k)
  BY <1>1 DEF OnKey, EntryOf
<1> QED BY <1>1, <1>2, <1>3, <1>4 DEF ThrottleInv

LEMMA ThrottleLetIn ==
    ASSUME ThrottleInv, NEW s \in T!SignIns, NEW a \in T!Attempts, T!LetIn(s, a)
    PROVE  ThrottleInv'
<1>1. /\ hashing' = [hashing EXCEPT ![s] = a] /\ UNCHANGED <<clock, fail, wrong>>
      /\ \A k \in T!keysFor(a) : ~T!Locked(k)
      /\ hashing[s] = T!Nobody
  BY DEF T!LetIn, T!retryAfter
<1>2. ThrottleType'
  <2> DEFINE Pairs == T!Attempts
  <2> HIDE DEF Pairs
  <2>1. hashing \in [T!SignIns -> Pairs \union {T!Nobody}] /\ a \in Pairs
    BY DEF ThrottleInv, ThrottleType, Pairs
  <2>2. hashing' \in [T!SignIns -> Pairs \union {T!Nobody}]
    BY <1>1, <2>1
  <2> QED BY <1>1, <2>2 DEF ThrottleInv, ThrottleType, Pairs
<1>3. ASSUME NEW k \in T!Keys
      PROVE  KeyInv(wrong[k], EntryOf(k), Cardinality(OnKey(k)'), clock)
  <2>1. /\ Cardinality(OnKey(k)) \in Nat
        /\ Cardinality(OnKey(k)') \in Nat /\ Cardinality(OnKey(k)') <= MaxInFlight
    BY InFlight DEF OnKey
  <2>2. wrong[k] \in Seq(Nat) /\ EntryOf(k) \in Entry /\ clock \in Nat \ {0}
    BY NoneTracked DEF ThrottleInv, ThrottleType, EntryOf
  <2>3. KeyInv(wrong[k], EntryOf(k), Cardinality(OnKey(k)), clock)
    BY DEF ThrottleInv
  <2>4. CASE k \in T!keysFor(a)
    <3>1. ~(EntryOf(k).until >= clock)
      BY <1>1, <2>2, <2>4 DEF T!Locked, EntryOf, Untracked, T!Never
    <3> QED BY <2>1, <2>2, <2>3, <3>1, LetInKeeps
  <2>5. CASE k \notin T!keysFor(a)
    <3>1. OnKey(k)' = OnKey(k)
      <4>1. hashing \in [T!SignIns -> T!Attempts \union {T!Nobody}]
        BY DEF ThrottleInv, ThrottleType
      <4>2. \A q \in T!SignIns : IF q = s THEN hashing'[q] = a ELSE hashing'[q] = hashing[q]
        BY <1>1, <4>1
      <4> QED BY <1>1, <2>5, <4>2 DEF OnKey
    <3> QED BY <2>3, <3>1
  <2> QED BY <2>4, <2>5
<1>4. \A k : EntryOf(k)' = EntryOf(k)
  BY <1>1 DEF EntryOf
<1> QED BY <1>1, <1>2, <1>3, <1>4 DEF ThrottleInv

LEMMA ThrottleRight ==
    ASSUME ThrottleInv, NEW s \in T!SignIns, T!RightPassword(s)
    PROVE  ThrottleInv'
<1> DEFINE a == hashing[s]
<1>1. /\ T!Leaves(s) /\ clock' = clock
      /\ fail' = [k \in DOMAIN fail \ T!keysFor(a) |-> fail[k]]
      /\ wrong' = [k \in T!Keys |-> IF k \in T!keysFor(a) THEN <<>> ELSE wrong[k]]
  <2>1. T!Leaves(s) /\ T!succeeded(a) /\ clock' = clock
    BY DEF T!RightPassword
  <2> QED BY <2>1 DEF T!succeeded, T!Restrict
<1>2. /\ DOMAIN fail' = DOMAIN fail \ T!keysFor(a)
      /\ \A k \in DOMAIN fail' : fail'[k] = fail[k]
      /\ fail' = [k \in DOMAIN fail' |-> fail'[k]]
      /\ clock \in Nat \ {0} /\ ThrottleType
  BY <1>1 DEF ThrottleInv, ThrottleType
<1>3. ThrottleType'
  <2>1. hashing' \in [T!SignIns -> T!Attempts \union {T!Nobody}]
    BY <1>1, <1>2, KeysAre
  <2>2. wrong' \in [T!Keys -> Seq(Nat)]
    BY <1>1, <1>2 DEF ThrottleType
  <2> QED BY <1>1, <1>2, <2>1, <2>2 DEF ThrottleType
<1>4. ASSUME NEW k \in T!Keys
      PROVE  KeyInv(wrong'[k], EntryOf(k)', Cardinality(OnKey(k)'), clock)
  <2>1. /\ Cardinality(OnKey(k)) \in Nat /\ Cardinality(OnKey(k)') \in Nat
        /\ Cardinality(OnKey(k)') <= Cardinality(OnKey(k))
        /\ Cardinality(OnKey(k)') <= MaxInFlight
    BY <1>1, <1>2, OneLeaves, InFlight DEF OnKey
  <2>2. wrong[k] \in Seq(Nat) /\ EntryOf(k) \in Entry
    BY NoneTracked DEF ThrottleInv, ThrottleType, EntryOf
  <2>3. KeyInv(wrong[k], EntryOf(k), Cardinality(OnKey(k)), clock)
    BY DEF ThrottleInv
  <2>4. CASE k \in T!keysFor(a)
    <3>1. wrong'[k] = <<>> /\ EntryOf(k)' = Untracked
      BY <1>1, <1>2, <2>4 DEF EntryOf, Untracked
    <3>2. KeyInv(<<>>, Untracked, Cardinality(OnKey(k)'), clock)
      BY <1>2, <2>1, ClearedKeeps
    <3> QED BY <3>1, <3>2
  <2>5. CASE k \notin T!keysFor(a)
    <3>1. wrong'[k] = wrong[k] /\ EntryOf(k)' = EntryOf(k)
      BY <1>1, <1>2, <2>5 DEF EntryOf, Untracked
    <3> QED BY <1>2, <2>1, <2>2, <2>3, <3>1, FewerKeeps
  <2> QED BY <2>4, <2>5
<1> QED BY <1>1, <1>3, <1>4 DEF ThrottleInv

\* What the sweep leaves of a key.
KeptOf(k) == IF k \in DOMAIN T!sweep THEN T!sweep[k] ELSE Untracked

LEMMA SweepKeeps ==
    ASSUME ThrottleInv, NEW k \in T!Keys
    PROVE  /\ KeptOf(k) \in Entry
           /\ k \in DOMAIN T!sweep => k \in DOMAIN fail /\ KeptOf(k).count # 0
           /\ KeyInv(wrong[k], KeptOf(k), Cardinality(OnKey(k)), clock)
<1>1. /\ wrong[k] \in Seq(Nat) /\ clock \in Nat
      /\ k \in DOMAIN fail => fail[k] \in Entry /\ fail[k].count # 0
  BY DEF ThrottleInv, ThrottleType
<1>2. Cardinality(OnKey(k)) \in Nat
  BY InFlight DEF OnKey
<1>3. KeyInv(wrong[k], EntryOf(k), Cardinality(OnKey(k)), clock)
  BY DEF ThrottleInv
<1>4. /\ DOMAIN T!sweep \subseteq DOMAIN fail
      /\ k \in DOMAIN T!sweep => T!sweep[k] = fail[k]
      /\ k \in DOMAIN fail /\ k \notin DOMAIN T!sweep => clock - fail[k].seen > Forgotten
  BY DEF T!sweep, T!Restrict
<1>5. CASE k \in DOMAIN T!sweep
  BY <1>1, <1>3, <1>4, <1>5 DEF KeptOf, EntryOf
<1>6. CASE k \notin DOMAIN T!sweep /\ k \in DOMAIN fail
  <2>1. KeyInv(wrong[k], Untracked, Cardinality(OnKey(k)), clock)
    BY <1>1, <1>2, <1>3, <1>4, <1>6, DroppedKeeps DEF EntryOf
  <2> QED BY <1>6, <2>1, NoneTracked DEF KeptOf
<1>7. CASE k \notin DOMAIN fail
  BY <1>3, <1>4, <1>7, NoneTracked DEF KeptOf, EntryOf
<1> QED BY <1>5, <1>6, <1>7

LEMMA ThrottleWrong ==
    ASSUME ThrottleInv, NEW s \in T!SignIns, T!WrongPassword(s)
    PROVE  ThrottleInv'
<1> DEFINE a == hashing[s]
           kept == T!sweep
           places == T!Place(kept, a)
<1>1. /\ T!Leaves(s) /\ clock' = clock
      /\ fail' = [k \in DOMAIN kept \union places |->
                   IF k \notin places THEN kept[k]
                   ELSE T!Counted(IF k \in DOMAIN kept THEN kept[k] ELSE T!Fresh)]
      /\ wrong' = [k \in T!Keys |->
                    IF k \in places THEN Append(wrong[k], clock) ELSE wrong[k]]
  <2>1. T!Leaves(s) /\ T!failed(a) /\ clock' = clock
    BY DEF T!WrongPassword
  <2> QED BY <2>1 DEF T!failed
<1>2. ThrottleType /\ clock \in Nat \ {0} /\ wrong \in [T!Keys -> Seq(Nat)]
  BY DEF ThrottleInv, ThrottleType
<1>3. places \subseteq T!keysFor(a) /\ places \subseteq T!Keys
  <2>1. a \in T!Attempts
    BY <1>1, <1>2, KeysAre
  <2>2. T!keysFor(a) \subseteq T!Keys
    BY <2>1 DEF T!Attempts, T!keysFor, T!Keys
  <2> QED BY <2>2 DEF T!Place
<1>4. DOMAIN kept \subseteq T!Keys
  BY <1>2 DEF ThrottleType, T!sweep, T!Restrict
<1>5. T!Counted(T!Fresh) = T!Counted(Untracked)
  BY DEF T!Counted, T!Fresh, Untracked, T!Expired, T!Never
<1> HIDE DEF kept, places
<1>6. ASSUME NEW k \in T!Keys
      PROVE  /\ EntryOf(k)' \in Entry
             /\ k \in DOMAIN fail' => fail'[k] \in Entry /\ fail'[k].count # 0
             /\ KeyInv(wrong'[k], EntryOf(k)', Cardinality(OnKey(k)'), clock)
  <2>1. /\ Cardinality(OnKey(k)) \in Nat /\ Cardinality(OnKey(k)') \in Nat
        /\ Cardinality(OnKey(k)') <= Cardinality(OnKey(k))
        /\ k \in places => Cardinality(OnKey(k)') + 1 <= Cardinality(OnKey(k))
    BY <1>1, <1>2, <1>3, OneLeaves
  <2>2. /\ KeptOf(k) \in Entry
        /\ KeyInv(wrong[k], KeptOf(k), Cardinality(OnKey(k)), clock)
        /\ k \in DOMAIN kept => KeptOf(k).count # 0
        /\ wrong[k] \in Seq(Nat)
    BY <1>2, SweepKeeps DEF kept
  <2>3. KeptOf(k) = IF k \in DOMAIN kept THEN kept[k] ELSE Untracked
    BY DEF KeptOf, kept
  <2>4. CASE k \in places
    <3>1. /\ wrong'[k] = Append(wrong[k], clock) /\ k \in DOMAIN fail'
          /\ fail'[k] = T!Counted(IF k \in DOMAIN kept THEN kept[k] ELSE T!Fresh)
      BY <1>1, <2>4
    <3>2. fail'[k] = T!Counted(KeptOf(k))
      BY <1>5, <2>3, <3>1
    <3>3. /\ T!Counted(KeptOf(k)) \in Entry /\ T!Counted(KeptOf(k)).count # 0
          /\ KeyInv(Append(wrong[k], clock), T!Counted(KeptOf(k)), Cardinality(OnKey(k)'), clock)
      BY <1>2, <2>1, <2>2, <2>4, CountedKeeps
    <3> QED BY <3>1, <3>2, <3>3 DEF EntryOf
  <2>5. CASE k \notin places
    <3>1. /\ wrong'[k] = wrong[k]
          /\ k \in DOMAIN fail' <=> k \in DOMAIN kept
          /\ k \in DOMAIN kept => fail'[k] = kept[k]
      BY <1>1, <2>5
    <3>2. EntryOf(k)' = KeptOf(k)
      BY <2>3, <3>1 DEF EntryOf, Untracked
    <3>3. KeyInv(wrong[k], KeptOf(k), Cardinality(OnKey(k)'), clock)
      BY <1>2, <2>1, <2>2, FewerKeeps
    <3> QED BY <2>2, <2>3, <3>1, <3>2, <3>3
  <2> QED BY <2>4, <2>5
<1>7. ThrottleType'
  <2>1. hashing' \in [T!SignIns -> T!Attempts \union {T!Nobody}]
    BY <1>1, <1>2, KeysAre
  <2>2. wrong' \in [T!Keys -> Seq(Nat)]
    <3>1. \A k \in T!Keys : Append(wrong[k], clock) \in Seq(Nat) /\ wrong[k] \in Seq(Nat)
      BY <1>2
    <3> QED BY <1>1, <3>1
  <2>3. DOMAIN fail' \subseteq T!Keys /\ fail' = [k \in DOMAIN fail' |-> fail'[k]]
    BY <1>1, <1>3, <1>4
  <2> QED BY <1>1, <1>2, <1>6, <2>1, <2>2, <2>3 DEF ThrottleType
<1> QED BY <1>1, <1>6, <1>7 DEF ThrottleInv

LEMMA ThrottleStep == ThrottleInv /\ [T!Next]_throttleVars => ThrottleInv'
<1> SUFFICES ASSUME ThrottleInv, [T!Next]_throttleVars PROVE ThrottleInv'
  OBVIOUS
<1>1. CASE T!Next
  BY <1>1, ThrottleTick, ThrottleLetIn, ThrottleWrong, ThrottleRight DEF T!Next
<1>2. CASE UNCHANGED throttleVars
  BY <1>2 DEF throttleVars, ThrottleInv, ThrottleType, OnKey, EntryOf
<1> QED BY <1>1, <1>2

\* A set of numbers has a least one.
LEMMA LeastElement ==
    ASSUME NEW Some \in SUBSET Nat, Some # {} PROVE \E x \in Some : \A y \in Some : x <= y
<1> DEFINE R == OpToRel(<, Nat)
<1>1. IsWellFoundedOn(R, Nat)
  BY NatLessThanWellFounded
<1>2. R = {p \in Nat \X Nat : p[1] < p[2]}
  BY Zenon DEF OpToRel
<1> HIDE DEF R
<1>3. PICK x \in Some : \A y \in Some : ~ (<<y, x>> \in R)
  BY <1>1, WFMin
<1>4. ASSUME NEW y \in Some, y < x PROVE FALSE
  <2>1. <<y, x>> \in Nat \X Nat /\ <<y, x>>[1] < <<y, x>>[2]
    BY <1>4
  <2> QED BY <2>1, <1>2, <1>3
<1> QED BY <1>4

\* No more wrong passwords than the most in a Window from any time.
LEMMA FewInWindow ==
    ASSUME NEW w \in Seq(Nat), Bounded(w), NEW first \in Nat
    PROVE  Cardinality({i \in DOMAIN w : w[i] \in first .. (first + Window)}) <= MostGuesses
<1> DEFINE In == {i \in DOMAIN w : w[i] \in first .. (first + Window)}
<1>1. MostGuesses \in Nat \ {0} /\ Window \in Nat
  BY Numbers
<1>2. CASE In = {}
  <2> HIDE DEF In
  <2>1. Cardinality(In) = 0
    BY <1>2, FS_EmptySet
  <2>2. Cardinality(In) <= MostGuesses
    BY <1>1, <2>1
  <2> QED BY <2>2 DEF In
<1>3. CASE In # {}
  <2>1. In \subseteq Nat
    OBVIOUS
  <2>2. PICK low \in In : \A i \in In : low <= i
    BY <1>3, <2>1, LeastElement
  <2>3. In \subseteq low .. (low + (MostGuesses - 1))
    <3> SUFFICES ASSUME NEW i \in In PROVE i \in low .. (low + (MostGuesses - 1))
      OBVIOUS
    <3>1. /\ low \in DOMAIN w /\ i \in DOMAIN w /\ low <= i /\ low \in Nat /\ i \in Nat
          /\ w[low] \in Nat /\ w[i] \in Nat /\ w[i] <= w[low] + Window
      BY <1>1, <2>2
    <3>2. i - low < MostGuesses
      BY <3>1 DEF Bounded
    <3> QED BY <1>1, <3>1, <3>2
  <2> HIDE DEF In
  <2>4. low \in Nat
    BY <2>1, <2>2
  <2> DEFINE top == low + (MostGuesses - 1)
  <2>5. top \in Nat /\ low <= top /\ top - low + 1 = MostGuesses
    BY <1>1, <2>4
  <2>6. IsFiniteSet(low .. top) /\ Cardinality(low .. top) = MostGuesses
    <3> HIDE DEF top
    <3>1. low \in Int /\ top \in Int /\ ~(low > top)
      BY <2>4, <2>5
    <3> QED BY <2>5, <3>1, FS_Interval
  <2>7. Cardinality(In) <= MostGuesses
    BY <2>3, <2>6, FS_Subset
  <2> QED BY <2>7 DEF In
<1> QED BY <1>2, <1>3 DEF In

LEMMA ThrottleBounds == ThrottleInv => GuessesAreBounded
<1> SUFFICES ASSUME ThrottleInv PROVE T!GuessesAreBounded
  BY DEF GuessesAreBounded
<1>1. ASSUME NEW k \in T!Keys, NEW first \in 1 .. MaxTime
      PROVE  Cardinality({i \in DOMAIN wrong[k] :
                           wrong[k][i] \in first .. (first + Window)})
               <= Threshold + MaxInFlight - 1
  <2>1. wrong[k] \in Seq(Nat) /\ Bounded(wrong[k]) /\ first \in Nat
    BY DEF ThrottleInv, ThrottleType, KeyInv
  <2>2. Cardinality({i \in DOMAIN wrong[k] :
                      wrong[k][i] \in first .. (first + Window)}) <= MostGuesses
    BY <2>1, FewInWindow
  <2> QED BY <2>2 DEF MostGuesses
<1>2. \A S : T!Cardinality(S) = Cardinality(S)
  BY Zenon DEF T!Cardinality, Cardinality
<1> QED BY <1>1, <1>2 DEF T!GuessesAreBounded

LEMMA ThrottleNext ==
  ASSUME ThrottleInv, [PartsNext]_<<focus, vars, accountVars, throttleVars, capsVars, loadoutVars,
                                 queryVars, fetchVars, treeVars, fileVars>>
  PROVE  ThrottleInv'
<1>1. [T!Next]_throttleVars
  BY DEF PartsNext
<1> QED BY <1>1, ThrottleStep

\* However many sign-ins are in flight, and in whatever order they are judged,
\* reset or swept away, a key that is tracked sees at most threshold wrong
\* passwords in a Window, and one for each that was in flight as its lock fell.
THEOREM GuessesStayBounded == PartsSpec => []GuessesAreBounded
<1>1. PartsInit => ThrottleInv
  BY ThrottleInit DEF PartsInit
<1> QED BY <1>1, ThrottleNext, ThrottleBounds, PTL DEF PartsSpec

------------------------------------------------------------------------------
(***************************************************************************)
(* Proofs: the queries.  What is decoded is one payload: a datagram of one *)
(* reply, or the fragments of one reply put together, which number as many *)
(* as the reply was split into.                                            *)
(***************************************************************************)

Reply == [form : {"source", "goldsrc", "rows"}, rows : Nat, lost : Nat, split : Nat,
          mark : {"plain"} \union {s[2] : s \in Splits}]
ChallengeReply == [form : {"challenge"}]

IsReply(n) == n \in DOMAIN replies /\ replies[n] \in Reply

\* What is on its way was written, and so were all fragments of it.
IsWritten(d) ==
    \/ d.type = "challenge"
    \/ d.type = "single" /\ IsReply(d.reply)
    \/ /\ d.type = "split" /\ IsReply(d.reply)
       /\ d.number \in 0 .. replies[d.reply].split - 1

QueryType ==
    /\ call \in Nat \ {0}
    /\ \E R : res \in Seq(R)
    /\ Len(res) = call - 1
    /\ replies \in Seq(Reply \union ChallengeReply)

\* The fragments at hand are of the reply that is put together.
OfOneReply ==
    /\ IsReply(id) /\ total = replies[id].split /\ total # 0
    /\ DOMAIN got \subseteq 0 .. total - 1
    /\ \A k \in DOMAIN got : got[k] = id

QueryInv ==
    /\ QueryType
    /\ \A d \in net : IsWritten(d)
    /\ pc = "more" => OfOneReply
    /\ Q!WholeReply

LEMMA Counting == \A S : Q!Cardinality(S) = Cardinality(S)
  BY Zenon DEF Q!Cardinality, Cardinality

-----------------------------------------------------------------------------
\* The fields of a reply, and what of it is sent.
Shown(n) == [i \in 1 .. Len(Q!Fields(replies[n])) - replies[n].lost |->
               <<n, i, Q!Fields(replies[n])[i]>>]

LEMMA FieldsAre ==
    ASSUME NEW n, IsReply(n)
    PROVE  /\ replies[n].form = "source" => Q!Fields(replies[n]) = Q!WireSource
           /\ replies[n].form = "goldsrc" => Q!Fields(replies[n]) = Q!WireGoldsrc
           /\ replies[n].form = "rows" => Len(Q!Fields(replies[n])) = 1 + 4 * replies[n].rows
           /\ Len(Q!Fields(replies[n])) \in Nat
<1>1. CASE replies[n].form = "source"
  BY <1>1 DEF Q!Fields, Q!WireSource
<1>2. CASE replies[n].form = "goldsrc"
  BY <1>2 DEF Q!Fields, Q!WireGoldsrc
<1>3. CASE replies[n].form = "rows"
  <2> DEFINE Cell(i) == Q!WireRow[((i - 1) % 4) + 1]
             cells == 4 * replies[n].rows
             body == [i \in 1 .. cells |-> Cell(i)]
  <2>1. Q!Fields(replies[n]) = <<"count">> \o body
    BY <1>3 DEF Q!Fields
  <2>2. cells \in Nat
    BY DEF IsReply, Reply
  <2> HIDE DEF Cell, cells
  <2>3. body \in Seq({Cell(i) : i \in 1 .. cells}) /\ Len(body) = cells
    BY <2>2
  <2> HIDE DEF body
  <2>4. Len(<<"count">> \o body) = 1 + cells
    BY <2>2, <2>3
  <2> QED BY <1>3, <2>1, <2>2, <2>4 DEF cells
<1> QED BY <1>1, <1>2, <1>3 DEF IsReply, Reply

LEMMA PayloadIs ==
    ASSUME NEW n, IsReply(n)
    PROVE  /\ Q!Payload(replies[n], n) = <<"whole", replies[n].form>> \o Shown(n)
           /\ \E R : Shown(n) \in Seq(R)
           /\ Len(Shown(n)) \in Nat
           /\ Len(Q!Payload(replies[n], n)) = 2 + Len(Shown(n))
           /\ \E R : Q!Payload(replies[n], n) \in Seq(R)
           /\ Head(Q!Payload(replies[n], n)) = "whole" /\ Q!Payload(replies[n], n) # <<>>
           /\ Tail(Q!Payload(replies[n], n)) = <<replies[n].form>> \o Shown(n)
           /\ Head(Tail(Q!Payload(replies[n], n))) = replies[n].form
           /\ Tail(Q!Payload(replies[n], n)) # <<>>
           /\ Tail(Tail(Q!Payload(replies[n], n))) = Shown(n)
<1> DEFINE m == Len(Q!Fields(replies[n])) - replies[n].lost
           R == {<<n, i, Q!Fields(replies[n])[i]>> : i \in 1 .. m}
<1>1. m \in Int
  BY FieldsAre DEF IsReply, Reply
<1>2. Shown(n) = [i \in 1 .. m |-> <<n, i, Q!Fields(replies[n])[i]>>]
  BY DEF Shown
<1>3. Shown(n) \in Seq(R) /\ Len(Shown(n)) \in Nat
  <2>1. CASE m \in Nat
    BY <1>2, <2>1
  <2>2. CASE m \notin Nat
    <3>1. 1 .. m = {}
      BY <1>1, <2>2
    <3>2. Shown(n) = <<>>
      BY <1>2, <3>1
    <3> QED BY <3>2
  <2> QED BY <2>1, <2>2
<1>4. Q!Payload(replies[n], n) = <<"whole", replies[n].form>> \o Shown(n)
  BY DEF Q!Payload, Shown
<1> DEFINE X == R \union {"whole", replies[n].form}
           f == replies[n].form
           b == Shown(n)
<1>5. b \in Seq(X) /\ "whole" \in X /\ f \in X
  BY <1>3
<1> HIDE DEF R, X, f, b, m
<1>6. /\ <<"whole", f>> \o b \in Seq(X) /\ Len(<<"whole", f>> \o b) = 2 + Len(b)
      /\ Head(<<"whole", f>> \o b) = "whole" /\ <<"whole", f>> \o b # <<>>
      /\ Tail(<<"whole", f>> \o b) = <<f>> \o b
      /\ Head(<<f>> \o b) = f /\ Tail(<<f>> \o b) = b /\ <<f>> \o b # <<>>
  <2>1. <<"whole", f>> \in Seq(X) /\ <<f>> \in Seq(X)
    BY <1>5
  <2> QED BY <1>5, <2>1
<1> QED BY <1>3, <1>4, <1>5, <1>6 DEF f, b

-----------------------------------------------------------------------------
\* Where the fragments of a reply are cut.
LEMMA CutsAre ==
    ASSUME NEW len \in Nat, NEW split \in Nat \ {0}
    PROVE  /\ (0 * len) \div split = 0
           /\ (split * len) \div split = len
           /\ \A k \in 0 .. split - 1 :
                /\ (k * len) \div split \in 0 .. len
                /\ ((k + 1) * len) \div split \in (k * len) \div split .. len
<1> QED OBVIOUS

\* What holds of zero, and of a number's successor with the number, holds of all.
LEMMA Induction ==
    ASSUME NEW Some, 0 \in Some, \A n \in Nat : n \in Some => n + 1 \in Some
    PROVE  Nat \subseteq Some
<1> SUFFICES ASSUME Nat \ Some # {} PROVE FALSE
  OBVIOUS
<1>1. PICK x \in Nat \ Some : \A y \in Nat \ Some : x <= y
  BY LeastElement
<1>2. x # 0 /\ x - 1 \in Nat /\ x - 1 \in Some
  BY <1>1
<1> QED BY <1>1, <1>2


Upto(n, k) == SubSeq(Q!Payload(replies[n], n), 1, Q!Cut(n, k))

LEMMA Pieces ==
    ASSUME NEW n, IsReply(n), replies[n].split # 0
    PROVE  /\ Upto(n, 0) = <<>>
           /\ \A k \in 0 .. replies[n].split - 1 : Upto(n, k + 1) = Upto(n, k) \o Q!Body(n, k)
           /\ Upto(n, replies[n].split) = Q!Payload(replies[n], n)
<1> DEFINE p == Q!Payload(replies[n], n)
           len == Len(p)
           split == replies[n].split
<1>1. PICK R : p \in Seq(R)
  BY PayloadIs
<1>2. len \in Nat /\ split \in Nat \ {0}
  BY <1>1 DEF IsReply, Reply
<1> HIDE DEF p
<1>3. \A k : Q!Cut(n, k) = (k * len) \div split
  BY DEF Q!Cut, p
<1> HIDE DEF len, split
<1>4. /\ Q!Cut(n, 0) = 0 /\ Q!Cut(n, split) = len
      /\ \A k \in 0 .. split - 1 : /\ Q!Cut(n, k) \in 0 .. len
                                  /\ Q!Cut(n, k + 1) \in Q!Cut(n, k) .. len
  <2>1. /\ (0 * len) \div split = 0 /\ (split * len) \div split = len
        /\ \A k \in 0 .. split - 1 :
             /\ (k * len) \div split \in 0 .. len
             /\ ((k + 1) * len) \div split \in (k * len) \div split .. len
    BY <1>2, CutsAre
  <2> QED BY <1>3, <2>1, Zenon
<1>5. \A c \in 0 .. len : \A e \in c .. len : SubSeq(p, 1, e) = SubSeq(p, 1, c) \o SubSeq(p, c + 1, e)
  <2> SUFFICES ASSUME NEW c \in 0 .. len, NEW e \in c .. len
               PROVE  SubSeq(p, 1, e) = SubSeq(p, 1, c) \o SubSeq(p, c + 1, e)
    OBVIOUS
  <2> DEFINE a == SubSeq(p, 1, c)
             b == SubSeq(p, c + 1, e)
             whole == SubSeq(p, 1, e)
  <2>1. /\ a \in Seq(R) /\ Len(a) = c /\ \A i \in 1 .. c : a[i] = p[i]
    BY <1>1, <1>2 DEF len
  <2>2. /\ b \in Seq(R) /\ Len(b) = e - c /\ \A i \in 1 .. e - c : b[i] = p[c + i]
    BY <1>1, <1>2 DEF len
  <2>3. /\ whole \in Seq(R) /\ Len(whole) = e /\ \A i \in 1 .. e : whole[i] = p[i]
    BY <1>1, <1>2 DEF len
  <2> HIDE DEF a, b, whole
  <2>0. c \in Nat /\ e \in Nat /\ c <= e
    BY <1>2
  <2>4. a \o b \in Seq(R) /\ Len(a \o b) = e
    BY <2>0, <2>1, <2>2
  <2>5. ASSUME NEW i \in 1 .. e PROVE (a \o b)[i] = p[i]
    <3>1. CASE i <= c
      BY <2>0, <2>1, <2>2, <3>1
    <3>2. CASE i > c
      <4> DEFINE j == i - c
      <4>1. (a \o b)[i] = b[j]
        BY <2>0, <2>1, <2>2, <3>2
      <4>2. j \in 1 .. e - c /\ c + j = i
        BY <2>0, <3>2
      <4> HIDE DEF j
      <4>3. b[j] = p[c + j]
        BY <2>2, <4>2
      <4> QED BY <4>1, <4>2, <4>3, Zenon
    <3>3. i <= c \/ i > c
      BY <2>0
    <3> QED BY <3>1, <3>2, <3>3, Zenon
  <2> DEFINE both == a \o b
  <2> HIDE DEF both
  <2>6. both \in Seq(R) /\ Len(both) = e /\ \A i \in 1 .. e : both[i] = p[i]
    BY <2>4, <2>5 DEF both
  <2>7. whole = both
    BY <2>0, <2>3, <2>6
  <2> QED BY <2>7 DEF a, b, whole, both
<1>6. SubSeq(p, 1, 0) = <<>> /\ SubSeq(p, 1, len) = p
  BY <1>1 DEF len
<1>7. \A k \in 0 .. split - 1 : Upto(n, k + 1) = Upto(n, k) \o Q!Body(n, k)
  BY <1>4, <1>5 DEF Upto, Q!Body, p
<1> QED BY <1>4, <1>6, <1>7 DEF Upto, p, split

Table(g) ==
    g = [k \in 0 .. total |->
          IF k = 0 THEN <<>>
          ELSE g[k - 1] \o (IF k - 1 \in DOMAIN got THEN Q!Body(got[k - 1], k - 1) ELSE <<>>)]

\* All fragments in their order are the reply.
LEMMA JoinedIs ==
    ASSUME OfOneReply, DOMAIN got = 0 .. total - 1
    PROVE  Q!Joined = Q!Payload(replies[id], id)
<1>1. /\ IsReply(id) /\ total = replies[id].split /\ total \in Nat \ {0}
      /\ \A k \in 0 .. total - 1 : k \in DOMAIN got /\ got[k] = id
  BY DEF OfOneReply, IsReply, Reply
<1> DEFINE g == CHOOSE h : Table(h)
           w == [k \in 0 .. total |-> Upto(id, k)]
<1>2. /\ Upto(id, 0) = <<>>
      /\ \A k \in 0 .. total - 1 : Upto(id, k + 1) = Upto(id, k) \o Q!Body(id, k)
      /\ Upto(id, total) = Q!Payload(replies[id], id)
  BY <1>1, Pieces
<1>3. Table(w)
  <2>1. ASSUME NEW k \in 0 .. total
        PROVE  w[k] = IF k = 0 THEN <<>>
                      ELSE w[k - 1] \o (IF k - 1 \in DOMAIN got THEN Q!Body(got[k - 1], k - 1)
                                        ELSE <<>>)
    <3>1. CASE k = 0
      BY <1>1, <1>2, <3>1
    <3>2. CASE k # 0
      <4> DEFINE j == k - 1
      <4>1. j \in 0 .. total - 1 /\ j \in 0 .. total /\ k = j + 1
        BY <1>1, <3>2
      <4> HIDE DEF j
      <4>2. Upto(id, k) = Upto(id, j) \o Q!Body(id, j)
        BY <1>2, <4>1
      <4>3. w[k] = w[j] \o (IF j \in DOMAIN got THEN Q!Body(got[j], j) ELSE <<>>)
        BY <1>1, <4>1, <4>2
      <4> QED BY <3>2, <4>3 DEF j
    <3> QED BY <3>1, <3>2
  <2> HIDE DEF w
  <2>2. w = [k \in 0 .. total |-> w[k]]
    BY DEF w
  <2> QED BY <2>1, <2>2 DEF Table
<1> HIDE DEF w
<1>4. Table(g)
  BY <1>3, Zenon
<1>5. Q!Joined = g[total]
  BY Zenon DEF Q!Joined, Table
<1> HIDE DEF g
<1> DEFINE Some == {k \in Nat : k <= total => g[k] = Upto(id, k)}
<1>6. 0 \in Some
  BY <1>1, <1>2, <1>4 DEF Table
<1>7. ASSUME NEW k \in Nat, k \in Some PROVE k + 1 \in Some
  <2>1. CASE k + 1 <= total
    <3> DEFINE j == k + 1
    <3>1. j \in 0 .. total /\ j # 0 /\ j - 1 = k /\ k \in 0 .. total - 1
      BY <1>1, <2>1
    <3> HIDE DEF j
    <3>2. g[j] = g[j - 1] \o (IF j - 1 \in DOMAIN got THEN Q!Body(got[j - 1], j - 1) ELSE <<>>)
      BY <1>4, <3>1, Zenon DEF Table
    <3>3. g[j] = g[k] \o Q!Body(id, k)
      BY <1>1, <3>1, <3>2
    <3>4. g[k] = Upto(id, k)
      BY <1>1, <1>7, <2>1
    <3>5. g[k + 1] = Upto(id, k + 1)
      BY <1>2, <3>1, <3>3, <3>4 DEF j
    <3> QED BY <3>5
  <2>2. CASE ~(k + 1 <= total)
    BY <2>2
  <2> QED BY <2>1, <2>2
<1> HIDE DEF Some
<1>8. Nat \subseteq Some
  BY <1>6, <1>7, Induction
<1>9. g[total] = Upto(id, total)
  BY <1>1, <1>8 DEF Some
<1> QED BY <1>2, <1>5, <1>9

\* As many fragments as the reply has are all of them.
LEMMA CompleteIsAll ==
    ASSUME OfOneReply, Q!Complete
    PROVE  DOMAIN got = 0 .. total - 1
<1>1. /\ total \in Nat \ {0} /\ DOMAIN got \subseteq 0 .. total - 1
      /\ Cardinality(DOMAIN got) >= total
  BY Counting DEF OfOneReply, IsReply, Reply, Q!Complete
<1>2. IsFiniteSet(0 .. total - 1) /\ Cardinality(0 .. total - 1) = total
  <2> DEFINE top == total - 1
  <2>1. 0 \in Int /\ top \in Int /\ ~(0 > top) /\ top - 0 + 1 = total
    BY <1>1
  <2> HIDE DEF top
  <2>2. IsFiniteSet(0 .. top) /\ Cardinality(0 .. top) = total
    BY <2>1, FS_Interval
  <2> QED BY <2>2 DEF top
<1>3. Cardinality(DOMAIN got) <= total /\ IsFiniteSet(DOMAIN got)
  BY <1>1, <1>2, FS_Subset
<1>4. Cardinality(DOMAIN got) = total
  BY <1>1, <1>3, FS_CardinalityType
<1> QED BY <1>1, <1>2, <1>4, FS_Subset

-----------------------------------------------------------------------------
\* What is decoded without an error has each field in its place.
IsAnswer(query, r, n) ==
    IF query = "info" THEN Q!IsInfoOf(r.info, n) ELSE Q!ArePlayersOf(r.players, n)

LEMMA SourceIsWhole ==
    ASSUME NEW n, IsReply(n), replies[n].form = "source",
           NEW b, \A i \in 1 .. Len(b) : b[i] = <<n, i, Q!Fields(replies[n])[i]>>, Len(b) \in Nat,
           Q!DecodeInfo(b, Q!SourceLayout, Q!Info).ok
    PROVE  Q!IsInfoOf(Q!DecodeInfo(b, Q!SourceLayout, Q!Info).info, n)
<1> DEFINE At(f) == CHOOSE i \in DOMAIN Q!SourceLayout : Q!SourceLayout[i] = f
<1>1. /\ Q!Fields(replies[n]) = Q!WireSource
      /\ Len(b) >= Len(Q!SourceLayout)
      /\ Q!DecodeInfo(b, Q!SourceLayout, Q!Info).info = [f \in Q!Info |-> b[At(f)]]
  BY FieldsAre DEF Q!DecodeInfo, Q!Failed
<1>2. /\ Len(Q!SourceLayout) = 12 /\ DOMAIN Q!SourceLayout = 1 .. 12
      /\ \A i \in 1 .. 12 : Q!WireSource[i] = Q!SourceLayout[i]
  BY DEF Q!SourceLayout, Q!WireSource
<1>3. \A f \in Q!Info : \E i \in DOMAIN Q!SourceLayout : Q!SourceLayout[i] = f
  <2>1. /\ Q!SourceLayout[1] = "protocol" /\ Q!SourceLayout[2] = "name"
        /\ Q!SourceLayout[3] = "map" /\ Q!SourceLayout[5] = "game"
        /\ Q!SourceLayout[7] = "players" /\ Q!SourceLayout[8] = "max"
        /\ Q!SourceLayout[9] = "bots"
    BY DEF Q!SourceLayout
  <2> QED BY <1>2, <2>1 DEF Q!Info
<1>4. \A f \in Q!Info : At(f) \in 1 .. 12 /\ Q!SourceLayout[At(f)] = f
  BY <1>2, <1>3
<1> HIDE DEF At
<1>5. \A f \in Q!Info : b[At(f)] = <<n, At(f), f>>
  BY <1>1, <1>2, <1>4
<1> QED BY <1>1, <1>5 DEF Q!IsInfoOf

LEMMA GoldsrcIsWhole ==
    ASSUME NEW n, IsReply(n), replies[n].form = "goldsrc",
           NEW b, \A i \in 1 .. Len(b) : b[i] = <<n, i, Q!Fields(replies[n])[i]>>, Len(b) \in Nat,
           Q!DecodeInfo(b, Q!GoldsrcLayout, Q!GoldsrcInfo).ok
    PROVE  Q!IsInfoOf(Q!DecodeInfo(b, Q!GoldsrcLayout, Q!GoldsrcInfo).info, n)
<1> DEFINE At(f) == CHOOSE i \in DOMAIN Q!GoldsrcLayout : Q!GoldsrcLayout[i] = f
<1>1. /\ Q!Fields(replies[n]) = Q!WireGoldsrc
      /\ Len(b) >= Len(Q!GoldsrcLayout)
      /\ Q!DecodeInfo(b, Q!GoldsrcLayout, Q!GoldsrcInfo).info = [f \in Q!GoldsrcInfo |-> b[At(f)]]
  BY FieldsAre DEF Q!DecodeInfo, Q!Failed
<1>2. /\ Len(Q!GoldsrcLayout) = 11 /\ DOMAIN Q!GoldsrcLayout = 1 .. 11
      /\ \A i \in 1 .. 11 : Q!WireGoldsrc[i] = Q!GoldsrcLayout[i]
  BY DEF Q!GoldsrcLayout, Q!WireGoldsrc
<1>3. \A f \in Q!GoldsrcInfo : \E i \in DOMAIN Q!GoldsrcLayout : Q!GoldsrcLayout[i] = f
  <2>1. /\ Q!GoldsrcLayout[8] = "protocol" /\ Q!GoldsrcLayout[2] = "name"
        /\ Q!GoldsrcLayout[3] = "map" /\ Q!GoldsrcLayout[6] = "players"
        /\ Q!GoldsrcLayout[7] = "max"
    BY DEF Q!GoldsrcLayout
  <2> QED BY <1>2, <2>1 DEF Q!GoldsrcInfo, Q!Info
<1>4. \A f \in Q!GoldsrcInfo : At(f) \in 1 .. 11 /\ Q!GoldsrcLayout[At(f)] = f
  BY <1>2, <1>3
<1> HIDE DEF At
<1>5. \A f \in Q!GoldsrcInfo : b[At(f)] = <<n, At(f), f>>
  BY <1>1, <1>2, <1>4
<1> QED BY <1>1, <1>5 DEF Q!IsInfoOf

\* A list that has its last row was not cut.
LEMMA RowsAreWhole ==
    ASSUME NEW n, IsReply(n), replies[n].form = "rows", NEW many \in Nat, many = replies[n].rows,
           NEW b, \A i \in 1 .. Len(b) : b[i] = <<n, i, Q!Fields(replies[n])[i]>>, Len(b) \in Nat,
           Len(b) <= Len(Q!Fields(replies[n])), \E R : b \in Seq(R),
           Q!DecodePlayers(b, many).ok
    PROVE  Q!ArePlayersOf(Q!DecodePlayers(b, many).players, n)
<1>1. /\ Len(Q!Fields(replies[n])) = 1 + 4 * many
      /\ Len(b) >= 1 + 4 * many
      /\ Q!DecodePlayers(b, many).players = [i \in 1 .. many |-> SubSeq(b, 4 * i - 2, 4 * i + 1)]
  BY FieldsAre DEF Q!DecodePlayers, Q!Failed
<1>2. Len(b) = 1 + 4 * many /\ DOMAIN Q!Fields(replies[n]) = 1 .. Len(b) /\ b = [i \in 1 .. Len(b) |-> b[i]]
  BY <1>1
<1>3. b = Q!Placed(n)
  BY <1>2 DEF Q!Placed
<1> DEFINE list == [i \in 1 .. many |-> SubSeq(b, 4 * i - 2, 4 * i + 1)]
<1>4. Len(list) = many /\ DOMAIN list = 1 .. many
  OBVIOUS
<1>5. \A i \in DOMAIN list : list[i] = SubSeq(Q!Placed(n), 4 * i - 2, 4 * i + 1)
  BY <1>3
<1> HIDE DEF list
<1>6. Q!ArePlayersOf(list, n)
  BY <1>4, <1>5 DEF Q!ArePlayersOf
<1> QED BY <1>1, <1>6 DEF list

LEMMA DecodeIsWhole ==
    ASSUME NEW n, IsReply(n), NEW query,
           Q!Decoded(query, Tail(Q!Payload(replies[n], n)), replies[n].rows).ok
    PROVE  IsAnswer(query, Q!Decoded(query, Tail(Q!Payload(replies[n], n)), replies[n].rows), n)
<1> DEFINE p == Tail(Q!Payload(replies[n], n))
           b == Shown(n)
           form == replies[n].form
           many == replies[n].rows
           m == Len(Q!Fields(replies[n])) - replies[n].lost
<1>1. /\ Head(p) = form /\ Tail(p) = b /\ form \in {"source", "goldsrc", "rows"}
      /\ p # <<>> /\ Len(b) \in Nat /\ many \in Nat /\ m \in Int /\ \E R : b \in Seq(R)
      /\ m <= Len(Q!Fields(replies[n])) /\ Len(Q!Fields(replies[n])) \in Nat
  <2>1. /\ Head(p) = form /\ Tail(p) = b /\ p # <<>> /\ Len(b) \in Nat
        /\ \E R : b \in Seq(R)
    BY PayloadIs
  <2>2. form \in {"source", "goldsrc", "rows"} /\ many \in Nat /\ replies[n].lost \in Nat
    BY DEF IsReply, Reply
  <2>3. Len(Q!Fields(replies[n])) \in Nat
    BY FieldsAre
  <2>4. m \in Int /\ m <= Len(Q!Fields(replies[n]))
    BY <2>2, <2>3
  <2> HIDE DEF m
  <2> QED BY <2>1, <2>2, <2>3, <2>4
<1>2. /\ \A i \in 1 .. Len(b) : b[i] = <<n, i, Q!Fields(replies[n])[i]>>
      /\ Len(b) <= Len(Q!Fields(replies[n]))
  <2>1. b = [i \in 1 .. m |-> <<n, i, Q!Fields(replies[n])[i]>>]
    BY DEF Shown
  <2>2. CASE m \in Nat
    BY <1>1, <2>1, <2>2
  <2>3. CASE m \notin Nat
    <3>1. 1 .. m = {}
      BY <1>1, <2>3
    <3>2. b = <<>>
      BY <2>1, <3>1
    <3> QED BY <1>1, <3>2
  <2> QED BY <2>2, <2>3
<1> HIDE DEF p, b, m
<1>3. CASE query = "info" /\ form = "source"
  <2>1. Q!Decoded(query, p, many) = Q!DecodeInfo(b, Q!SourceLayout, Q!Info)
    BY <1>1, <1>3 DEF Q!Decoded
  <2> QED BY <1>2, <1>3, <2>1, SourceIsWhole DEF IsAnswer, p
<1>4. CASE query = "info" /\ form = "goldsrc"
  <2>1. Q!Decoded(query, p, many) = Q!DecodeInfo(b, Q!GoldsrcLayout, Q!GoldsrcInfo)
    BY <1>1, <1>4 DEF Q!Decoded
  <2> QED BY <1>2, <1>4, <2>1, GoldsrcIsWhole DEF IsAnswer, p
<1>5. CASE query = "players" /\ form = "rows"
  <2>1. Q!Decoded(query, p, many) = Q!DecodePlayers(b, many)
    BY <1>1, <1>5 DEF Q!Decoded
  <2>2. Q!DecodePlayers(b, many).ok
    BY <2>1 DEF p
  <2>3. Q!ArePlayersOf(Q!DecodePlayers(b, many).players, n)
    BY <1>1, <1>2, <1>5, <2>2, RowsAreWhole
  <2> QED BY <1>5, <2>1, <2>3 DEF IsAnswer, p
<1>6. ~Q!Failed("empty").ok /\ ~Q!Failed("header").ok
  BY DEF Q!Failed
<1> QED BY <1>1, <1>3, <1>4, <1>5, <1>6 DEF Q!Decoded, p

-----------------------------------------------------------------------------
LEMMA QueryInit == Q!Init => QueryInv
<1> SUFFICES ASSUME Q!Init PROVE QueryInv
  OBVIOUS
<1>1. /\ pc = "send" /\ call = 1 /\ res = <<>> /\ replies = <<>> /\ net = {}
  BY DEF Q!Init
<1>2. QueryType
  <2>1. res \in Seq({}) /\ Len(res) = 0 /\ replies \in Seq(Reply \union ChallengeReply)
    BY <1>1
  <2> QED BY <1>1, <2>1 DEF QueryType
<1>3. Q!WholeReply
  BY <1>1 DEF Q!WholeReply
<1> QED BY <1>1, <1>2, <1>3 DEF QueryInv

\* Each result is an answer of a reply.
Answers(results) ==
    \A q \in DOMAIN results : results[q].ok =>
        \E n \in DOMAIN replies : IsAnswer(Calls[q], results[q], n)

LEMMA WholeIs == Q!WholeReply <=> Answers(res)
  BY DEF Q!WholeReply, Answers, IsAnswer

LEMMA ReturnKeeps ==
    ASSUME QueryInv, NEW r, Q!Return(r), replies' = replies, net' \subseteq net,
           r.ok => \E n \in DOMAIN replies : IsAnswer(Calls[call], r, n)
    PROVE  QueryInv'
<1>1. res' = Append(res, r) /\ call' = call + 1 /\ pc' # "more"
  BY DEF Q!Return
<1>2. PICK R : res \in Seq(R)
  BY DEF QueryInv, QueryType
<1>3. call \in Nat \ {0} /\ Len(res) = call - 1
  BY DEF QueryInv, QueryType
<1> DEFINE all == R \union {r}
<1>4. res \in Seq(all) /\ r \in all
  BY <1>2
<1> HIDE DEF all
<1>5. /\ res' \in Seq(all) /\ Len(res') = call' - 1 /\ call' \in Nat \ {0}
      /\ DOMAIN res' = DOMAIN res \union {call} /\ res'[call] = r
      /\ \A q \in DOMAIN res : res'[q] = res[q]
  BY <1>1, <1>3, <1>4
<1>6. QueryType'
  BY <1>5 DEF QueryInv, QueryType
<1>7. Answers(res)'
  <2>1. Answers(res)
    BY WholeIs DEF QueryInv
  <2>2. \A q, x, n : IsAnswer(q, x, n)' = IsAnswer(q, x, n)
    BY DEF IsAnswer, Q!IsInfoOf, Q!ArePlayersOf, Q!Placed
  <2> SUFFICES ASSUME NEW q \in DOMAIN res', res'[q].ok
               PROVE  \E n \in DOMAIN replies : IsAnswer(Calls[q], res'[q], n)
    BY <2>2 DEF Answers
  <2>3. CASE q = call
    BY <1>5, <2>3
  <2>4. CASE q \in DOMAIN res
    BY <1>5, <2>1, <2>4 DEF Answers
  <2> QED BY <1>5, <2>3, <2>4
<1>8. \A d \in net' : IsWritten(d)'
  BY DEF QueryInv, IsWritten, IsReply
<1>9. Q!WholeReply' <=> Answers(res)'
  BY WholeIs, PTL
<1> QED BY <1>1, <1>6, <1>7, <1>8, <1>9 DEF QueryInv

\* A step of the client that returns nothing.
LEMMA GoesOn ==
    ASSUME QueryInv, UNCHANGED <<call, res, replies>>, net' \subseteq net,
           (pc = "more" => OfOneReply) => (pc' = "more" => OfOneReply')
    PROVE  QueryInv'
<1>1. QueryType'
  BY DEF QueryInv, QueryType
<1>2. \A d \in net' : IsWritten(d)'
  BY DEF QueryInv, IsWritten, IsReply
<1>3. Q!WholeReply'
  BY DEF QueryInv, Q!WholeReply, Q!IsInfoOf, Q!ArePlayersOf, Q!Placed
<1> QED BY <1>1, <1>2, <1>3 DEF QueryInv

LEMMA OneReplyStays ==
    ASSUME OfOneReply, UNCHANGED <<id, total, got, replies>> PROVE OfOneReply'
BY DEF OfOneReply, IsReply

LEMMA NotOk == \A why : ~Q!Failed(why).ok
  BY DEF Q!Failed

LEMMA SendKeeps == QueryInv /\ Q!Send => QueryInv'
<1> SUFFICES ASSUME QueryInv, Q!Send PROVE QueryInv'
  OBVIOUS
<1>1. pc' = "read" /\ UNCHANGED <<call, res, replies, net>>
  BY DEF Q!Send, Q!Quiet
<1> QED BY <1>1, GoesOn

LEMMA TooLateKeeps == QueryInv /\ Q!TooLate => QueryInv'
<1> SUFFICES ASSUME QueryInv, Q!TooLate PROVE QueryInv'
  OBVIOUS
<1>1. PICK why : Q!Return(Q!Failed(why)) /\ UNCHANGED <<replies, net>>
  BY DEF Q!TooLate, Q!Quiet
<1> QED BY <1>1, NotOk, ReturnKeeps

LEMMA ChallengeKeeps == QueryInv /\ Q!ReadChallenge => QueryInv'
<1> SUFFICES ASSUME QueryInv, Q!ReadChallenge PROVE QueryInv'
  OBVIOUS
<1>1. net' \subseteq net /\ replies' = replies
  BY DEF Q!ReadChallenge, Q!Read, Q!Quiet
<1>2. \/ Q!Return(Q!Failed("challenged"))
      \/ pc' = "send" /\ UNCHANGED <<call, res>>
  BY DEF Q!ReadChallenge
<1> QED BY <1>1, <1>2, NotOk, ReturnKeeps, GoesOn

LEMMA SingleKeeps == QueryInv /\ Q!ReadSingle => QueryInv'
<1> SUFFICES ASSUME QueryInv, Q!ReadSingle PROVE QueryInv'
  OBVIOUS
<1>1. PICK d \in net :
        /\ d.type = "single" /\ Q!Read(d)
        /\ Q!Return(Q!Decoded(Calls[call], Tail(Q!Payload(replies[d.reply], d.reply)),
                             replies[d.reply].rows))
  BY DEF Q!ReadSingle
<1>2. net' \subseteq net /\ replies' = replies
  BY <1>1 DEF Q!ReadSingle, Q!Read, Q!Quiet
<1>3. IsReply(d.reply)
  BY <1>1 DEF QueryInv, IsWritten
<1> DEFINE r == Q!Decoded(Calls[call], Tail(Q!Payload(replies[d.reply], d.reply)),
                          replies[d.reply].rows)
<1>4. r.ok => IsAnswer(Calls[call], r, d.reply)
  BY <1>3, DecodeIsWhole
<1>5. d.reply \in DOMAIN replies
  BY <1>3 DEF IsReply
<1> HIDE DEF r
<1>6. Q!Return(r)
  BY <1>1 DEF r
<1> QED BY <1>2, <1>4, <1>5, <1>6, ReturnKeeps

LEMMA FragmentKeeps == QueryInv /\ Q!ReadFragment => QueryInv'
<1> SUFFICES ASSUME QueryInv, Q!ReadFragment PROVE QueryInv'
  OBVIOUS
<1>1. PICK d \in net :
        /\ d.type = "split" /\ Q!Read(d)
        /\ \/ Q!Return(Q!Failed("unsupported"))
           \/ /\ id' = d.reply /\ total' = Q!Total(d)
              /\ got' = [k \in {d.number} |-> d.reply]
              /\ UNCHANGED <<call, res>>
  BY DEF Q!ReadFragment
<1>2. net' \subseteq net /\ replies' = replies
  BY <1>1 DEF Q!ReadFragment, Q!Read, Q!Quiet
<1>3. CASE Q!Return(Q!Failed("unsupported"))
  BY <1>2, <1>3, NotOk, ReturnKeeps
<1>4. CASE /\ id' = d.reply /\ total' = Q!Total(d)
           /\ got' = [k \in {d.number} |-> d.reply]
           /\ UNCHANGED <<call, res>>
  <2>1. IsReply(d.reply) /\ d.number \in 0 .. replies[d.reply].split - 1
    BY <1>1 DEF QueryInv, IsWritten
  <2>2. replies[d.reply].split # 0
    BY <2>1
  <2>3. OfOneReply'
    BY <1>2, <1>4, <2>1, <2>2 DEF OfOneReply, IsReply, Q!Total
  <2> QED BY <1>2, <1>4, <2>3, GoesOn
<1> QED BY <1>1, <1>3, <1>4

LEMMA CollectKeeps == QueryInv /\ Q!Collect => QueryInv'
<1> SUFFICES ASSUME QueryInv, Q!Collect PROVE QueryInv'
  OBVIOUS
<1>1. PICK d \in net :
        /\ Q!Read(d)
        /\ \/ UNCHANGED <<pc, call, tries, id, total, got, res>>
           \/ Q!Return(Q!Failed("unsupported"))
           \/ /\ d.type = "split"
              /\ got' = IF Q!SameReply(d) THEN Q!Added(d) ELSE got
              /\ UNCHANGED <<pc, call, tries, id, total, res>>
  BY DEF Q!Collect, Q!client
<1>2. net' \subseteq net /\ replies' = replies /\ pc = "more" /\ OfOneReply
  BY <1>1 DEF Q!Collect, Q!Read, Q!Quiet, QueryInv
<1>3. CASE UNCHANGED <<pc, call, tries, id, total, got, res>>
  BY <1>2, <1>3, GoesOn, OneReplyStays
<1>4. CASE Q!Return(Q!Failed("unsupported"))
  BY <1>2, <1>4, NotOk, ReturnKeeps
<1>5. CASE /\ d.type = "split"
           /\ got' = IF Q!SameReply(d) THEN Q!Added(d) ELSE got
           /\ UNCHANGED <<pc, call, tries, id, total, res>>
  <2>1. CASE ~Q!SameReply(d)
    BY <1>2, <1>5, <2>1, GoesOn, OneReplyStays
  <2>2. CASE Q!SameReply(d)
    <3>1. d.reply = id /\ d.number \in 0 .. total - 1
      BY <1>1, <1>2, <1>5, <2>2 DEF QueryInv, IsWritten, Q!SameReply, OfOneReply
    <3>2. got' = [k \in DOMAIN got \union {d.number} |-> IF k = d.number THEN id ELSE got[k]]
      BY <1>5, <2>2, <3>1 DEF Q!Added
    <3>3. OfOneReply'
      BY <1>2, <1>5, <3>1, <3>2 DEF OfOneReply, IsReply
    <3> QED BY <1>2, <1>5, <3>3, GoesOn
  <2> QED BY <2>1, <2>2
<1> QED BY <1>1, <1>3, <1>4, <1>5

LEMMA ReassembleKeeps == QueryInv /\ Q!Reassemble => QueryInv'
<1> SUFFICES ASSUME QueryInv, Q!Reassemble PROVE QueryInv'
  OBVIOUS
<1>1. /\ pc = "more" /\ Q!Complete /\ UNCHANGED <<net, replies>>
      /\ Q!Return(Q!Decoded(Calls[call], Q!Stripped(Q!Joined), replies[id].rows))
  BY DEF Q!Reassemble, Q!Quiet
<1>2. OfOneReply /\ IsReply(id) /\ id \in DOMAIN replies
  BY <1>1 DEF QueryInv, OfOneReply, IsReply
<1>3. Q!Joined = Q!Payload(replies[id], id)
  BY <1>1, <1>2, CompleteIsAll, JoinedIs
<1>4. Q!Stripped(Q!Joined) = Tail(Q!Payload(replies[id], id))
  BY <1>2, <1>3, PayloadIs DEF Q!Stripped
<1> DEFINE r == Q!Decoded(Calls[call], Tail(Q!Payload(replies[id], id)), replies[id].rows)
<1>5. r.ok => IsAnswer(Calls[call], r, id)
  BY <1>2, DecodeIsWhole
<1>6. Q!Return(r)
  BY <1>1, <1>4
<1> HIDE DEF r
<1> QED BY <1>1, <1>2, <1>5, <1>6, ReturnKeeps

\* The server writes a reply and sends some of it.
LEMMA ServerKeeps ==
    ASSUME QueryInv, NEW x \in Reply \union ChallengeReply, replies' = Append(replies, x),
           UNCHANGED <<pc, call, id, total, got, res>>,
           \A d \in net' \ net : IsWritten(d)'
    PROVE  QueryInv'
<1>1. replies \in Seq(Reply \union ChallengeReply)
  BY DEF QueryInv, QueryType
<1> DEFINE all == Reply \union ChallengeReply
<1> HIDE DEF all
<1>2. /\ replies' \in Seq(all) /\ DOMAIN replies \subseteq DOMAIN replies'
      /\ \A n \in DOMAIN replies : replies'[n] = replies[n]
  BY <1>1 DEF all
<1>3. QueryType'
  BY <1>2 DEF QueryInv, QueryType, all
<1>4. \A n : IsReply(n) => IsReply(n)'
  BY <1>2 DEF IsReply
<1>5. \A d \in net' : IsWritten(d)'
  <2> SUFFICES ASSUME NEW d \in net PROVE IsWritten(d)'
    OBVIOUS
  <2>1. IsWritten(d)
    BY DEF QueryInv
  <2> QED BY <1>2, <1>4, <2>1 DEF IsWritten, IsReply
<1>6. pc' = "more" => OfOneReply'
  BY <1>2, <1>4 DEF QueryInv, OfOneReply, IsReply
<1>7. Answers(res)'
  <2>1. Answers(res)
    BY WholeIs DEF QueryInv
  <2>2. \A n \in DOMAIN replies : \A q, y : IsAnswer(q, y, n) => IsAnswer(q, y, n)'
    BY <1>2 DEF IsAnswer, Q!IsInfoOf, Q!ArePlayersOf, Q!Placed
  <2> QED BY <1>2, <2>1, <2>2 DEF Answers
<1>8. Q!WholeReply' <=> Answers(res)'
  BY WholeIs, PTL
<1> QED BY <1>3, <1>5, <1>6, <1>7, <1>8 DEF QueryInv

LEMMA ServerAnswers ==
    ASSUME QueryInv, Q!Challenges \/ Q!AnswersWhole \/ Q!AnswersSplit PROVE QueryInv'
<1>1. /\ UNCHANGED <<pc, call, id, total, got, res>>
      /\ replies \in Seq(Reply \union ChallengeReply) /\ Q!Written \in Nat
      /\ Q!Written = Len(replies)
  BY DEF Q!Challenges, Q!AnswersWhole, Q!AnswersSplit, Q!client, QueryInv, QueryType, Q!Written
<1> DEFINE all == Reply \union ChallengeReply
<1>0. PICK new \in Nat : new = Q!Written + 1
  BY <1>1
<1>2. ASSUME NEW x \in Reply, replies' = Append(replies, x)
      PROVE  IsReply(new)' /\ replies'[new] = x
  <2>1. x \in all /\ replies \in Seq(all)
    BY <1>1
  <2> HIDE DEF all
  <2>2. new \in DOMAIN replies' /\ replies'[new] = x
    BY <1>0, <1>1, <1>2, <2>1
  <2> QED BY <2>2 DEF IsReply
<1>3. CASE Q!Challenges
  <2>1. [form |-> "challenge"] \in all
    BY DEF ChallengeReply
  <2>2. replies' = Append(replies, [form |-> "challenge"]) /\ net' = net \union {Q!Challenge}
    BY <1>3 DEF Q!Challenges
  <2>3. \A d \in net' \ net : IsWritten(d)'
    BY <2>2 DEF IsWritten, Q!Challenge
  <2> QED BY <1>1, <2>1, <2>2, <2>3, ServerKeeps
<1>4. CASE Q!AnswersWhole
  <2>1. PICK form \in {"source", "goldsrc", "rows"}, many \in 0 .. MaxRows, lost \in Losses :
          replies' = Append(replies, [form |-> form, rows |-> many, lost |-> lost,
                                      split |-> 0, mark |-> "plain"])
    BY <1>4 DEF Q!AnswersWhole
  <2> DEFINE x == [form |-> form, rows |-> many, lost |-> lost, split |-> 0, mark |-> "plain"]
  <2>2. x \in Reply
    <3>1. lost \in Nat /\ many \in Nat
      BY ConstantsAssumption DEF Q!A2SAssumption
    <3> QED BY <3>1 DEF Reply
  <2>3. replies' = Append(replies, x)
    BY <2>1
  <2> HIDE DEF x
  <2>4. net' = net \union {Q!Single(Q!Written + 1)}
    BY <1>4 DEF Q!AnswersWhole
  <2>5. \A d \in net' \ net : d.type = "single" /\ d.reply = new
    BY <1>0, <2>4 DEF Q!Single
  <2>6. \A d \in net' \ net : IsWritten(d)'
    BY <1>2, <2>2, <2>3, <2>5 DEF IsWritten
  <2> QED BY <1>1, <2>2, <2>3, <2>6, ServerKeeps
<1>5. CASE Q!AnswersSplit
  <2>1. PICK s \in Splits :
          /\ replies' = Append(replies, [form |-> IF asked = "info" THEN "source" ELSE "rows",
                                         rows |-> IF asked = "info" THEN 0 ELSE MaxRows,
                                         lost |-> 0, split |-> s[1], mark |-> s[2]])
          /\ net' = net \union {Q!Fragment(Q!Written + 1, k) : k \in 0 .. s[1] - 1}
    BY <1>5 DEF Q!AnswersSplit
  <2> DEFINE x == [form |-> IF asked = "info" THEN "source" ELSE "rows",
                   rows |-> IF asked = "info" THEN 0 ELSE MaxRows,
                   lost |-> 0, split |-> s[1], mark |-> s[2]]
  <2>2. x \in Reply /\ x.split = s[1]
    <3>1. s[1] \in Nat /\ MaxRows \in Nat
      BY ConstantsAssumption DEF Q!A2SAssumption
    <3> QED BY <3>1 DEF Reply
  <2>3. replies' = Append(replies, x)
    BY <2>1
  <2> HIDE DEF x
  <2>4. \A d \in net' \ net : /\ d.type = "split" /\ d.reply = new
                             /\ d.number \in 0 .. x.split - 1
    BY <1>0, <2>1, <2>2 DEF Q!Fragment
  <2>5. \A d \in net' \ net : IsWritten(d)'
    BY <1>2, <2>2, <2>3, <2>4 DEF IsWritten
  <2> QED BY <1>1, <2>2, <2>3, <2>5, ServerKeeps
<1> QED BY <1>3, <1>4, <1>5

LEMMA QueryStep == QueryInv /\ [Q!Next]_queryVars => QueryInv'
<1> SUFFICES ASSUME QueryInv, [Q!Next]_queryVars PROVE QueryInv'
  OBVIOUS
<1>1. CASE Q!Client
  BY <1>1, SendKeeps, TooLateKeeps, ChallengeKeeps, SingleKeeps, FragmentKeeps, CollectKeeps,
     ReassembleKeeps DEF Q!Client
<1>2. CASE Q!Challenges \/ Q!AnswersWhole \/ Q!AnswersSplit
  BY <1>2, ServerAnswers
<1>3. CASE Q!Expires
  <2>1. UNCHANGED <<pc, call, id, total, got, res, replies, net>>
    BY <1>3 DEF Q!Expires, Q!client
  <2> QED BY <2>1, GoesOn, OneReplyStays
<1>4. CASE UNCHANGED queryVars
  <2>1. UNCHANGED <<pc, call, id, total, got, res, replies, net>>
    BY <1>4 DEF queryVars
  <2> QED BY <2>1, GoesOn, OneReplyStays
<1> QED BY <1>1, <1>2, <1>3, <1>4 DEF Q!Next

LEMMA QueryNext ==
  ASSUME QueryInv, [PartsNext]_<<focus, vars, accountVars, throttleVars, capsVars, loadoutVars,
                                 queryVars, fetchVars, treeVars, fileVars>>
  PROVE  QueryInv'
<1>1. [Q!Next]_queryVars
  BY DEF PartsNext
<1> QED BY <1>1, QueryStep

\* What a query returns without an error is one reply, whole, though fragments of
\* several replies come in any order, twice or not at all: those at hand are of one
\* reply, and as many as it has are all of them.
THEOREM RepliesAreWhole == PartsSpec => []WholeReply
<1>1. PartsInit => QueryInv
  BY QueryInit DEF PartsInit
<1>2. QueryInv => WholeReply
  BY DEF QueryInv, WholeReply
<1> QED BY <1>1, <1>2, QueryNext, PTL DEF PartsSpec

------------------------------------------------------------------------------
(***************************************************************************)
(* Proofs: the loadouts.  Each statement of a save that runs alone is left *)
(* to run or done; and what is done stays so, for no two of its statements *)
(* are about one row, and nobody else writes.                              *)
(***************************************************************************)

In(key) == {key[i] : i \in DOMAIN key}

\* The statements of a loadout.
Wanted(lo) == UNION {In(task.key) : task \in L!Tasks(lo)}

\* The statements that a request has left.
Left(cl) == In(cl.key) \union UNION {In(task.key) : task \in cl.todo}

Done(st) ==
    \/ st.op = "insert" /\ L!Holds(st.row, st.value)
    \/ st.op = "delete" /\ st.row \notin DOMAIN wp

\* The rows of its guns are not those of its gloves.
Fits(lo) ==
    \A s \in L!Sides : lo.gloves[s] # <<>> => lo.gloves[s][1] \notin DOMAIN lo.skins[s]

IsRequest(cl) ==
    /\ cl = [pc |-> cl.pc, lo |-> cl.lo, todo |-> cl.todo, key |-> cl.key, alone |-> cl.alone]
    /\ cl.pc \in {"idle", "put", "sync"} /\ cl.alone \in BOOLEAN
    /\ cl.pc # "idle" => Fits(cl.lo)
    /\ cl.pc = "put" => cl.key = <<>> /\ cl.todo = {}
    /\ cl.pc = "sync" => cl.todo \subseteq L!Tasks(cl.lo) /\ cl.key \in Seq(Wanted(cl.lo))

\* A save that runs alone writes what is stored.
Follows(cl) ==
    /\ meta = cl.lo
    /\ \A st \in Wanted(cl.lo) : st \in Left(cl) \/ Done(st)

LoadoutInv ==
    /\ client = [c \in Clients |-> client[c]]
    /\ \A c \in Clients : IsRequest(client[c])
    /\ \A c, d \in Clients : c # d /\ L!Syncing(c) /\ L!Syncing(d) => ~client[c].alone
    /\ \A c \in Clients : Sync /\ L!Syncing(c) /\ client[c].alone => Follows(client[c])
    /\ applied =>
         /\ \A c \in Clients : ~L!Syncing(c)
         /\ \A st \in Wanted(meta) : Done(st)

LEMMA GloveKeyIs ==
    ASSUME NEW lo, NEW s
    PROVE  /\ In(L!GloveKey(lo, s)) =
                IF Len(lo.gloves[s]) # 2 THEN {L!Bad}
                ELSE {L!Insert(<<"gloves", s>>, lo.gloves[s][1])} \union
                     (IF lo.gloves[s][2] = "0" THEN {}
                      ELSE {L!Insert(<<"skin", s, lo.gloves[s][1]>>, lo.gloves[s][2])})
           /\ L!GloveKey(lo, s) # <<>>
           /\ L!GloveKey(lo, s) \in Seq(In(L!GloveKey(lo, s)))
<1> DEFINE a == L!Insert(<<"gloves", s>>, lo.gloves[s][1])
           b == L!Insert(<<"skin", s, lo.gloves[s][1]>>, lo.gloves[s][2])
<1>1. L!GloveKey(lo, s) = IF Len(lo.gloves[s]) # 2 THEN <<L!Bad>>
                          ELSE IF lo.gloves[s][2] = "0" THEN <<a>> ELSE <<a, b>>
  BY DEF L!GloveKey
<1> HIDE DEF a, b
<1>2. \A x, y : /\ In(<<x>>) = {x} /\ In(<<x, y>>) = {x, y}
                /\ <<x>> # <<>> /\ <<x, y>> # <<>>
                /\ <<x>> \in Seq({x}) /\ <<x, y>> \in Seq({x, y})
  BY DEF In
<1>3. CASE Len(lo.gloves[s]) # 2
  BY <1>1, <1>2, <1>3
<1>4. CASE Len(lo.gloves[s]) = 2 /\ lo.gloves[s][2] = "0"
  BY <1>1, <1>2, <1>4 DEF a
<1>5. CASE Len(lo.gloves[s]) = 2 /\ lo.gloves[s][2] # "0"
  BY <1>1, <1>2, <1>5 DEF a, b
<1> QED BY <1>3, <1>4, <1>5

LEMMA TasksAre ==
    ASSUME NEW lo, NEW task \in L!Tasks(lo)
    PROVE  /\ task.key # <<>> /\ task.stage \in Nat
           /\ task.key \in Seq(In(task.key))
           /\ \/ \E s \in L!Sides : /\ lo.knife[s] \notin {"", "default"}
                                    /\ In(task.key) = {L!Insert(<<"knife", s>>, lo.knife[s])}
              \/ \E s \in L!Sides : /\ lo.gloves[s] # <<>>
                                    /\ In(task.key) = In(L!GloveKey(lo, s))
              \/ In(task.key) = {L!Insert(<<"agents">>, lo.agent)}
              \/ \E s \in L!Sides : \E w \in DOMAIN lo.skins[s] :
                   In(task.key) = {L!SkinStatement(lo, s, w)}
<1>1. \A x : In(<<x>>) = {x} /\ <<x>> # <<>> /\ <<x>> \in Seq({x})
  BY DEF In
<1> DEFINE Alone(x) == task.key = <<x>> /\ task.stage \in Nat
<1>7. \A x : Alone(x) => /\ task.key # <<>> /\ task.stage \in Nat
                         /\ task.key \in Seq(In(task.key)) /\ In(task.key) = {x}
  BY <1>1
<1>2. CASE task \in L!KnifeTasks(lo)
  <2>1. PICK s \in L!Sides : /\ lo.knife[s] \notin {"", "default"}
                            /\ task = L!Task(1, <<L!Insert(<<"knife", s>>, lo.knife[s])>>)
    BY <1>2 DEF L!KnifeTasks
  <2>2. Alone(L!Insert(<<"knife", s>>, lo.knife[s]))
    BY <2>1 DEF L!Task
  <2> HIDE DEF Alone
  <2> QED BY <1>7, <2>1, <2>2
<1>3. CASE task \in L!GloveTasks(lo)
  <2>1. PICK s \in L!Sides : lo.gloves[s] # <<>> /\ task = L!Task(2, L!GloveKey(lo, s))
    BY <1>3 DEF L!GloveTasks
  <2>2. task.key = L!GloveKey(lo, s) /\ task.stage = 2
    BY <2>1 DEF L!Task
  <2>3. task.key # <<>> /\ task.key \in Seq(In(task.key))
    BY <2>2, GloveKeyIs
  <2>4. task.stage \in Nat
    BY <2>2
  <2>5. In(task.key) = In(L!GloveKey(lo, s))
    BY <2>2
  <2> QED BY Zenon, <2>1, <2>3, <2>4, <2>5
<1>4. CASE task \in L!AgentTasks(lo)
  <2>2. task \in {L!Task(3, <<L!Insert(<<"agents">>, lo.agent)>>)}
    BY <1>4 DEF L!AgentTasks
  <2>3. task = L!Task(3, <<L!Insert(<<"agents">>, lo.agent)>>)
    BY <2>2
  <2>1. Alone(L!Insert(<<"agents">>, lo.agent))
    BY <2>3 DEF L!Task
  <2> HIDE DEF Alone
  <2> QED BY <1>7, <2>1
<1>5. ASSUME NEW s \in L!Sides, NEW n \in Nat, task \in L!SkinTasks(lo, n, s)
      PROVE  /\ task.key # <<>> /\ task.stage \in Nat
             /\ task.key \in Seq(In(task.key))
             /\ \E w \in DOMAIN lo.skins[s] : In(task.key) = {L!SkinStatement(lo, s, w)}
  <2>1. PICK w \in DOMAIN lo.skins[s] : task = L!Task(n, <<L!SkinStatement(lo, s, w)>>)
    BY <1>5 DEF L!SkinTasks
  <2>2. Alone(L!SkinStatement(lo, s, w))
    BY <2>1 DEF L!Task
  <2> HIDE DEF Alone
  <2> QED BY <1>7, <2>2
<1>6. "t" \in L!Sides /\ "ct" \in L!Sides
  BY DEF L!Sides
<1> QED BY <1>2, <1>3, <1>4, <1>5, <1>6 DEF L!Tasks

LEMMA WantedAre ==
    ASSUME NEW lo, NEW st \in Wanted(lo)
    PROVE  \/ \E s \in L!Sides : st = L!Insert(<<"knife", s>>, lo.knife[s])
           \/ \E s \in L!Sides : lo.gloves[s] # <<>> /\ st \in In(L!GloveKey(lo, s))
           \/ st = L!Insert(<<"agents">>, lo.agent)
           \/ \E s \in L!Sides : \E w \in DOMAIN lo.skins[s] : st = L!SkinStatement(lo, s, w)
<1>1. PICK task \in L!Tasks(lo) : st \in In(task.key)
  BY DEF Wanted
<1> QED BY <1>1, TasksAre

\* No two statements of a loadout are about one row.
LEMMA OneStatementARow ==
    ASSUME NEW lo, Fits(lo), NEW one \in Wanted(lo), NEW two \in Wanted(lo), one.row = two.row
    PROVE  one = two
<1> DEFINE Knife(st, s) == st = L!Insert(<<"knife", s>>, lo.knife[s])
           Glove(st, s) == st = L!Insert(<<"gloves", s>>, lo.gloves[s][1])
           Paint(st, s) == /\ lo.gloves[s] # <<>>
                           /\ st = L!Insert(<<"skin", s, lo.gloves[s][1]>>, lo.gloves[s][2])
           Agents(st) == st = L!Insert(<<"agents">>, lo.agent)
           Skin(st, s, w) == w \in DOMAIN lo.skins[s] /\ st = L!SkinStatement(lo, s, w)
           Other(st) == st = L!Bad
<1>1. ASSUME NEW st \in Wanted(lo)
      PROVE  \/ \E s \in L!Sides : Knife(st, s)
             \/ \E s \in L!Sides : Glove(st, s)
             \/ \E s \in L!Sides : Paint(st, s)
             \/ Agents(st) \/ Other(st)
             \/ \E s \in L!Sides : \E w : Skin(st, s, w)
  BY WantedAre, GloveKeyIs
<1>2. \A st, s : Knife(st, s) => st.row[1] = "knife" /\ st.row[2] = s
  BY DEF L!Insert
<1>3. \A st, s : Glove(st, s) => st.row[1] = "gloves" /\ st.row[2] = s
  BY DEF L!Insert
<1>12. \A st, s : Paint(st, s) => st.row[1] = "skin" /\ st.row[2] = s /\ st.row[3] = lo.gloves[s][1]
  BY DEF L!Insert
<1>13. \A st : Agents(st) => st.row[1] = "agents"
  BY DEF L!Insert
<1>14. \A st : Other(st) => st.row[1] = "none"
  <2>1. L!Bad.row = <<"none">>
    BY DEF L!Bad
  <2> QED BY <2>1
<1>15. \A st, s, w : Skin(st, s, w) => st.row[1] = "skin" /\ st.row[2] = s /\ st.row[3] = w
  <2>1. \A s, w : L!SkinStatement(lo, s, w).row = <<"skin", s, w>>
    BY DEF L!Insert, L!Delete, L!SkinStatement
  <2> QED BY <2>1
<1>4. \A s \in L!Sides : \A w : ~(Paint(one, s) /\ Skin(two, s, w) /\ w = lo.gloves[s][1])
  BY DEF Fits
<1>5. \A s \in L!Sides : \A w : ~(Paint(two, s) /\ Skin(one, s, w) /\ w = lo.gloves[s][1])
  BY DEF Fits
<1>6. CASE \E s \in L!Sides : Knife(one, s)
  <2>1. PICK s \in L!Sides : Knife(one, s)
    BY <1>6
  <2> HIDE DEF Knife, Glove, Paint, Agents, Skin, Other
  <2>2. Knife(two, s)
    BY <1>1, <1>2, <1>3, <1>12, <1>13, <1>14, <1>15, <2>1
  <2> QED BY <2>1, <2>2 DEF Knife
<1>7. CASE \E s \in L!Sides : Glove(one, s)
  <2>1. PICK s \in L!Sides : Glove(one, s)
    BY <1>7
  <2> HIDE DEF Knife, Glove, Paint, Agents, Skin, Other
  <2>2. Glove(two, s)
    BY <1>1, <1>2, <1>3, <1>12, <1>13, <1>14, <1>15, <2>1
  <2> QED BY <2>1, <2>2 DEF Glove
<1>8. CASE \E s \in L!Sides : Paint(one, s)
  <2>1. PICK s \in L!Sides : Paint(one, s)
    BY <1>8
  <2> HIDE DEF Knife, Glove, Paint, Agents, Skin, Other
  <2>2. Paint(two, s)
    BY <1>1, <1>2, <1>3, <1>12, <1>13, <1>14, <1>15, <1>4, <2>1
  <2> QED BY <2>1, <2>2 DEF Paint
<1>9. CASE Agents(one)
  <2> HIDE DEF Knife, Glove, Paint, Agents, Skin, Other
  <2>2. Agents(two)
    BY <1>1, <1>2, <1>3, <1>12, <1>13, <1>14, <1>15, <1>9
  <2> QED BY <1>9, <2>2 DEF Agents
<1>10. CASE Other(one)
  <2> HIDE DEF Knife, Glove, Paint, Agents, Skin, Other
  <2>2. Other(two)
    BY <1>1, <1>2, <1>3, <1>12, <1>13, <1>14, <1>15, <1>10
  <2> QED BY <1>10, <2>2 DEF Other
<1>11. CASE \E s \in L!Sides : \E w : Skin(one, s, w)
  <2>1. PICK s \in L!Sides : \E w : Skin(one, s, w)
    BY <1>11
  <2>3. PICK w : Skin(one, s, w)
    BY <2>1
  <2> HIDE DEF Knife, Glove, Paint, Agents, Skin, Other
  <2>2. Skin(two, s, w)
    BY <1>1, <1>2, <1>3, <1>12, <1>13, <1>14, <1>15, <1>5, <2>3
  <2> QED BY <2>3, <2>2 DEF Skin
<1> HIDE DEF Knife, Glove, Paint, Agents, Skin, Other
<1> QED BY <1>1, <1>6, <1>7, <1>8, <1>9, <1>10, <1>11

\* What comes next is of the statements that are left.
LEMMA TurnedAre ==
    ASSUME NEW cl, IsRequest(cl), cl.pc = "sync", NEW one \in L!Turned(cl)
    PROVE  /\ IsRequest(one) /\ one.pc = "sync"
           /\ one.lo = cl.lo /\ one.alone = cl.alone
           /\ one.key # <<>> /\ Left(one) = Left(cl)
<1>1. CASE cl.key # <<>>
  BY <1>1 DEF L!Turned
<1>2. CASE cl.key = <<>>
  <2>1. PICK task \in cl.todo : one = [cl EXCEPT !.key = task.key, !.todo = @ \ {task}]
    BY <1>2 DEF L!Turned
  <2>2. /\ one = [pc |-> cl.pc, lo |-> cl.lo, todo |-> cl.todo \ {task}, key |-> task.key,
                  alone |-> cl.alone]
    BY <2>1 DEF IsRequest
  <2>3. task \in L!Tasks(cl.lo) /\ cl.todo \subseteq L!Tasks(cl.lo)
    BY DEF IsRequest
  <2>4. task.key # <<>> /\ task.key \in Seq(In(task.key))
    BY <2>3, TasksAre
  <2>5. In(task.key) \subseteq Wanted(cl.lo)
    BY <2>3 DEF Wanted
  <2>6. task.key \in Seq(Wanted(cl.lo))
    BY <2>4, <2>5
  <2>7. In(<<>>) = {}
    BY DEF In
  <2>8. Left(one) = Left(cl)
    <3>1. Left(one) = In(task.key) \union UNION {In(other.key) : other \in cl.todo \ {task}}
      BY <2>2 DEF Left
    <3>2. Left(cl) = UNION {In(other.key) : other \in cl.todo}
      BY <1>2, <2>7 DEF Left
    <3> QED BY <3>1, <3>2
  <2>9. /\ one.pc = cl.pc /\ one.lo = cl.lo /\ one.todo = cl.todo \ {task}
        /\ one.key = task.key /\ one.alone = cl.alone
    BY <2>2
  <2>10. IsRequest(one)
    <3>1. one = [pc |-> one.pc, lo |-> one.lo, todo |-> one.todo, key |-> one.key,
                 alone |-> one.alone]
      BY <2>2, <2>9
    <3>2. one.alone \in BOOLEAN /\ Fits(one.lo)
      BY <2>9 DEF IsRequest
    <3> QED BY <3>1, <3>2, <2>9, <2>3, <2>6 DEF IsRequest
  <2> QED BY <2>4, <2>8, <2>9, <2>10
<1> QED BY <1>1, <1>2

\* A save ends when nothing is left.
LEMMA NothingIsLeft ==
    ASSUME NEW cl, IsRequest(cl), cl.pc = "sync", L!Turned(cl) = {}
    PROVE  Left(cl) = {}
<1>1. cl.key = <<>>
  BY DEF L!Turned
<1>2. ASSUME cl.todo # {} PROVE FALSE
  <2>1. {task.stage : task \in cl.todo} \subseteq Nat
    BY TasksAre DEF IsRequest
  <2>2. {task.stage : task \in cl.todo} # {}
    BY <1>2
  <2>3. PICK n \in {task.stage : task \in cl.todo} :
               \A m \in {task.stage : task \in cl.todo} : n <= m
    BY <2>1, <2>2, LeastElement
  <2>4. PICK task \in cl.todo : task.stage = n
    OBVIOUS
  <2>5. \A other \in cl.todo : task.stage <= other.stage
    BY <2>3, <2>4
  <2> QED BY <1>1, <2>4, <2>5 DEF L!Turned
<1>3. In(<<>>) = {}
  BY DEF In
<1> QED BY <1>1, <1>2, <1>3 DEF Left

\* Executing a statement takes it from what is left.
LEMMA TailIs ==
    ASSUME NEW U, NEW key \in Seq(U), key # <<>>
    PROVE  /\ Head(key) \in In(key) /\ Head(key) \in U
           /\ In(key) = {Head(key)} \union In(Tail(key))
           /\ Tail(key) \in Seq(U)
<1>1. Len(key) \in Nat /\ Len(key) # 0 /\ DOMAIN key = 1 .. Len(key) /\ Head(key) = key[1]
  OBVIOUS
<1>2. Head(key) \in In(key) /\ Head(key) \in U /\ Tail(key) \in Seq(U)
  BY <1>1 DEF In
<1>3. Len(Tail(key)) = Len(key) - 1 /\ \A i \in 1 .. Len(key) - 1 : Tail(key)[i] = key[i + 1]
  OBVIOUS
<1>4. ASSUME NEW x \in In(key), x # Head(key) PROVE x \in In(Tail(key))
  <2>1. PICK i \in DOMAIN key : x = key[i]
    BY <1>4 DEF In
  <2>2. i \in 2 .. Len(key)
    BY <1>1, <1>4, <2>1
  <2>3. i - 1 \in 1 .. Len(key) - 1 /\ x = Tail(key)[i - 1]
    BY <1>1, <1>3, <2>1, <2>2
  <2>4. i - 1 \in DOMAIN Tail(key)
    BY <1>2, <1>3, <2>3
  <2> QED BY <2>3, <2>4 DEF In
<1>5. ASSUME NEW x \in In(Tail(key)) PROVE x \in In(key)
  <2>1. PICK i \in DOMAIN Tail(key) : x = Tail(key)[i]
    BY <1>5 DEF In
  <2>2. i \in 1 .. Len(key) - 1
    BY <1>2, <1>3, <2>1
  <2>3. i + 1 \in DOMAIN key /\ x = key[i + 1]
    BY <1>1, <1>3, <2>1, <2>2
  <2> QED BY <2>3 DEF In
<1> QED BY <1>2, <1>4, <1>5

\* A statement that is executed is done, and those done before stay so.
LEMMA ExecDoes ==
    ASSUME NEW lo, Fits(lo), NEW st \in Wanted(lo), st # L!Bad, wp' = L!Exec(st)
    PROVE  Done(st)' /\ \A other \in Wanted(lo) : Done(other) => Done(other)'
<1>1. \/ st.op = "insert"
      \/ st.op = "delete"
  <2>1. \A r, v : L!Insert(r, v).op = "insert" /\ L!Delete(r).op = "delete"
    BY DEF L!Insert, L!Delete
  <2>2. \A s, w : L!SkinStatement(lo, s, w).op \in {"insert", "delete"}
    BY <2>1 DEF L!SkinStatement
  <2>3. ASSUME NEW s \in L!Sides, st \in In(L!GloveKey(lo, s)) PROVE st.op = "insert"
    <3>1. \/ st = L!Insert(<<"gloves", s>>, lo.gloves[s][1])
          \/ st = L!Insert(<<"skin", s, lo.gloves[s][1]>>, lo.gloves[s][2])
      BY <2>3, GloveKeyIs
    <3> QED BY <2>1, <3>1
  <2>4. CASE \E s \in L!Sides : st = L!Insert(<<"knife", s>>, lo.knife[s])
    BY <2>1, <2>4
  <2>5. CASE st = L!Insert(<<"agents">>, lo.agent)
    BY <2>1, <2>5
  <2>6. CASE \E s \in L!Sides : \E w \in DOMAIN lo.skins[s] : st = L!SkinStatement(lo, s, w)
    BY <2>2, <2>6
  <2> QED BY <2>3, <2>4, <2>5, <2>6, WantedAre
<1>2. \A other \in Wanted(lo) : other.row = st.row => other = st
  BY OneStatementARow
<1>3. CASE st.op = "insert"
  <2>1. wp' = [r \in DOMAIN wp \union {st.row} |-> IF r = st.row THEN st.value ELSE wp[r]]
    BY <1>3 DEF L!Exec
  <2>2. /\ st.row \in DOMAIN wp' /\ wp'[st.row] = st.value
        /\ \A r : r # st.row => /\ r \in DOMAIN wp' <=> r \in DOMAIN wp
                                /\ r \in DOMAIN wp => wp'[r] = wp[r]
    BY <2>1
  <2> QED BY <1>2, <1>3, <2>2 DEF Done, L!Holds
<1>4. CASE st.op = "delete"
  <2>1. wp' = [r \in DOMAIN wp \ {st.row} |-> wp[r]]
    BY <1>4 DEF L!Exec, L!Restrict
  <2>2. /\ st.row \notin DOMAIN wp'
        /\ \A r : r # st.row => /\ r \in DOMAIN wp' <=> r \in DOMAIN wp
                                /\ r \in DOMAIN wp => wp'[r] = wp[r]
    BY <2>1
  <2> QED BY <1>2, <1>4, <2>2 DEF Done, L!Holds
<1> QED BY <1>1, <1>3, <1>4

\* The statements of a loadout are all its picks.
LEMMA PicksAreWanted ==
    ASSUME NEW lo, NEW s \in L!Sides
    PROVE  /\ lo.knife[s] \notin {"", "default"} => L!Insert(<<"knife", s>>, lo.knife[s]) \in Wanted(lo)
           /\ lo.gloves[s] # <<>> => In(L!GloveKey(lo, s)) \subseteq Wanted(lo)
           /\ lo.agent[s] # "" => L!Insert(<<"agents">>, lo.agent) \in Wanted(lo)
           /\ \A w \in DOMAIN lo.skins[s] : L!SkinStatement(lo, s, w) \in Wanted(lo)
<1>1. \A x : In(<<x>>) = {x}
  BY DEF In
<1>2. \A n, key : L!Task(n, key) \in L!Tasks(lo) => In(key) \subseteq Wanted(lo)
  <2>1. \A n, key : L!Task(n, key).key = key
    BY DEF L!Task
  <2> QED BY <2>1 DEF Wanted
<1>3. ASSUME lo.knife[s] \notin {"", "default"} 
      PROVE  L!Insert(<<"knife", s>>, lo.knife[s]) \in Wanted(lo)
  <2>1. L!Task(1, <<L!Insert(<<"knife", s>>, lo.knife[s])>>) \in L!KnifeTasks(lo)
    BY <1>3 DEF L!KnifeTasks
  <2> QED BY <1>1, <1>2, <2>1 DEF L!Tasks
<1>4. ASSUME lo.gloves[s] # <<>> PROVE In(L!GloveKey(lo, s)) \subseteq Wanted(lo)
  <2>1. L!Task(2, L!GloveKey(lo, s)) \in L!GloveTasks(lo)
    BY <1>4 DEF L!GloveTasks
  <2> QED BY <1>2, <2>1 DEF L!Tasks
<1>5. ASSUME lo.agent[s] # "" PROVE L!Insert(<<"agents">>, lo.agent) \in Wanted(lo)
  <2>1. L!Task(3, <<L!Insert(<<"agents">>, lo.agent)>>) \in L!AgentTasks(lo)
    BY <1>5 DEF L!AgentTasks
  <2> QED BY <1>1, <1>2, <2>1 DEF L!Tasks
<1>6. ASSUME NEW w \in DOMAIN lo.skins[s] PROVE L!SkinStatement(lo, s, w) \in Wanted(lo)
  <2>1. \A n : L!Task(n, <<L!SkinStatement(lo, s, w)>>) \in L!SkinTasks(lo, n, s)
    BY DEF L!SkinTasks
  <2>2. L!SkinTasks(lo, 4, "t") \subseteq L!Tasks(lo) /\ L!SkinTasks(lo, 5, "ct") \subseteq L!Tasks(lo)
    BY DEF L!Tasks
  <2>3. s = "t" \/ s = "ct"
    BY DEF L!Sides
  <2>4. \E n : L!Task(n, <<L!SkinStatement(lo, s, w)>>) \in L!Tasks(lo)
    BY <2>1, <2>2, <2>3
  <2> QED BY <1>1, <1>2, <2>4
<1> QED BY <1>3, <1>4, <1>5, <1>6

\* When all statements of the stored loadout are done, it applies.
LEMMA AllDone ==
    ASSUME \A st \in Wanted(meta) : Done(st)
    PROVE  SavedApplies
<1>1. \A r, v : Done(L!Insert(r, v)) => L!Holds(r, v)
  <2>1. \A r, v : /\ L!Insert(r, v).op = "insert" /\ L!Insert(r, v).row = r
                        /\ L!Insert(r, v).value = v
    BY DEF L!Insert
  <2> QED BY <2>1 DEF Done
<1>2. \A r : Done(L!Delete(r)) => r \notin DOMAIN wp
  <2>1. \A r : L!Delete(r).op = "delete" /\ L!Delete(r).row = r
    BY DEF L!Delete
  <2> QED BY <2>1 DEF Done
<1>3. ~Done(L!Bad)
  <2>1. L!Bad.op = "bad"
    BY DEF L!Bad
  <2> QED BY <2>1 DEF Done
<1>4. ASSUME NEW s \in L!Sides
      PROVE  /\ meta.knife[s] \notin {"", "default"} => L!Holds(<<"knife", s>>, meta.knife[s])
             /\ meta.gloves[s] # <<>> =>
                  /\ L!Holds(<<"gloves", s>>, meta.gloves[s][1])
                  /\ meta.gloves[s][2] # "0" =>
                       L!Holds(<<"skin", s, meta.gloves[s][1]>>, meta.gloves[s][2])
             /\ meta.agent[s] # "" => L!Holds(<<"agents">>, meta.agent)
             /\ \A w \in DOMAIN meta.skins[s] :
                  IF meta.skins[s][w] = L!Vanilla THEN <<"skin", s, w>> \notin DOMAIN wp
                  ELSE L!Holds(<<"skin", s, w>>, meta.skins[s][w])
  <2>1. meta.knife[s] \notin {"", "default"} => L!Holds(<<"knife", s>>, meta.knife[s])
    BY <1>1, PicksAreWanted
  <2>2. ASSUME meta.gloves[s] # <<>>
        PROVE  /\ L!Holds(<<"gloves", s>>, meta.gloves[s][1])
               /\ meta.gloves[s][2] # "0" =>
                    L!Holds(<<"skin", s, meta.gloves[s][1]>>, meta.gloves[s][2])
    <3>1. \A st \in In(L!GloveKey(meta, s)) : Done(st)
      BY <2>2, PicksAreWanted
    <3>2. Len(meta.gloves[s]) = 2
      BY <3>1, <1>3, GloveKeyIs
    <3> QED BY <1>1, <3>1, <3>2, GloveKeyIs
  <2>3. meta.agent[s] # "" => L!Holds(<<"agents">>, meta.agent)
    BY <1>1, PicksAreWanted
  <2>4. ASSUME NEW w \in DOMAIN meta.skins[s]
        PROVE  IF meta.skins[s][w] = L!Vanilla THEN <<"skin", s, w>> \notin DOMAIN wp
               ELSE L!Holds(<<"skin", s, w>>, meta.skins[s][w])
    <3>1. Done(L!SkinStatement(meta, s, w))
      BY PicksAreWanted
    <3> QED BY <1>1, <1>2, <3>1 DEF L!SkinStatement
  <2> QED BY <2>1, <2>2, <2>3, <2>4
<1> QED BY <1>4 DEF SavedApplies, L!SavedApplies

LEMMA WaitingIs == IsRequest(L!Waiting) /\ L!Waiting.pc = "idle"
BY DEF IsRequest, L!Waiting, L!At

LEMMA LoadoutInit == L!Init => LoadoutInv
<1> SUFFICES ASSUME L!Init PROVE LoadoutInv
  OBVIOUS
<1>1. client = [c \in Clients |-> L!Waiting] /\ applied = FALSE
  BY DEF L!Init
<1> QED BY <1>1, WaitingIs DEF LoadoutInv, L!Syncing

\* A request that writes nothing of its own.
LEMMA BesideSavesKeeps ==
    ASSUME LoadoutInv, NEW c \in Clients, NEW cl, IsRequest(cl), cl.pc # "sync",
           client' = [client EXCEPT ![c] = cl], UNCHANGED <<meta, wp>>,
           applied' => /\ \A d \in Clients : d # c => ~L!Syncing(d)
                       /\ \A st \in Wanted(meta) : Done(st)
    PROVE  LoadoutInv'
<1>1. /\ client' = [d \in Clients |-> client'[d]]
      /\ client'[c] = cl /\ \A d \in Clients : d # c => client'[d] = client[d]
  BY DEF LoadoutInv
<1>2. \A d \in Clients : L!Syncing(d)' => d # c /\ L!Syncing(d) /\ client'[d] = client[d]
  BY <1>1 DEF L!Syncing
<1>3. \A d \in Clients : IsRequest(client'[d])
  BY <1>1 DEF LoadoutInv
<1>4. \A st : Done(st) => Done(st)'
  BY DEF Done, L!Holds
<1>5. \A d, e \in Clients : d # e /\ L!Syncing(d)' /\ L!Syncing(e)' => ~client'[d].alone
  BY <1>2 DEF LoadoutInv
<1>6. ASSUME NEW d \in Clients, Sync, L!Syncing(d)', client'[d].alone PROVE Follows(client[d])'
  <2>1. Follows(client[d]) /\ client'[d] = client[d]
    BY <1>2, <1>6 DEF LoadoutInv
  <2>2. \A x : Follows(x) => Follows(x)'
    BY <1>4 DEF Follows
  <2>3. PICK x : x = client'[d]
    OBVIOUS
  <2>4. Follows(x)'
    BY <2>1, <2>2, <2>3
  <2> QED BY <2>3, <2>4 DEF Follows
<1>7. ASSUME applied'
      PROVE  (\A d \in Clients : ~L!Syncing(d)') /\ \A st \in Wanted(meta') : Done(st)'
  BY <1>2, <1>4, <1>7
<1> QED BY <1>1, <1>3, <1>5, <1>6, <1>7 DEF LoadoutInv

\* A request with some of its fields changed.
LEMMA WithFields ==
    ASSUME NEW x, NEW f,
           x = [pc |-> x.pc, lo |-> x.lo, todo |-> x.todo, key |-> x.key, alone |-> x.alone]
    PROVE  /\ [x EXCEPT !.key = f] =
                [pc |-> x.pc, lo |-> x.lo, todo |-> x.todo, key |-> f, alone |-> x.alone]
           /\ [x EXCEPT !.alone = f] =
                [pc |-> x.pc, lo |-> x.lo, todo |-> x.todo, key |-> x.key, alone |-> f]
OBVIOUS

LEMMA PostKeeps ==
    ASSUME LoadoutInv, NEW c \in Clients, L!handleLoadoutPost(c) PROVE LoadoutInv'
<1>1. PICK form \in Forms, listed \in [L!Sides -> BOOLEAN] :
        client' = [client EXCEPT ![c] = L!At("put",
            [form EXCEPT !.skins = [s \in L!Sides |-> L!validSkins(form.skins[s], listed[s])]])]
  BY DEF L!handleLoadoutPost
<1> DEFINE lo == [form EXCEPT !.skins = [s \in L!Sides |-> L!validSkins(form.skins[s], listed[s])]]
           cl == L!At("put", lo)
<1>2. client' = [client EXCEPT ![c] = cl]
  BY <1>1
<1>3. Fits(lo)
  <2>1. /\ DOMAIN form = {"knife", "gloves", "agent", "skins"}
        /\ \A s \in L!Sides :
             form.gloves[s] # <<>> => form.gloves[s][1] \notin DOMAIN form.skins[s]
    BY ConstantsAssumption DEF L!FormsAssumption
  <2>2. /\ lo.gloves = form.gloves
        /\ lo.skins = [s \in L!Sides |-> L!validSkins(form.skins[s], listed[s])]
    BY <2>1
  <2>3. \A f, l : DOMAIN L!validSkins(f, l) \subseteq DOMAIN f
    BY DEF L!validSkins, L!Restrict
  <2> HIDE DEF lo
  <2>4. \A s \in L!Sides : DOMAIN lo.skins[s] \subseteq DOMAIN form.skins[s]
    BY <2>2, <2>3
  <2> QED BY <2>1, <2>2, <2>4 DEF Fits
<1> HIDE DEF lo
<1>4. IsRequest(cl) /\ cl.pc # "sync"
  BY <1>3 DEF IsRequest, L!At
<1>5. UNCHANGED <<meta, wp, applied>>
  BY DEF L!handleLoadoutPost
<1> HIDE DEF cl
<1> QED BY <1>2, <1>4, <1>5, BesideSavesKeeps DEF LoadoutInv

LEMMA FailingKeeps ==
    ASSUME LoadoutInv, NEW c \in Clients, L!SetMetaFails(c) \/ L!ExecuteFails(c) PROVE LoadoutInv'
<1>1. client' = [client EXCEPT ![c] = L!Waiting] /\ UNCHANGED <<meta, wp, applied>>
  BY DEF L!SetMetaFails, L!ExecuteFails
<1> QED BY <1>1, WaitingIs, BesideSavesKeeps DEF LoadoutInv

LEMMA SavedKeeps ==
    ASSUME LoadoutInv, NEW c \in Clients, L!Saved(c) PROVE LoadoutInv'
<1>1. /\ client' = [client EXCEPT ![c] = L!Waiting] /\ UNCHANGED <<meta, wp>>
      /\ L!Syncing(c) /\ L!Turned(client[c]) = {} /\ applied' = (Sync /\ client[c].alone)
  BY DEF L!Saved
<1>2. ASSUME applied'
      PROVE  /\ \A d \in Clients : d # c => ~L!Syncing(d)
             /\ \A st \in Wanted(meta) : Done(st)
  <2>1. Sync /\ client[c].alone
    BY <1>1, <1>2
  <2>2. Follows(client[c]) /\ \A d \in Clients : d # c => ~L!Syncing(d)
    BY <1>1, <2>1 DEF LoadoutInv
  <2>3. Left(client[c]) = {}
    BY <1>1, NothingIsLeft DEF LoadoutInv, L!Syncing
  <2> QED BY <2>2, <2>3 DEF Follows
<1> QED BY <1>1, <1>2, WaitingIs, BesideSavesKeeps

LEMMA RestartKeeps == LoadoutInv /\ L!AgentRestarts => LoadoutInv'
<1> SUFFICES ASSUME LoadoutInv, L!AgentRestarts PROVE LoadoutInv'
  OBVIOUS
<1>1. client' = [c \in Clients |-> L!Waiting] /\ UNCHANGED <<meta, wp, applied>>
  BY DEF L!AgentRestarts
<1>2. \A c \in Clients : client'[c] = L!Waiting /\ ~L!Syncing(c)'
  BY <1>1, WaitingIs DEF L!Syncing
<1>3. \A st : Done(st) => Done(st)'
  BY <1>1 DEF Done, L!Holds
<1>4. applied' => \A st \in Wanted(meta') : Done(st)'
  BY <1>1, <1>3 DEF LoadoutInv
<1> QED BY <1>1, <1>2, <1>4, WaitingIs DEF LoadoutInv

\* A save begins with everything left, and is alone when no other is under way.
LEMMA SetMetaKeeps ==
    ASSUME LoadoutInv, NEW c \in Clients, L!SetMeta(c) PROVE LoadoutInv'
<1> DEFINE cl == client[c]
           todo == IF Sync THEN L!Tasks(cl.lo) ELSE {}
           alone == \A e \in Clients : ~L!Syncing(e)
           new == [pc |-> "sync", lo |-> cl.lo, todo |-> todo, key |-> <<>>, alone |-> alone]
<1>1. /\ IsRequest(cl) /\ cl.pc = "put" /\ cl.key = <<>> /\ cl.todo = {} /\ Fits(cl.lo)
  BY DEF LoadoutInv, L!SetMeta, IsRequest
<1>2. /\ client' = [d \in Clients |->
           IF d = c THEN [client[c] EXCEPT !.pc = "sync", !.todo = todo, !.alone = alone]
           ELSE [client[d] EXCEPT !.alone = @ /\ ~L!Syncing(d)]]
      /\ meta' = cl.lo /\ ~applied' /\ wp' = wp
  BY DEF L!SetMeta
<1>3. client'[c] = new
  <2>1. client'[c] = [cl EXCEPT !.pc = "sync", !.todo = todo, !.alone = alone]
    BY <1>2
  <2> HIDE DEF cl, todo, alone
  <2> QED BY <1>1, <2>1 DEF IsRequest
<1>4. ASSUME NEW d \in Clients, d # c
      PROVE  /\ IsRequest(client'[d])
             /\ L!Syncing(d)' <=> L!Syncing(d)
             /\ L!Syncing(d) => ~client'[d].alone
  <2>1. client'[d] = [client[d] EXCEPT !.alone = @ /\ ~L!Syncing(d)]
    BY <1>2, <1>4
  <2>2. IsRequest(client[d])
    BY DEF LoadoutInv
  <2>3. PICK x : x = client[d]
    OBVIOUS
  <2>4. PICK b \in BOOLEAN : b = (x.alone /\ ~L!Syncing(d))
    OBVIOUS
  <2>5. client'[d] = [pc |-> x.pc, lo |-> x.lo, todo |-> x.todo, key |-> x.key, alone |-> b]
    <3>1. client'[d] = [x EXCEPT !.alone = b]
      BY <2>1, <2>3, <2>4
    <3>2. x = [pc |-> x.pc, lo |-> x.lo, todo |-> x.todo, key |-> x.key, alone |-> x.alone]
      BY <2>2, <2>3 DEF IsRequest
    <3> QED BY <3>1, <3>2, WithFields
  <2>6. PICK y : y = client'[d]
    OBVIOUS
  <2>7. /\ y = [pc |-> y.pc, lo |-> y.lo, todo |-> y.todo, key |-> y.key, alone |-> y.alone]
        /\ y.pc = x.pc /\ y.lo = x.lo /\ y.todo = x.todo /\ y.key = x.key /\ y.alone = b
    BY <2>5, <2>6
  <2>8. IsRequest(y)
    BY <2>2, <2>3, <2>4, <2>7 DEF IsRequest
  <2>9. L!Syncing(d)' <=> L!Syncing(d)
    BY <2>3, <2>6, <2>7 DEF L!Syncing
  <2>10. L!Syncing(d) => ~b
    BY <2>4
  <2> QED BY <2>6, <2>7, <2>8, <2>9, <2>10
<1>5. /\ new.pc = "sync" /\ new.lo = cl.lo /\ new.todo = todo /\ new.key = <<>>
      /\ new.alone = alone
  OBVIOUS
<1>6. IsRequest(new)
  <2>1. <<>> \in Seq(Wanted(cl.lo)) /\ todo \subseteq L!Tasks(cl.lo) /\ alone \in BOOLEAN
    OBVIOUS
  <2> HIDE DEF cl, todo, alone
  <2> QED BY <1>1, <2>1 DEF IsRequest
<1>7. \A d, e \in Clients : d # e /\ L!Syncing(d)' /\ L!Syncing(e)' => ~client'[d].alone
  BY <1>3, <1>4, <1>5
<1>8. ASSUME Sync, NEW x, x = new PROVE Follows(x)'
  <2>1. UNION {In(task.key) : task \in new.todo} = Wanted(new.lo)
    BY <1>5, <1>8 DEF Wanted
  <2> HIDE DEF new
  <2>2. \A st \in Wanted(new.lo) : st \in Left(new)
    BY <2>1 DEF Left
  <2>4. meta' = x.lo /\ \A st \in Wanted(x.lo) : st \in Left(x)
    BY <1>2, <1>5, <1>8, <2>2
  <2> QED BY <2>4 DEF Follows
<1> HIDE DEF cl, todo, alone, new
<1>9. ASSUME NEW d \in Clients, Sync, L!Syncing(d)', client'[d].alone PROVE Follows(client[d])'
  <2>1. d = c
    BY <1>4, <1>9
  <2>2. PICK x : x = new
    OBVIOUS
  <2>3. x = client'[d] /\ Follows(x)'
    BY <1>3, <1>8, <1>9, <2>1, <2>2
  <2> QED BY <2>3 DEF Follows
<1>10. client' = [d \in Clients |-> client'[d]]
  BY <1>2
<1>11. \A d \in Clients : IsRequest(client'[d])
  BY <1>3, <1>4, <1>6
<1> QED BY <1>2, <1>7, <1>9, <1>10, <1>11 DEF LoadoutInv

\* Executing a statement: who runs alone has done it, and undone none.
LEMMA ExecuteKeeps ==
    ASSUME LoadoutInv, NEW c \in Clients, L!Execute(c) PROVE LoadoutInv'
<1>1. PICK one \in L!Turned(client[c]) :
        /\ Head(one.key) # L!Bad /\ wp' = L!Exec(Head(one.key))
        /\ client' = [client EXCEPT ![c] = [one EXCEPT !.key = Tail(@)]]
  BY DEF L!Execute
<1>2. PICK old : old = client[c]
  OBVIOUS
<1>3. L!Syncing(c) /\ old.pc = "sync" /\ IsRequest(old)
  BY <1>2 DEF L!Execute, L!Syncing, LoadoutInv
<1>4. /\ IsRequest(one) /\ one.pc = "sync" /\ one.lo = old.lo /\ one.alone = old.alone
      /\ one.key # <<>> /\ Left(one) = Left(old)
  BY <1>1, <1>2, <1>3, TurnedAre
<1>5. /\ Fits(one.lo) /\ one.todo \subseteq L!Tasks(one.lo) /\ one.key \in Seq(Wanted(one.lo))
      /\ one = [pc |-> one.pc, lo |-> one.lo, todo |-> one.todo, key |-> one.key, alone |-> one.alone]
      /\ one.alone \in BOOLEAN
  BY <1>4 DEF IsRequest
<1> DEFINE st == Head(one.key)
           new == [pc |-> "sync", lo |-> one.lo, todo |-> one.todo, key |-> Tail(one.key),
                   alone |-> one.alone]
<1>6. /\ st \in Wanted(one.lo) /\ In(one.key) = {st} \union In(Tail(one.key))
      /\ Tail(one.key) \in Seq(Wanted(one.lo))
  BY <1>4, <1>5, TailIs
<1>7. Done(st)' /\ \A other \in Wanted(one.lo) : Done(other) => Done(other)'
  <2> HIDE DEF st
  <2>1. PICK x : x = st
    OBVIOUS
  <2>2. /\ x \in Wanted(one.lo) /\ x # L!Bad /\ wp' = L!Exec(x)
    BY <1>1, <1>6, <2>1 DEF st
  <2>3. Done(x)' /\ \A other \in Wanted(one.lo) : Done(other) => Done(other)'
    BY <1>5, <2>2, ExecDoes
  <2> QED BY <2>1, <2>3
<1>8. [one EXCEPT !.key = Tail(@)] = new
  <2>1. [one EXCEPT !.key = Tail(one.key)] =
          [pc |-> one.pc, lo |-> one.lo, todo |-> one.todo, key |-> Tail(one.key),
           alone |-> one.alone]
    BY <1>5, WithFields
  <2> QED BY <1>4, <2>1
<1>9. /\ client' = [client EXCEPT ![c] = new] /\ UNCHANGED <<meta, applied>>
  BY <1>1, <1>8 DEF L!Execute
<1>10. /\ new.pc = "sync" /\ new.lo = one.lo /\ new.todo = one.todo
       /\ new.key = Tail(one.key) /\ new.alone = one.alone
  OBVIOUS
<1>11. IsRequest(new)
  BY <1>5, <1>6 DEF IsRequest
<1>12. Left(one) = {st} \union Left(new)
  BY <1>6, <1>10 DEF Left
<1> HIDE DEF st, new
<1>13. /\ client' = [d \in Clients |-> client'[d]]
       /\ client'[c] = new /\ \A d \in Clients : d # c => client'[d] = client[d]
  BY <1>9 DEF LoadoutInv
<1>14. \A d \in Clients : L!Syncing(d)' <=> L!Syncing(d)
  BY <1>3, <1>10, <1>13 DEF L!Syncing
<1>15. \A d \in Clients : client'[d].alone = client[d].alone /\ IsRequest(client'[d])
  BY <1>2, <1>4, <1>10, <1>11, <1>13 DEF LoadoutInv
<1>16. \A d, e \in Clients : d # e /\ L!Syncing(d)' /\ L!Syncing(e)' => ~client'[d].alone
  BY <1>14, <1>15 DEF LoadoutInv
<1>17. ~applied'
  BY <1>3, <1>9 DEF LoadoutInv
<1>18. ASSUME NEW d \in Clients, Sync, L!Syncing(d)', client'[d].alone PROVE Follows(client[d])'
  <2>1. d = c
    BY <1>3, <1>14, <1>16, <1>18
  <2>2. Follows(old)
    BY <1>2, <1>14, <1>15, <1>18, <2>1 DEF LoadoutInv
  <2>3. PICK x : x = new
    OBVIOUS
  <2>4. /\ meta' = x.lo /\ x.lo = one.lo /\ x = client'[d] /\ Left(x) = Left(new)
    BY <1>4, <1>9, <1>10, <1>13, <2>1, <2>2, <2>3 DEF Follows
  <2>5. \A other \in Wanted(x.lo) : other \in Left(x) \/ Done(other)'
    BY <1>4, <1>7, <1>12, <2>2, <2>4 DEF Follows
  <2> QED BY <2>4, <2>5 DEF Follows
<1> QED BY <1>13, <1>15, <1>16, <1>17, <1>18 DEF LoadoutInv

LEMMA LoadoutStep == LoadoutInv /\ [L!Next]_loadoutVars => LoadoutInv'
<1>1. LoadoutInv /\ L!Next => LoadoutInv'
  BY RestartKeeps, PostKeeps, SetMetaKeeps, FailingKeeps, ExecuteKeeps, SavedKeeps DEF L!Next
<1>2. LoadoutInv /\ UNCHANGED loadoutVars => LoadoutInv'
  BY DEF LoadoutInv, loadoutVars, Follows, Done, L!Holds, L!Syncing
<1> QED BY <1>1, <1>2

LEMMA LoadoutNext ==
    LoadoutInv /\ [PartsNext]_<<focus, vars, accountVars, throttleVars, capsVars, loadoutVars,
                                queryVars, fetchVars, treeVars, fileVars>> => LoadoutInv'
BY LoadoutStep DEF PartsNext

\* PartsSpec => []SavedApplies: whatever saves are refused, interrupted or run
\* beside others, once a save that ran alone is answered without a warning the
\* stored loadout is in the tables of the game (Set, syncWP, syncWPSkins).
THEOREM SavedLoadoutsApply == PartsSpec => []SavedApplies
<1>1. PartsInit => LoadoutInv
  BY LoadoutInit DEF PartsInit
<1>2. LoadoutInv => SavedApplies
  <2>1. CASE applied
    BY <2>1, AllDone DEF LoadoutInv
  <2>2. CASE ~applied
    BY <2>2 DEF SavedApplies, L!SavedApplies
  <2> QED BY <2>1, <2>2
<1> QED BY <1>1, <1>2, LoadoutNext, PTL DEF PartsSpec
==============================================================================
