------------------------------- MODULE Throttle -------------------------------
(***************************************************************************)
(* The sign-in throttle of the panel.  Wrong passwords are counted against *)
(* the client's address and against the username; a key that has Threshold *)
(* of them is locked for Window.  handleLoginPost asks retryAfter first    *)
(* and reports to failed or succeeded after the password hash, so attempts *)
(* that were let in may end after the lock has fallen.                     *)
(* A key is an address or a username; strings.ToLower and the parsing of   *)
(* X-Forwarded-For are left out, a tick is a minute or so.                 *)
(***************************************************************************)
EXTENDS Integers, Sequences, FiniteSets, Functions

CONSTANTS
    Addrs, Users,       \* the keys: client addresses and usernames
    Threshold,          \* throttleThreshold
    Window,             \* throttleWindow
    Idle,               \* throttleIdle
    MaxKeys,            \* throttleMaxKeys
    MaxTime,            \* bound: the last tick
    MaxInFlight         \* bound: sign-ins between retryAfter and their answer

\* Five failures, five minutes and half an hour: what is forgotten is older than
\* a lock can be.
ThrottleAssumption ==
    /\ {Threshold, MaxInFlight, MaxTime} \subseteq Nat \ {0}
    /\ {Window, Idle, MaxKeys} \subseteq Nat
    /\ Window <= Idle

VARIABLES
    now,
    fail,       \* loginThrottle.fail: the keys that have a failState
    hashing,    \* the sign-ins let in, each an <<address, username>> pair
    wrong       \* history: when wrong passwords were tried on a key, since the
                \* last right one
vars == <<now, fail, hashing, wrong>>

Keys == Addrs \union Users
Attempts == Addrs \X Users
keysFor(a) == {a[1], a[2]}

FailState == [count : 1..(Threshold + MaxInFlight - 1), until : 0..(MaxTime + Window),
              seen : 0..MaxTime]
Never == 0      \* until.IsZero()
None == [k \in {} |-> [count |-> 1, until |-> Never, seen |-> 0]]

SignIns == 1..MaxInFlight
Nobody == <<>>

\* The clock does not show the very nanosecond at which a lock ends.
Locked(k) == k \in DOMAIN fail /\ fail[k].until >= now
Expired(st) == st.until # Never /\ now > st.until

Init ==
    /\ now = 1
    /\ fail = None
    /\ hashing = [s \in SignIns |-> Nobody]
    /\ wrong = [k \in Keys |-> <<>>]

\* Mutant of retryAfter: only the address is asked.
retryAfterAddress(a) == Locked(a[1])

\* retryAfter reports no wait, and the password is hashed.  An attempt that
\* has to wait is answered at once and changes nothing.
retryAfter(a) == \E k \in keysFor(a) : Locked(k)

LetIn(s, a) ==
    /\ hashing[s] = Nobody
    /\ ~retryAfter(a)
    /\ hashing' = [hashing EXCEPT ![s] = a]
    /\ UNCHANGED <<now, fail, wrong>>

\* sweep, the first thing failed does.
sweep == Restrict(fail, {k \in DOMAIN fail :
             ~(now - fail[k].seen > Idle /\ (fail[k].until = Never \/ Expired(fail[k])))})

\* One more failure on a key.
Counted(st) ==
    LET count == IF Expired(st) THEN 1 ELSE st.count + 1
        until == IF Expired(st) THEN Never ELSE st.until
    IN  [count |-> count,
         until |-> IF count >= Threshold THEN now + Window ELSE until,
         seen |-> now]
Fresh == [count |-> 0, until |-> Never, seen |-> now]

\* The address is counted first: it may take the last place.
Place(m, a) ==
    {k \in keysFor(a) : \/ k \in DOMAIN m
                        \/ /\ k \in Addrs
                           /\ Cardinality(DOMAIN m) < MaxKeys
                        \/ /\ k \in Users
                           /\ Cardinality(DOMAIN m \union {a[1]}) < MaxKeys}

failed(a) ==
    LET kept == sweep
        places == Place(kept, a)
    IN  /\ fail' = [k \in DOMAIN kept \union places |->
                      IF k \notin places THEN kept[k]
                      ELSE Counted(IF k \in DOMAIN kept THEN kept[k] ELSE Fresh)]
        /\ wrong' = [k \in Keys |->
                       IF k \in places THEN Append(wrong[k], now) ELSE wrong[k]]

Leaves(s) == hashing[s] # Nobody /\ hashing' = [hashing EXCEPT ![s] = Nobody]

WrongPassword(s) ==
    /\ Leaves(s)
    /\ failed(hashing[s])
    /\ UNCHANGED now

succeeded(a) ==
    /\ fail' = Restrict(fail, DOMAIN fail \ keysFor(a))
    /\ wrong' = [k \in Keys |->
                   IF k \in keysFor(a) THEN <<>> ELSE wrong[k]]

RightPassword(s) ==
    /\ Leaves(s)
    /\ succeeded(hashing[s])
    /\ UNCHANGED now

Tick ==
    /\ now < MaxTime
    /\ now' = now + 1
    /\ UNCHANGED <<fail, hashing, wrong>>

Next ==
    \/ Tick
    \/ \E s \in SignIns :
         \/ \E a \in Attempts : LetIn(s, a)
         \/ WrongPassword(s) \/ RightPassword(s)

Spec == Init /\ [][Next]_vars

(***************************************************************************)
(* Properties                                                              *)
(***************************************************************************)

TypeOK ==
    /\ now \in 1..MaxTime
    /\ DOMAIN fail \subseteq Keys
    /\ \A k \in DOMAIN fail : fail[k] \in FailState
    /\ Cardinality(DOMAIN fail) <= MaxKeys
    /\ hashing \in [SignIns -> Attempts \union {Nobody}]

\* Whatever the order in which attempts from several addresses on several
\* accounts are let in, judged, reset and swept, a key that the throttle
\* tracks sees in no time of a Window more wrong passwords than the
\* threshold, and one for each other attempt that was in flight as its lock
\* fell (retryAfter, failed, succeeded and sweep together).
GuessesAreBounded ==
    \A k \in Keys, first \in 1..MaxTime :
      Cardinality({i \in DOMAIN wrong[k] : wrong[k][i] \in first..(first + Window)})
        <= Threshold + MaxInFlight - 1

==============================================================================
