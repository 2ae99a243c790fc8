------------------------------ MODULE KeyedLock ------------------------------
(***************************************************************************)
(* What the job registry promises its callers, without jobs, progress or   *)
(* time: a lock with one owner per key.  The keys are the things a job can *)
(* work on (a catalog id, or "cs2" for the server itself); an owner is one *)
(* piece of background work.                                               *)
(***************************************************************************)
CONSTANTS Keys, Owners

VARIABLE held   \* the set of <<key, owner>> pairs that hold now

Init == held = {}

\* A key is taken by a new owner, and only when nobody holds it.
Acquire(k, o) ==
    /\ \A h \in held : h[1] # k
    /\ \A h \in held : h[2] # o
    /\ held' = held \union {<<k, o>>}

\* The owner's work has ended.
Release(k, o) ==
    /\ <<k, o>> \in held
    /\ held' = held \ {<<k, o>>}

Next == \E k \in Keys, o \in Owners : Acquire(k, o) \/ Release(k, o)

Spec == Init /\ [][Next]_held
==============================================================================
