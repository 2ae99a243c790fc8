------------------------------ MODULE AtomicFile -------------------------------
(***************************************************************************)
(* Writing a file of the game (internal/fsatomic): a temporary file beside *)
(* it, made readable for whoever could read the old one, renamed over it.  *)
(* Several writers at once, an operator who changes the file's access, and *)
(* an agent that may die between any two steps.                            *)
(*                                                                         *)
(* The agent is root and the game is not.  The game reads a file that is   *)
(* its own or is "public" (0644); "private" is 0600.                       *)
(***************************************************************************)
EXTENDS Integers, FiniteSets

CONSTANTS
    Writers,    \* calls of Write and WriteKeepMode, one version of the file each
    Meddlings   \* changes of its access by the operator, at most

Modes == {"private", "public"}
Owners == {"game", "root"}
Partial == "partial"
Old == "old"
Missing == [data |-> "none", mode |-> "private", owner |-> "game"]

\* A version is told from a part of one, and from no file.
WritersAssumption == Writers \cap {Partial, Missing.data} = {}

VARIABLES
    target,     \* the file: [data, mode, owner], or Missing
    step,       \* where each writer is
    keep,       \* the calls that keep the file's mode
    perm,       \* the mode each will set
    temp,       \* their temporary files
    meddlings,
    spoiled     \* has a chown failed, or the operator changed access under a write?

vars == <<target, step, keep, perm, temp, meddlings, spoiled>>

Exists == target # Missing
NoTemp == [data |-> Partial, mode |-> "private", owner |-> "root"]

\* Stat: the old mode if there is a file, 0644 otherwise.
Stat(w) ==
    /\ step[w] = "stat"
    /\ perm' = [perm EXCEPT ![w] =
                  IF w \in keep /\ Exists THEN target.mode ELSE "public"]
    /\ step' = [step EXCEPT ![w] = "create"]
    /\ UNCHANGED <<target, keep, temp, meddlings, spoiled>>

\* CreateTemp: a new inode of root's with mode 0600.
Create(w) ==
    /\ step[w] = "create"
    /\ \/ temp' = [temp EXCEPT ![w] = NoTemp] /\ step' = [step EXCEPT ![w] = "write"]
       \/ step' = [step EXCEPT ![w] = "failed"] /\ UNCHANGED temp
    /\ UNCHANGED <<target, keep, perm, meddlings, spoiled>>

Write(w) ==
    /\ step[w] = "write"
    /\ \/ temp' = [temp EXCEPT ![w].data = w] /\ step' = [step EXCEPT ![w] = "chmod"]
       \/ step' = [step EXCEPT ![w] = "failed"] /\ UNCHANGED temp
    /\ UNCHANGED <<target, keep, perm, meddlings, spoiled>>

Chmod(w) ==
    /\ step[w] = "chmod"
    /\ temp' = [temp EXCEPT ![w].mode = perm[w]]
    /\ step' = [step EXCEPT ![w] = "chown"]
    /\ UNCHANGED <<target, keep, perm, meddlings, spoiled>>

\* ownerToInherit: the file's owner, or that of its directory, the game.
Inherited == IF ~Exists THEN "game" ELSE target.owner

\* Mutant: the new file stays root's.
ChownNothing(w) ==
    /\ step[w] = "chown"
    /\ step' = [step EXCEPT ![w] = "rename"]
    /\ UNCHANGED <<target, keep, perm, temp, meddlings, spoiled>>

\* Best effort.
Chown(w) ==
    /\ step[w] = "chown"
    /\ \/ temp' = [temp EXCEPT ![w].owner = Inherited] /\ UNCHANGED spoiled
       \/ Inherited # "root" /\ spoiled' = TRUE /\ UNCHANGED temp
    /\ step' = [step EXCEPT ![w] = "rename"]
    /\ UNCHANGED <<target, keep, perm, meddlings>>

\* Close and Rename.
Rename(w) ==
    /\ step[w] = "rename"
    /\ \/ target' = temp[w] /\ step' = [step EXCEPT ![w] = "mode"]
       \/ step' = [step EXCEPT ![w] = "failed"] /\ UNCHANGED target
    /\ UNCHANGED <<keep, perm, temp, meddlings, spoiled>>

\* The mode once more, on whatever is at the path now.
ModeAgain(w) ==
    /\ step[w] = "mode"
    /\ target' = [target EXCEPT !.mode = perm[w]]
    /\ step' = [step EXCEPT ![w] = "done"]
    /\ UNCHANGED <<keep, perm, temp, meddlings, spoiled>>

Resting == {"stat", "done", "failed"}

\* The operator changes the file's owner or mode, and leaves it readable.
Meddle ==
    /\ meddlings < Meddlings /\ Exists
    /\ \E m \in Modes, o \in Owners :
         /\ o = "game" \/ m = "public"
         /\ target' = [target EXCEPT !.mode = m, !.owner = o]
    /\ meddlings' = meddlings + 1
    /\ spoiled' = (spoiled \/ \E w \in Writers : step[w] \notin Resting)
    /\ UNCHANGED <<step, keep, perm, temp>>

\* The agent dies: the temporary files stay behind, nothing goes on.
Die ==
    /\ \E w \in Writers : step[w] \notin Resting
    /\ step' = [w \in Writers |-> IF step[w] \in Resting THEN step[w] ELSE "failed"]
    /\ UNCHANGED <<target, keep, perm, temp, meddlings, spoiled>>

Init ==
    /\ target \in [data : {Old}, mode : Modes, owner : Owners] \union {Missing}
    /\ Exists => target.owner = "game" \/ target.mode = "public"
    /\ step = [w \in Writers |-> "stat"]
    /\ keep \in SUBSET Writers
    /\ perm = [w \in Writers |-> "public"]
    /\ temp = [w \in Writers |-> NoTemp]
    /\ meddlings = 0 /\ spoiled = FALSE

Next ==
    \/ \E w \in Writers :
         \/ Stat(w) \/ Create(w) \/ Write(w) \/ Chmod(w)
         \/ Chown(w) \/ Rename(w) \/ ModeAgain(w)
    \/ Meddle \/ Die

Spec == Init /\ [][Next]_vars

--------------------------------------------------------------------------------
\* At every moment, also after a crash, what is at the path is one version,
\* whole, and the game may read it: "the destination is never visible with the
\* wrong ones" (write), "the engine can no longer read it, so rcon_password stops
\* being applied" (the package comment).  A chown that fails, and an operator who
\* changes the file's access while it is being written, are the real exceptions.
GameReadsTheFile ==
    Exists =>
        /\ target.data # Partial
        /\ spoiled \/ target.owner = "game" \/ target.mode = "public"

================================================================================
