------------------------------ MODULE Installer ------------------------------
(***************************************************************************)
(* Installing and uninstalling catalog entries (internal/agent/plugins.go) *)
(* from several jobs and requests at once.  The installer has no lock of   *)
(* its own: what is on disk, what is in the plugin cache and what the      *)
(* database records are three things that its steps change one by one.     *)
(*                                                                         *)
(* install() calls itself for every dependency that is not recorded, so a  *)
(* process is a stack of frames; all but the top one wait for a dependency.*)
(* An error anywhere unwinds the whole stack.                              *)
(***************************************************************************)
EXTENDS Catalog, Naturals, Sequences

CONSTANTS
    Procs,      \* background jobs and requests that can be at work at once
    Ops,        \* what clients ask: "job", "sync", "uninstall"
    Faults      \* what can go wrong: the names of the steps below

ASSUME OpsAssumption == Ops \subseteq {"job", "sync", "uninstall"}
ASSUME FaultsAssumption ==
    Faults \subseteq {"resolve", "download", "extract", "post", "remove"}

VARIABLES
    recorded,   \* ids with a row in plugin_state
    disk,       \* an entry's files in the game tree
    tmp,        \* an entry's archive in the plugin cache
    stack,      \* its calls: the first frame is the one that runs
    \* history, not in the code
    beside,     \* what overlapped a process's operation: an "install", an "uninstall"
    spoiled     \* entries that an extraction or a removal left incomplete

vars == <<recorded, disk, tmp, stack, beside, spoiled>>

Install   == {"begin", "deps", "download", "open", "extract", "post"}
Uninstall == {"guard", "check", "remove", "forget"}

Frame == [id : Plugins, pc : Install \union Uninstall, todo : SUBSET Plugins,
          force : BOOLEAN, kind : {"job", "sync", "uninstall", "nested"}]

Call(id, pc, force, kind) ==
    [id |-> id, pc |-> pc, todo |-> {}, force |-> force, kind |-> kind]

TypeOK ==
    /\ recorded \subseteq Plugins
    /\ disk \in [Plugins -> {"absent", "part", "whole"}]
    /\ tmp \in [Plugins -> {"none", "part", "whole"}]
    /\ stack \in [Procs -> Seq(Frame)]
    /\ beside \in [Procs -> SUBSET {"install", "uninstall"}]
    /\ spoiled \subseteq Plugins

Init ==
    /\ recorded = {}
    /\ disk = [i \in Plugins |-> "absent"]
    /\ tmp = [i \in Plugins |-> "none"]
    /\ stack = [p \in Procs |-> << >>]
    /\ beside = [p \in Procs |-> {}]
    /\ spoiled = {}

Idle(p) == stack[p] = << >>
Top(p) == Head(stack[p])
Id(p) == Top(p).id
At(p, pc) == ~Idle(p) /\ Top(p).pc = pc
Continue(p, frames) ==
    /\ stack' = [stack EXCEPT ![p] = frames]
    /\ beside' = [beside EXCEPT ![p] = IF frames = << >> THEN {} ELSE @]
Goto(p, pc) == Continue(p, <<[Top(p) EXCEPT !.pc = pc]>> \o Tail(stack[p]))
Return(p) == Continue(p, Tail(stack[p]))
Unwind(p) == Continue(p, << >>)

\* Does a process other than p stand at one of pcs for entry id?
Elsewhere(p, id, pcs) == \E q \in Procs \ {p} : ~Idle(q) /\ Id(q) = id /\ Top(q).pc \in pcs

\* A job's target is the entry of its outermost call.
Outermost(p) == stack[p][Len(stack[p])]
Kind(p) == IF Outermost(p).kind = "uninstall" THEN "uninstall" ELSE "install"
RunningTargets ==
    {Outermost(p).id : p \in {q \in Procs : ~Idle(q) /\ Outermost(q).kind = "job"}}

\* A process begins an operation; every other one at work overlaps it.
Begin(p, call) ==
    /\ Idle(p)
    /\ stack' = [stack EXCEPT ![p] = <<call>>]
    /\ beside' = [q \in Procs |->
                    IF q = p THEN {Kind(o) : o \in {o \in Procs : ~Idle(o)}}
                    ELSE IF Idle(q) THEN beside[q] ELSE beside[q] \union {Kind(p)'}]
    /\ UNCHANGED <<recorded, disk, tmp, spoiled>>

Spoil(id) == spoiled' = spoiled \union {id}

------------------------------------------------------------------------------
(***************************************************************************)
(* install().                                                              *)
(***************************************************************************)

\* A job, one per target, or a request that installs by itself ("sync").
AskInstall(p, id, force, kind) ==
    /\ kind \in Ops
    /\ kind = "job" => id \notin RunningTargets
    /\ Begin(p, Call(id, "begin", force, kind))

\* Already installed, and not forced: nothing to do.
AlreadyInstalled(p) ==
    /\ At(p, "begin")
    /\ Id(p) \in recorded /\ ~Top(p).force
    /\ Return(p)
    /\ UNCHANGED <<recorded, disk, tmp, spoiled>>

\* The release is found; then come the dependencies.
Resolve(p) ==
    /\ At(p, "begin")
    /\ Id(p) \notin recorded \/ Top(p).force
    /\ Continue(p, <<[Top(p) EXCEPT !.pc = "deps", !.todo = Requires[Id(p)]]>> \o Tail(stack[p]))
    /\ UNCHANGED <<recorded, disk, tmp, spoiled>>

ResolveFails(p) ==
    /\ "resolve" \in Faults
    /\ At(p, "begin")
    /\ Id(p) \notin recorded \/ Top(p).force
    /\ Unwind(p)
    /\ UNCHANGED <<recorded, disk, tmp, spoiled>>

\* The next dependency: recorded, or installed by a nested call first.
Dependency(p, dep) ==
    /\ At(p, "deps")
    /\ dep \in Top(p).todo
    /\ LET rest == [Top(p) EXCEPT !.todo = @ \ {dep}]
           call == IF dep \in recorded THEN << >> ELSE <<Call(dep, "begin", FALSE, "nested")>>
       IN  Continue(p, call \o <<rest>> \o Tail(stack[p]))
    /\ UNCHANGED <<recorded, disk, tmp, spoiled>>

\* os.Create truncates the archive, also one that another process is writing
\* or reading: the name depends on the entry and its version only.
DownloadBegins(p) ==
    /\ At(p, "deps")
    /\ Top(p).todo = {}
    /\ tmp' = [tmp EXCEPT ![Id(p)] = "part"]
    /\ Goto(p, "download")
    /\ UNCHANGED <<recorded, disk, spoiled>>

\* Writers write the same bytes at the same offsets; the last one completes it.
DownloadEnds(p) ==
    /\ At(p, "download")
    /\ tmp' = [tmp EXCEPT ![Id(p)] =
                 IF @ = "none" \/ Elsewhere(p, Id(p), {"download"}) THEN @ ELSE "whole"]
    /\ Goto(p, "open")
    /\ UNCHANGED <<recorded, disk, spoiled>>

\* What the failed attempt wrote stays in the cache.
DownloadFails(p) ==
    /\ "download" \in Faults
    /\ At(p, "download")
    /\ Unwind(p)
    /\ UNCHANGED <<recorded, disk, tmp, spoiled>>

ExtractBegins(p) ==
    /\ At(p, "open")
    /\ tmp[Id(p)] = "whole"
    /\ disk' = [disk EXCEPT ![Id(p)] = "part"]
    /\ Goto(p, "extract")
    /\ UNCHANGED <<recorded, tmp, spoiled>>

\* The archive is gone, or cut off: another process removed or truncated it.  A
\* stream archive (tar.gz) has been extracted up to the cut.
ArchiveSpoiled(p) ==
    /\ At(p, "open")
    /\ tmp[Id(p)] # "whole"
    /\ \/ UNCHANGED disk
       \/ tmp[Id(p)] = "part" /\ disk' = [disk EXCEPT ![Id(p)] = "part"]
    /\ tmp' = [tmp EXCEPT ![Id(p)] = "none"]
    /\ Unwind(p)
    /\ Spoil(Id(p))
    /\ UNCHANGED recorded

ExtractEnds(p) ==
    /\ At(p, "extract")
    /\ disk' = [disk EXCEPT ![Id(p)] =
                  IF Elsewhere(p, Id(p), {"extract", "remove"}) THEN @ ELSE "whole"]
    /\ Goto(p, "post")
    /\ spoiled' = IF disk'[Id(p)] = "whole" THEN spoiled \ {Id(p)} ELSE spoiled
    /\ UNCHANGED <<recorded, tmp>>

ExtractFails(p) ==
    /\ At(p, "extract")
    /\ "extract" \in Faults \/ tmp[Id(p)] = "part"
    /\ tmp' = [tmp EXCEPT ![Id(p)] = "none"]
    /\ Unwind(p)
    /\ Spoil(Id(p))
    /\ UNCHANGED <<recorded, disk>>

PostInstallFails(p) ==
    /\ "post" \in Faults
    /\ At(p, "post")
    /\ tmp' = [tmp EXCEPT ![Id(p)] = "none"]
    /\ Unwind(p)
    /\ UNCHANGED <<recorded, disk, spoiled>>

\* The post-install steps, the ownership, the row; then the deferred removal of
\* the archive, and back to the entry that required this one.
Record(p) ==
    /\ At(p, "post")
    /\ recorded' = recorded \union {Id(p)}
    /\ tmp' = [tmp EXCEPT ![Id(p)] = "none"]
    /\ Return(p)
    /\ UNCHANGED <<disk, spoiled>>

------------------------------------------------------------------------------
(***************************************************************************)
(* handlePluginUninstall and Uninstall().                                  *)
(***************************************************************************)
AskUninstall(p, id) ==
    /\ "uninstall" \in Ops
    /\ Begin(p, Call(id, "guard", FALSE, "uninstall"))

\* Refused while a job installs the entry or one that depends on it.
Guard(p) ==
    /\ At(p, "guard")
    /\ IF \E t \in RunningTargets : t = Id(p) \/ <<t, Id(p)>> \in DependsOn
       THEN Return(p)
       ELSE Goto(p, "check")
    /\ UNCHANGED <<recorded, disk, tmp, spoiled>>

\* mutant: the dependents are not looked for
CheckRecordOnly(p) ==
    /\ At(p, "check")
    /\ IF Id(p) \in recorded THEN Goto(p, "remove") ELSE Return(p)
    /\ disk' = [disk EXCEPT ![Id(p)] = IF Id(p) \in recorded THEN "part" ELSE @]
    /\ UNCHANGED <<recorded, tmp, spoiled>>

\* Refused when the entry is not installed, or an installed one requires it;
\* else its paths are removed one after the other.
Check(p) ==
    LET installed == Id(p) \in recorded /\ ~\E e \in recorded : Id(p) \in Requires[e] IN
    /\ At(p, "check")
    /\ IF installed THEN Goto(p, "remove") ELSE Return(p)
    /\ disk' = [disk EXCEPT ![Id(p)] = IF installed THEN "part" ELSE @]
    /\ UNCHANGED <<recorded, tmp, spoiled>>

RemoveEnds(p) ==
    /\ At(p, "remove")
    /\ disk' = [disk EXCEPT ![Id(p)] =
                  IF Elsewhere(p, Id(p), {"extract"}) THEN @ ELSE "absent"]
    /\ Goto(p, "forget")
    /\ IF beside[p] # {} THEN Spoil(Id(p)) ELSE UNCHANGED spoiled
    /\ UNCHANGED <<recorded, tmp>>

\* A path resists, or the edit of gameinfo.gi cannot be undone: the row stays.
RemoveFails(p) ==
    /\ "remove" \in Faults
    /\ At(p, "remove") \/ At(p, "forget")
    /\ Return(p)
    /\ Spoil(Id(p))
    /\ UNCHANGED <<recorded, disk, tmp>>

\* mutant: the row is left behind
ForgetNothing(p) ==
    /\ At(p, "forget")
    /\ Return(p)
    /\ UNCHANGED <<recorded, disk, tmp, spoiled>>

\* DeletePluginState.
Forget(p) ==
    /\ At(p, "forget")
    /\ recorded' = recorded \ {Id(p)}
    /\ Return(p)
    /\ UNCHANGED <<disk, tmp, spoiled>>

------------------------------------------------------------------------------
Step(p) ==
    \/ AlreadyInstalled(p) \/ Resolve(p) \/ ResolveFails(p)
    \/ \E dep \in Plugins : Dependency(p, dep)
    \/ DownloadBegins(p) \/ DownloadEnds(p) \/ DownloadFails(p)
    \/ ExtractBegins(p) \/ ArchiveSpoiled(p) \/ ExtractEnds(p) \/ ExtractFails(p)
    \/ PostInstallFails(p) \/ Record(p)
    \/ Guard(p) \/ Check(p) \/ RemoveEnds(p) \/ RemoveFails(p) \/ Forget(p)

Next ==
    \E p \in Procs :
        \/ \E id \in Plugins, force \in BOOLEAN, kind \in {"job", "sync"} :
             AskInstall(p, id, force, kind)
        \/ \E id \in Plugins : AskUninstall(p, id)
        \/ Step(p)

Spec == Init /\ [][Next]_vars

------------------------------------------------------------------------------
(***************************************************************************)
(* Properties.                                                             *)
(***************************************************************************)

\* What is installed has what it requires: install() brings the dependencies in
\* first, and Uninstall() "refuses to remove something other installed
\* components need".  Any number of installs at once keep it so.  The exception
\* is real: an uninstall that overlaps another operation may look at the
\* records just before an install of a dependent adds its own, or the other way
\* round.
Unmet == {e \in Plugins \X Plugins : e[1] \in recorded /\ e[2] \in Requires[e[1]] \ recorded}
Meddled(p) == beside[p] # {} /\ (Kind(p) = "uninstall" \/ "uninstall" \in beside[p])
DependenciesStayMet ==
    [][Unmet' \subseteq Unmet \/ \E p \in Procs : ~Idle(p) /\ Meddled(p) /\ stack'[p] # stack[p]]_vars

\* Where nobody is at work on an entry, its row describes what is on disk (the
\* comment at handlePluginUninstall's guard: without it "the plugin ends up
\* half-present and its recorded manifest no longer describes what is on disk"),
\* whatever failed on the way.  A failed extraction and a failed removal leave
\* the row of an installed entry as it was, and so does a removal during which
\* another operation went on: those entries are set apart until they are
\* extracted again.
InHand(i) == \E p \in Procs : \E k \in DOMAIN stack[p] : stack[p][k].id = i
RecordedOnDisk == \A i \in recorded \ spoiled : InHand(i) \/ disk[i] = "whole"

\* An archive that was downloaded is there, and whole, when it is opened, unless
\* another operation went on meanwhile: two installs of one entry use one file.
ArchiveIsWhole ==
    \A p \in Procs : At(p, "open") /\ beside[p] = {} => tmp[Id(p)] = "whole"

\* A required entry is whole on disk before the files of the one that requires
\* it are extracted, with the same two exceptions.
DependenciesOnDisk ==
    \A p \in Procs :
        At(p, "extract") /\ beside[p] = {} =>
            \A d \in Requires[Id(p)] \ spoiled : disk[d] = "whole"

\* A row in the plugin table is true of the disk, from the archive it came from
\* to the entries it requires.
RowsAreTrue == RecordedOnDisk /\ ArchiveIsWhole /\ DependenciesOnDisk

==============================================================================
