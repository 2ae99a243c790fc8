----------------------------- MODULE MCInstaller -----------------------------
(***************************************************************************)
(* An entry and the one it requires, for two processes.                    *)
(***************************************************************************)
EXTENDS Installer, TLC

TwoEntries == {"metamod", "cssharp"}
TheirRequires == [metamod |-> {}, cssharp |-> {"metamod"}]

Alike == Permutations(Procs)
==============================================================================
