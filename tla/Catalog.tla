------------------------------- MODULE Catalog -------------------------------
(***************************************************************************)
(* The plugin catalog: entries and what each requires.  The uninstall      *)
(* guard follows the requirements to the end; the installer and its own    *)
(* dependents check look at direct ones only.                              *)
(***************************************************************************)
CONSTANTS
    Plugins,    \* catalog ids
    Requires    \* an entry's direct dependencies

ASSUME RequiresAssumption == Requires \in [Plugins -> SUBSET Plugins]

\* dependsOn: p reaches q along Requires.  Every set that holds p's direct
\* dependencies and is closed under Requires holds q.
DependsOn ==
    {e \in Plugins \X Plugins :
       \A S \in SUBSET Plugins :
         Requires[e[1]] \subseteq S /\ (\A r \in S : Requires[r] \subseteq S) => e[2] \in S}
==============================================================================
