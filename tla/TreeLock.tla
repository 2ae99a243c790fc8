------------------------------ MODULE TreeLock -------------------------------
(***************************************************************************)
(* What the agent's guards are for: who may write to the game tree at the  *)
(* same time.  An update of the server writes alone.  Installs may run     *)
(* side by side when they are of different plugins.  A plugin is not       *)
(* uninstalled while it, or a plugin that needs it, is being installed.    *)
(***************************************************************************)
CONSTANTS
    Ids,            \* plugins, and whatever name an update goes by
    Workers,        \* who does the work: a request, a job, the loop
    Needs           \* <<p, q>>: plugin p requires q, directly or not

VARIABLE writing    \* the activities that write to the tree now

Activity == [kind : {"update", "install", "uninstall"}, id : Ids, by : Workers]

Init == writing = {}

\* May a begin while b is at work, or b while a is?
Clash(a, b) ==
    \/ a.kind = "update" \/ b.kind = "update"
    \/ a.id = b.id
    \/ a.kind = "install" /\ b.kind = "uninstall" /\ <<a.id, b.id>> \in Needs
    \/ b.kind = "install" /\ a.kind = "uninstall" /\ <<b.id, a.id>> \in Needs

Begin(a) ==
    /\ \A b \in writing : ~Clash(a, b)
    /\ writing' = writing \union {a}

End(a) ==
    /\ a \in writing
    /\ writing' = writing \ {a}

Next == \E a \in Activity : Begin(a) \/ End(a)

Spec == Init /\ [][Next]_writing
==============================================================================
