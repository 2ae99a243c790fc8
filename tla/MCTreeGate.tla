----------------------------- MODULE MCTreeGate ------------------------------
(***************************************************************************)
(* Two plugins, one of which requires the other, for several requests, the *)
(* boot driver and the auto-update loop at once.                           *)
(***************************************************************************)
EXTENDS TreeGateOverlaps

TwoPlugins == {"metamod", "cssharp"}
TwoRequires == [metamod |-> {}, cssharp |-> {"metamod"}]

TwoPending == <<"metamod", "cssharp">>
NoPending == << >>
==============================================================================
