------------------------------- MODULE MCRcon -------------------------------
(***************************************************************************)
(* The connections the agent makes: commands one after the other (a status *)
(* or the console is the first of them alone), or one fired command.       *)
(***************************************************************************)
EXTENDS Rcon

Batch == <<"exec", "exec">>
MapChange == <<"fire">>
Both == {Batch, MapChange}
=============================================================================
