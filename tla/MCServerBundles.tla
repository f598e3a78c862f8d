-------------------------- MODULE MCServerBundles --------------------------
(***************************************************************************)
(* Small instances of ServerBundles for TLC.                               *)
(***************************************************************************)
EXTENDS ServerBundles

C(o, s) == [op |-> o, args |-> s]

MCCommands == {
  C("restart", <<"unknown", "shell">>),
  C("restart", <<"security">>),
  C("stop", <<"security", "shell">>)}

=============================================================================
