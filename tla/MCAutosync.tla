---------------------------- MODULE MCAutosync -----------------------------
(* Autosync over a small number of packages.                               *)
EXTENDS Autosync

MCCommands == {<<"app", "pull">>, <<"app", "publish">>, <<"app", "commit">>, <<"cli", "reset">>}
=============================================================================
