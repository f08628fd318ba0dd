---------------------------- MODULE MCKeptWalks ----------------------------
(* One package's folder, edited twice, with a command and a switch. *)
EXTENDS KeptWalks
=============================================================================
