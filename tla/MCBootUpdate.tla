---------------------------- MODULE MCBootUpdate ----------------------------
(* BootUpdate with its constants left to the configurations.                 *)
EXTENDS BootUpdate
=============================================================================
