---------------------------- MODULE MCUnlockAgent ----------------------------
(* UnlockAgent on small sets. *)
EXTENDS UnlockAgent

AllCommands == {"open", "unlock", "lock", "stop", "restore"}
=============================================================================
