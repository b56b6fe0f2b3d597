--------------------------- MODULE MCVaultMigration ---------------------------
(* VaultMigration with the files of one user and a few processes. *)
EXTENDS VaultMigration, TLC

Files    == VaultPath \cup {V1Bak}
Vaults   == Vault
There    == {Legacy, "platform"}
Symmetry == Permutations(Process)
=============================================================================
