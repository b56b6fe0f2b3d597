---------------------------- MODULE MCVaultStore ----------------------------
(* VaultStore on small sets: two processes share the vault.                 *)
EXTENDS VaultStore, TLC

CONSTANTS v1

\* One value, at the default tier and at a tier that does not exist; the data
\* of an entry is VaultCommands' subject.
SetTiers == {<<v1, 3>>, <<v1, 5>>}

\* Processes and keys are interchangeable.
Symmetry == Permutations(Process) \cup Permutations(Key)
=============================================================================
