----------------------------- MODULE AtomicVault -----------------------------
(***************************************************************************)
(* What the vault file promises to the processes that share it: it behaves *)
(* as one register of versions.  A process edits a private copy of the     *)
(* version it read; the copy becomes the current version only if the       *)
(* current version is still the one it was read from.  The data key of a   *)
(* version is fixed when the vault is created, and nothing but putting a   *)
(* saved copy back replaces a vault by one with another data key.          *)
(*                                                                         *)
(* There is no lock, no fingerprint and no file here: those are how        *)
(* VaultStore implements the promise.                                      *)
(***************************************************************************)
CONSTANTS
    Process,
    NoVault,    \* the register before the first creation
    NoTxn       \* a process that holds no copy

VARIABLES
    vault,      \* the current version: a record with a field `dk`, or NoVault
    copies,     \* versions kept aside by backups
    txn         \* txn[p]: NoTxn, or [base, cur]: the version read, its edited copy

vars == <<vault, copies, txn>>

Init ==
    /\ vault = NoVault
    /\ txn = [p \in Process |-> NoTxn]

\* p takes (or takes again) a copy of the current version.
Read(p) ==
    /\ vault # NoVault
    /\ txn' = [txn EXCEPT ![p] = [base |-> vault, cur |-> vault]]
    /\ UNCHANGED <<vault, copies>>

\* p changes its copy, never the data key of it.
Edit(p) ==
    /\ txn[p] # NoTxn
    /\ txn'[p] # NoTxn
    /\ txn'[p].base = txn[p].base
    /\ txn'[p].cur.dk = txn[p].cur.dk
    /\ txn' = [txn EXCEPT ![p] = txn'[p]]
    /\ UNCHANGED <<vault, copies>>

\* p mints the first version.
Mint(p) ==
    /\ vault = NoVault
    /\ txn[p] = NoTxn
    /\ txn'[p] # NoTxn
    /\ txn'[p].base = NoVault
    /\ txn' = [txn EXCEPT ![p] = txn'[p]]
    /\ UNCHANGED <<vault, copies>>

\* The copy of p becomes the current version.
Commit(p) ==
    /\ txn[p] # NoTxn
    /\ txn[p].base = vault
    /\ vault' = txn[p].cur
    /\ txn' = [txn EXCEPT ![p].base = txn[p].cur]
    /\ UNCHANGED copies

\* As Commit, but p is told that it failed, or dies before it is told.
CommitUnacknowledged(p) ==
    /\ txn[p] # NoTxn
    /\ txn[p].base = vault
    /\ vault' = txn[p].cur
    /\ txn' \in {txn, [txn EXCEPT ![p] = NoTxn]}
    /\ UNCHANGED copies

End(p) ==
    /\ txn' = [txn EXCEPT ![p] = NoTxn]
    /\ UNCHANGED <<vault, copies>>

\* A backup keeps the current version, and may lose an older copy; a crash
\* may lose a copy that was not written yet.
Keep ==
    /\ copies' \subseteq copies \cup ({vault} \ {NoVault})
    /\ UNCHANGED <<vault, txn>>

\* A copy is put back, whatever the current version is.
Restore ==
    /\ vault' \in copies
    /\ copies' \subseteq copies
    /\ UNCHANGED txn

\* A process dies: its copies go with it.
Die(p) ==
    /\ txn' = [txn EXCEPT ![p] = NoTxn]
    /\ copies' \subseteq copies
    /\ UNCHANGED vault

Next ==
    \/ \E p \in Process :
          \/ Read(p)    \/ Edit(p) \/ Mint(p)
          \/ Commit(p)  \/ CommitUnacknowledged(p)
          \/ End(p)     \/ Die(p)
    \/ Keep \/ Restore

Spec == Init /\ [][Next]_vars
=============================================================================
