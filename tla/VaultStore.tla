----------------------------- MODULE VaultStore ------------------------------
(***************************************************************************)
(* The vault file and the processes that share it: `VaultStore` and        *)
(* `VaultLock` of store.rs, one action per step of a method that another   *)
(* process can tell apart, and the two other users of the file, the backup *)
(* and the restore of main.rs.  A process calls the methods in any order:  *)
(* the module promises what the store guarantees by itself, whatever the   *)
(* command that uses it does.                                              *)
(*                                                                         *)
(* A process holds at most one open store.  Every random draw (data key,   *)
(* salt, recovery entropy, AEAD nonce) takes the next number of `fresh`,   *)
(* so draws never collide.  A file is the record of what its JSON carries; *)
(* its nonce makes two saves of the same body two different files, as the  *)
(* ciphertext does, and a fingerprint (blake3, taken as injective) is      *)
(* represented by the file it digests.                                     *)
(***************************************************************************)
EXTENDS VaultBody

CONSTANTS
    Process,
    Passphrase,
    Name,           \* names a snapshot file can have
    NoFile,         \* nothing at a path; a fingerprint that was never taken
    NoWrap,         \* wrap.recovery = None
    Closed,         \* a process that holds no VaultStore
    Free,           \* nobody holds the flock
    NoArg,
    MaxFresh,       \* bound on the random draws
    ForeignPass,    \* passphrase of the vault of another machine
    SetInput,       \* <<value, tier>> pairs a caller of `set` passes
    RotateInput,    \* policies a caller of `set_rotation` passes
    DiskFails       \* whether write_private may fail

VARIABLES
    file,           \* what is at vault_path
    snapshot,       \* snapshot[n]: the copy with name n
    lock,           \* who holds the flock on <vault>.lock
    store,          \* store[p]: the VaultStore in the memory of p
    pc,             \* pc[p]: the method p is in, "idle" between methods
    arg,            \* what that method carries
    fresh           \* the next random draw

vars == <<file, snapshot, lock, store, pc, arg, fresh>>

(* A recovery phrase is the entropy it encodes, a number drawn afresh. *)
Wrap     == [cred: Passphrase \cup Nat, salt: Nat, dk: Nat]
Contents == [dk: Nat, pass: Wrap, rec: Wrap \cup {NoWrap}, body: Body, nonce: Nat]

\* A file without its nonce, which AtomicVault does not see.
Versions == [dk: Nat, pass: Wrap, rec: Wrap \cup {NoWrap}, body: Body]

(* The fields of VaultStore.  `held`: self.lock is Some. *)
Store == [dk: Nat, pass: Wrap, rec: Wrap \cup {NoWrap}, body: Body,
          fp: Contents \cup {NoFile}, held: BOOLEAN]

CopyOf == [name: Name, bytes: Contents]

ASSUME StoreAssumption ==
    /\ MaxFresh \in Nat
    /\ ForeignPass \in Passphrase
    /\ Passphrase \cap Nat = {}
    /\ Passphrase \cap CopyOf = {}
    /\ NoFile \notin Contents \cup Versions
    /\ NoWrap \notin Wrap
    /\ Closed \notin Store \cup [base: Versions \cup {NoFile}, cur: Versions]
    /\ Free \notin Process
    /\ NoArg \notin Passphrase \cup CopyOf
    /\ SetInput \subseteq Value \X (0 .. TIER_MAX + 1)
    /\ RotateInput \subseteq BOOLEAN
    /\ DiskFails \in BOOLEAN

\* Methods in which p holds the flock whether or not its store owns it.
LockedPc == {"createCheck", "refresh", "check", "write", "replace", "notify"}

TypeOK ==
    /\ file \in Contents \cup {NoFile}
    /\ snapshot \in [Name -> Contents \cup {NoFile}]
    /\ lock \in Process \cup {Free}
    /\ store \in [Process -> Store \cup {Closed}]
    /\ pc \in [Process -> LockedPc \cup {"idle", "load", "createLock", "snap", "replaceLock"}]
    /\ arg \in [Process -> Passphrase \cup CopyOf \cup {NoArg}]
    /\ fresh \in Nat

(* A vault another machine made; a snapshot of it may lie around. *)
Foreign == [dk |-> 0, pass |-> [cred |-> ForeignPass, salt |-> 0, dk |-> 0],
            rec |-> NoWrap, body |-> EmptyBody, nonce |-> 0]

Init ==
    /\ file = NoFile
    /\ \/ snapshot = [n \in Name |-> NoFile]
       \/ \E n \in Name : snapshot = [m \in Name |-> IF m = n THEN Foreign ELSE NoFile]
    /\ lock = Free
    /\ store = [p \in Process |-> Closed]
    /\ pc = [p \in Process |-> "idle"]
    /\ arg = [p \in Process |-> NoArg]
    /\ fresh = 1

-----------------------------------------------------------------------------
(* Helpers. *)

Idle(p) == pc[p] = "idle"
Open(p) == store[p] # Closed
Holds(p) == Open(p) /\ store[p].held

\* Faulty variant: a flock that excludes nobody.
CanLockAlways(p) == TRUE

\* acquire returns at once when the flock is free or p's store owns it.
CanLock(p) == lock = Free \/ Holds(p)

Draw == fresh < MaxFresh /\ fresh' = fresh + 1

\* The VaultStore that a method builds from a file it decrypted.
Loaded(c) == [dk |-> c.dk, pass |-> c.pass, rec |-> c.rec, body |-> c.body,
              fp |-> c, held |-> FALSE]

\* A wrap opens with its credential, and what it wraps must open the body.
Unwraps(w, cred, c) == w # NoWrap /\ w.cred = cred /\ w.dk = c.dk

\* What `save` writes: the store, sealed under a fresh nonce.
Sealed(s) == [dk |-> s.dk, pass |-> s.pass, rec |-> s.rec, body |-> s.body,
              nonce |-> fresh]

Goto(p, label) == pc' = [pc EXCEPT ![p] = label]

\* Faulty variants: the lock leaks; the lock of the store goes too.
LeaveSaveLocked(p)   == Goto(p, "idle") /\ UNCHANGED lock
LeaveSaveUnlocked(p) == Goto(p, "idle") /\ lock' = Free

\* The process leaves a method that locked: the transient lock goes, a lock the
\* store owns stays.
LeaveSave(p) ==
    /\ Goto(p, "idle")
    /\ lock' = IF store'[p] # Closed /\ store'[p].held THEN lock ELSE Free

-----------------------------------------------------------------------------
(* open_at_with_passphrase, load_v2, create_new, open_at_with_mnemonic. *)

OpenAtWithPassphrase(p, pass) ==
    /\ Idle(p) /\ ~Open(p)
    /\ Goto(p, IF file = NoFile THEN "createLock" ELSE "load")
    /\ arg' = [arg EXCEPT ![p] = pass]
    /\ UNCHANGED <<file, snapshot, lock, store, fresh>>

load_v2(p) ==
    /\ pc[p] = "load"
    /\ store' = [store EXCEPT ![p] =
                    IF file # NoFile /\ Unwraps(file.pass, arg[p], file)
                    THEN Loaded(file) ELSE Closed]
    /\ arg' = [arg EXCEPT ![p] = NoArg]
    /\ Goto(p, "idle")
    /\ UNCHANGED <<file, snapshot, lock, fresh>>

CreateLock(p) ==
    /\ pc[p] = "createLock" /\ lock = Free
    /\ lock' = p
    /\ Goto(p, "createCheck")
    /\ UNCHANGED <<file, snapshot, store, arg, fresh>>

\* Somebody created the vault while p waited: open that one.
CreateYields(p) ==
    /\ pc[p] = "createCheck" /\ file # NoFile
    /\ lock' = Free
    /\ Goto(p, "load")
    /\ UNCHANGED <<file, snapshot, store, arg, fresh>>

\* Builds the new store and saves it under the lock CreateLock took.
MintStore(p) ==
    /\ Draw
    /\ store' = [store EXCEPT ![p] =
                    [dk   |-> fresh,
                     pass |-> [cred |-> arg[p], salt |-> fresh, dk |-> fresh],
                     rec  |-> NoWrap, body |-> EmptyBody,
                     fp   |-> NoFile, held |-> TRUE]]
    /\ arg' = [arg EXCEPT ![p] = NoArg]
    /\ Goto(p, "check")
    /\ UNCHANGED <<file, snapshot, lock>>

\* Faulty variant: vault_path is not looked at again under the lock.
create_new_unchecked(p) == pc[p] = "createCheck" /\ MintStore(p)

create_new(p) ==
    /\ pc[p] = "createCheck" /\ file = NoFile
    /\ MintStore(p)

OpenAtWithMnemonic(p, phrase) ==
    /\ Idle(p) /\ ~Open(p)
    /\ file # NoFile /\ Unwraps(file.rec, phrase, file)
    /\ store' = [store EXCEPT ![p] = Loaded(file)]
    /\ UNCHANGED <<file, snapshot, lock, pc, arg, fresh>>

-----------------------------------------------------------------------------
(* lock_and_refresh *)

lock_and_refresh(p) ==
    /\ Idle(p) /\ Open(p) /\ CanLock(p)
    /\ lock' = p
    /\ store' = [store EXCEPT ![p].held = TRUE]
    /\ Goto(p, "refresh")
    /\ UNCHANGED <<file, snapshot, arg, fresh>>

\* Faulty variant: any vault will do.
CanRefreshAny(p) == file # NoFile

\* The re-read; it fails, changing nothing, when the file went away or no
\* longer opens with the data key of the store.
CanRefresh(p) == file # NoFile /\ file.dk = store[p].dk

\* Faulty variant: the fingerprint is taken, the contents are not.
RefreshReadStale(p) ==
    /\ pc[p] = "refresh"
    /\ store' = IF CanRefresh(p) THEN [store EXCEPT ![p].fp = file, ![p].held = TRUE]
                ELSE store
    /\ Goto(p, "idle")
    /\ UNCHANGED <<file, snapshot, lock, arg, fresh>>

RefreshRead(p) ==
    /\ pc[p] = "refresh"
    /\ store' = IF CanRefresh(p)
                THEN [store EXCEPT ![p] = [Loaded(file) EXCEPT !.dk = store[p].dk,
                                                               !.held = TRUE]]
                ELSE store
    /\ Goto(p, "idle")
    /\ UNCHANGED <<file, snapshot, lock, arg, fresh>>

-----------------------------------------------------------------------------
(* Mutators: in memory only. *)

SetBody(p, b) ==
    /\ store' = [store EXCEPT ![p].body = b]
    /\ UNCHANGED <<file, snapshot, lock, pc, arg, fresh>>

set(p, k, v, t) ==
    /\ Idle(p) /\ Open(p) /\ CanSet(store[p].body, k, t)
    /\ SetBody(p, SetEntry(store[p].body, k, v, t))

set_rotation(p, k, rotate) ==
    /\ Idle(p) /\ Open(p) /\ Has(store[p].body, k)
    /\ SetBody(p, SetRotation(store[p].body, k, rotate))

set_expiry(p, k) ==
    /\ Idle(p) /\ Open(p) /\ Has(store[p].body, k)
    /\ SetBody(p, SetExpiry(store[p].body, k))

delete(p, k) ==
    /\ Idle(p) /\ Open(p) /\ Has(store[p].body, k)
    /\ SetBody(p, Delete(store[p].body, k))

rename(p, from, to) ==
    /\ Idle(p) /\ Open(p) /\ CanRename(store[p].body, from, to)
    /\ SetBody(p, Rename(store[p].body, from, to))

retier(p, k, t) ==
    /\ Idle(p) /\ Open(p) /\ CanRetier(store[p].body, k, t)
    /\ SetBody(p, Retier(store[p].body, k, t))

change_passphrase(p, pass) ==
    /\ Idle(p) /\ Open(p) /\ Draw
    /\ store' = [store EXCEPT ![p].pass = [cred |-> pass, salt |-> fresh, dk |-> store[p].dk]]
    /\ UNCHANGED <<file, snapshot, lock, pc, arg>>

generate_recovery_key(p) ==
    /\ Idle(p) /\ Open(p) /\ Draw
    /\ store' = [store EXCEPT ![p].rec = [cred |-> fresh, salt |-> fresh, dk |-> store[p].dk]]
    /\ UNCHANGED <<file, snapshot, lock, pc, arg>>

-----------------------------------------------------------------------------
(* save.  A store that create_new is building has no fingerprint yet: the   *)
(* comparison is skipped, an error drops the store, and success drops the   *)
(* lock.                                                                   *)

Creating(p) == store[p].fp = NoFile

save(p) ==
    /\ Idle(p) /\ Open(p) /\ CanLock(p)
    /\ lock' = p
    /\ Goto(p, "check")
    /\ UNCHANGED <<file, snapshot, store, arg, fresh>>

\* Faulty variant: `save` compares nothing.
MatchesAny(p) == TRUE

Matches(p) == Creating(p) \/ file = store[p].fp

SaveCheck(p) ==
    /\ pc[p] = "check" /\ Matches(p)
    /\ Goto(p, "write")
    /\ UNCHANGED <<file, snapshot, lock, store, arg, fresh>>

SaveRefused(p) ==
    /\ pc[p] = "check" /\ ~Matches(p)
    /\ UNCHANGED <<file, snapshot, store, arg, fresh>>
    /\ LeaveSave(p)

\* write_private replaced the file: the store now mirrors it.
SaveWrite(p) ==
    /\ pc[p] = "write"
    /\ Draw
    /\ file' = Sealed(store[p])
    /\ store' = [store EXCEPT ![p].fp = file', ![p].held = @ /\ ~Creating(p)]
    /\ LeaveSave(p)
    /\ UNCHANGED <<snapshot, arg>>

AfterError(p) == store' = IF Creating(p) THEN [store EXCEPT ![p] = Closed] ELSE store

\* write_private failed before its rename: the file is what it was.
SaveFails(p) ==
    /\ DiskFails /\ pc[p] = "write"
    /\ AfterError(p)
    /\ LeaveSave(p)
    /\ UNCHANGED <<file, snapshot, arg, fresh>>

\* The rename took place and syncing the directory failed: the file is new,
\* the caller gets an error and the store keeps its old fingerprint.
SaveFailsLate(p) ==
    /\ DiskFails /\ pc[p] = "write"
    /\ Draw
    /\ file' = Sealed(store[p])
    /\ AfterError(p)
    /\ LeaveSave(p)
    /\ UNCHANGED <<snapshot, arg>>

-----------------------------------------------------------------------------
(* The end of a store: dropping it, or the death of its process.           *)

Drop(p) ==
    /\ Idle(p) /\ Open(p)
    /\ store' = [store EXCEPT ![p] = Closed]
    /\ lock' = IF Holds(p) THEN Free ELSE lock
    /\ UNCHANGED <<file, snapshot, pc, arg, fresh>>

\* The OS drops the flock of a process that dies, at any step.  A process that
\* gives up waiting for the flock (LOCK_WAIT) ends the same way.
Crash(p) ==
    /\ ~(Idle(p) /\ ~Open(p))
    /\ store' = [store EXCEPT ![p] = Closed]
    /\ arg' = [arg EXCEPT ![p] = NoArg]
    /\ lock' = IF lock = p THEN Free ELSE lock
    /\ Goto(p, "idle")
    /\ UNCHANGED <<file, snapshot, fresh>>

-----------------------------------------------------------------------------
(* write_backup and cmd_restore of main.rs.                                *)

\* The name must not be taken when p looks; the bytes are read then, the copy
\* appears under its name later.
BackupRead(p, n) ==
    /\ Idle(p) /\ file # NoFile /\ snapshot[n] = NoFile
    /\ arg' = [arg EXCEPT ![p] = [name |-> n, bytes |-> file]]
    /\ Goto(p, "snap")
    /\ UNCHANGED <<file, snapshot, lock, store, fresh>>

WithCopy(p) == [snapshot EXCEPT ![arg[p].name] = arg[p].bytes]

BackupWrite(p) ==
    /\ pc[p] = "snap"
    /\ snapshot' = WithCopy(p)
    /\ arg' = [arg EXCEPT ![p] = NoArg]
    /\ Goto(p, "idle")
    /\ UNCHANGED <<file, lock, store, fresh>>

\* write_private failed, before its rename or after it.
BackupFails(p) ==
    /\ DiskFails /\ pc[p] = "snap"
    /\ snapshot' \in {snapshot, WithCopy(p)}
    /\ arg' = [arg EXCEPT ![p] = NoArg]
    /\ Goto(p, "idle")
    /\ UNCHANGED <<file, lock, store, fresh>>

RestoreRead(p, n) ==
    /\ Idle(p) /\ ~Open(p) /\ snapshot[n] # NoFile
    /\ arg' = [arg EXCEPT ![p] = [name |-> n, bytes |-> snapshot[n]]]
    /\ Goto(p, "replaceLock")
    /\ UNCHANGED <<file, snapshot, lock, store, fresh>>

RestoreLock(p) ==
    /\ pc[p] = "replaceLock" /\ lock = Free
    /\ lock' = p
    /\ Goto(p, "replace")
    /\ UNCHANGED <<file, snapshot, store, arg, fresh>>

\* No comparison, no data key: whatever is there is replaced.  The lock stays with p
\* while it tells the agent to drop its keys.
RestoreWrite(p) ==
    /\ pc[p] = "replace"
    /\ file' = arg[p].bytes
    /\ arg' = [arg EXCEPT ![p] = NoArg]
    /\ Goto(p, "notify")
    /\ UNCHANGED <<snapshot, lock, store, fresh>>

\* The agent answered, or there is none.
RestoreReturns(p) ==
    /\ pc[p] = "notify"
    /\ lock' = Free
    /\ Goto(p, "idle")
    /\ UNCHANGED <<file, snapshot, store, arg, fresh>>

\* As BackupFails.
RestoreFails(p) ==
    /\ DiskFails /\ pc[p] = "replace"
    /\ file' \in {file, arg[p].bytes}
    /\ lock' = Free
    /\ arg' = [arg EXCEPT ![p] = NoArg]
    /\ Goto(p, "idle")
    /\ UNCHANGED <<snapshot, store, fresh>>

-----------------------------------------------------------------------------

OpenStep(p) ==
    \/ \E pass \in Passphrase : OpenAtWithPassphrase(p, pass)
    \/ load_v2(p) \/ CreateLock(p) \/ CreateYields(p) \/ create_new(p)
    \/ \E phrase \in 1 .. MaxFresh : OpenAtWithMnemonic(p, phrase)

MutateStep(p) ==
    \/ \E k \in Key : \/ \E in \in SetInput : set(p, k, in[1], in[2])
                      \/ \E rotate \in RotateInput : set_rotation(p, k, rotate)
                      \/ set_expiry(p, k) \/ delete(p, k)
                      \/ \E to \in Key : rename(p, k, to)
                      \/ \E in \in SetInput : retier(p, k, in[2])
    \/ \E pass \in Passphrase : change_passphrase(p, pass)
    \/ generate_recovery_key(p)

SaveStep(p) ==
    \/ lock_and_refresh(p) \/ RefreshRead(p)
    \/ save(p) \/ SaveCheck(p) \/ SaveRefused(p)
    \/ SaveWrite(p) \/ SaveFails(p) \/ SaveFailsLate(p)

CopyStep(p) ==
    \/ \E n \in Name : BackupRead(p, n) \/ RestoreRead(p, n)
    \/ BackupWrite(p) \/ BackupFails(p) \/ RestoreLock(p) \/ RestoreWrite(p) \/ RestoreFails(p)
    \/ RestoreReturns(p)

Next == \E p \in Process :
            OpenStep(p) \/ MutateStep(p) \/ SaveStep(p) \/ CopyStep(p) \/ Drop(p) \/ Crash(p)

Spec == Init /\ [][Next]_vars

-----------------------------------------------------------------------------
(* Invariants. *)

\* The flock and the processes agree: exactly the process that is inside a
\* locked method, or whose store owns the lock, holds it; so no error path
\* leaves it taken by a process that no longer knows of it.
LockInv ==
    \A p \in Process : lock = p <=> (Holds(p) \/ pc[p] \in LockedPc)

\* Between the comparison of `save` and its rename nobody replaces the file,
\* and nobody creates one under a store that is minting the vault.
WriteIsCurrent ==
    \A p \in Process : pc[p] = "write" => store[p].fp = file

\* What a wrap holds opens what it came with.
Coherent(c) == c.pass.dk = c.dk /\ (c.rec # NoWrap => c.rec.dk = c.dk)

\* The file at vault_path, and every copy of one, opens with its passphrase
\* and, if it has one, with its recovery phrase: no order of refreshes,
\* rewraps and restores pairs a body with wraps of another data key.
WrapsOpenBody ==
    /\ file # NoFile => Coherent(file)
    /\ \A n \in Name : snapshot[n] # NoFile => Coherent(snapshot[n])

-----------------------------------------------------------------------------
(* Action properties. *)

\* No lost update: a step that changes the file puts a copy back (restore), or
\* is the save of a process whose store was read from the very file that the
\* save replaces.  A commit of another process in between is never dropped.
NoLostUpdate ==
    [][file' # file =>
          \E p \in Process :
             \/ pc[p] = "replace" /\ file' = arg[p].bytes
             \/ Open(p) /\ store[p].fp = file /\ file'.body = store[p].body]_vars

\* A vault that exists is never given another data key, except by a restore:
\* of two processes that both found no vault, one creates it.
DataKeyIsStable ==
    [][file # NoFile /\ file' # file =>
          \/ file'.dk = file.dk
          \/ \E p \in Process : pc[p] = "replace"]_vars

-----------------------------------------------------------------------------
(* The store implements AtomicVault: a version is a file without its nonce, *)
(* a transaction is an open store, its base the fingerprint of the store.   *)

Version(c) == IF c = NoFile THEN NoFile
              ELSE [dk |-> c.dk, pass |-> c.pass, rec |-> c.rec, body |-> c.body]

Carried == {arg[p].bytes : p \in {q \in Process : arg[q] \in CopyOf}}

Atomic == INSTANCE AtomicVault WITH
    NoVault <- NoFile,
    NoTxn   <- Closed,
    vault   <- Version(file),
    copies  <- {Version(c) : c \in Carried \cup {snapshot[n] : n \in Name}} \ {NoFile},
    txn     <- [p \in Process |->
                   IF store[p] = Closed THEN Closed
                   ELSE [base |-> Version(store[p].fp),
                         cur  |-> [dk  |-> store[p].dk,  pass |-> store[p].pass,
                                   rec |-> store[p].rec, body |-> store[p].body]]]

\* The implementation theorem: the whole store behaves as the register of
\* AtomicVault, lock, fingerprint, failures and crashes included.
Implements == Atomic!Spec
=============================================================================
