--------------------------- MODULE VaultStoreProofs ---------------------------
(***************************************************************************)
(* Theorems about VaultStore, for every set of processes, keys, values,    *)
(* passphrases and snapshot names, and every bound on the random draws.    *)
(***************************************************************************)
EXTENDS VaultStore, TLAPS

USE NoEntryAssumption, StoreAssumption

-----------------------------------------------------------------------------
(* The body operators return bodies. *)

LEMMA EmptyBodyType == EmptyBody \in Body
  BY DEF EmptyBody, Body

LEMMA SetEntryType ==
  ASSUME NEW b \in Body, NEW k \in Key, NEW v \in Value, NEW t \in Nat, validate_tier(t)
  PROVE  SetEntry(b, k, v, t) \in Body
<1>1. t \in Tier
  BY DEF validate_tier, Tier
<1>2. Has(b, k) => b[k] \in BodyEntry
  BY DEF Body, Has
<1>3. (Has(b, k) /\ b[k].rotate) \in BOOLEAN
  BY <1>2 DEF BodyEntry
<1>4. QED
  BY <1>1, <1>3 DEF SetEntry, Body, BodyEntry, DueFrom

LEMMA SetRotationType ==
  ASSUME NEW b \in Body, NEW k \in Key, NEW r \in BOOLEAN, Has(b, k)
  PROVE  SetRotation(b, k, r) \in Body
<1> DEFINE e == [b[k] EXCEPT !.rotate = r, !.due = DueFrom(r)]
<1>1. b[k] \in BodyEntry
  BY DEF Body, Has
<1>2. DueFrom(r) \in {"never", "policy", "pinned"}
  BY DEF DueFrom
<1>3. e \in BodyEntry
  BY <1>1, <1>2 DEF BodyEntry
<1> HIDE DEF e
<1>4. [b EXCEPT ![k] = e] \in Body
  BY <1>3 DEF Body
<1>5. QED
  BY <1>4 DEF SetRotation, e

LEMMA SetExpiryType ==
  ASSUME NEW b \in Body, NEW k \in Key, Has(b, k)
  PROVE  SetExpiry(b, k) \in Body
<1> DEFINE e == [b[k] EXCEPT !.due = "pinned"]
<1>1. b[k] \in BodyEntry
  BY DEF Body, Has
<1>2. e \in BodyEntry
  BY <1>1 DEF BodyEntry
<1> HIDE DEF e
<1>3. [b EXCEPT ![k] = e] \in Body
  BY <1>2 DEF Body
<1>4. QED
  BY <1>3 DEF SetExpiry, e

LEMMA DeleteType ==
  ASSUME NEW b \in Body, NEW k \in Key
  PROVE  Delete(b, k) \in Body
  BY DEF Delete, Body

LEMMA RenameType ==
  ASSUME NEW b \in Body, NEW k \in Key, NEW l \in Key
  PROVE  Rename(b, k, l) \in Body
  BY DEF Rename, Body

LEMMA RetierType ==
  ASSUME NEW b \in Body, NEW k \in Key, NEW t \in Nat, CanRetier(b, k, t)
  PROVE  Retier(b, k, t) \in Body
  BY DEF Retier, Body, BodyEntry, Has, CanRetier, validate_tier, Tier

-----------------------------------------------------------------------------
(* The records a step builds. *)

LEMMA LoadedType ==
  ASSUME NEW c \in Contents
  PROVE  Loaded(c) \in Store
  BY DEF Loaded, Store, Contents

LEMMA SealedType ==
  ASSUME NEW s \in Store, fresh \in Nat
  PROVE  Sealed(s) \in Contents
  BY DEF Sealed, Store, Contents

LEMMA ForeignType == Foreign \in Contents
<1>1. [cred |-> ForeignPass, salt |-> 0, dk |-> 0] \in Wrap
  BY DEF Wrap
<1>2. QED
  BY <1>1, EmptyBodyType DEF Foreign, Contents

LEMMA StoreUpdate ==
  ASSUME NEW s \in Store \cup {Closed}, NEW p \in Process,
         store \in [Process -> Store \cup {Closed}]
  PROVE  [store EXCEPT ![p] = s] \in [Process -> Store \cup {Closed}]
  OBVIOUS

LEMMA FieldUpdate ==
  ASSUME NEW s \in Store
  PROVE  /\ \A b \in Body : [s EXCEPT !.body = b] \in Store
         /\ \A w \in Wrap : [s EXCEPT !.pass = w] \in Store
         /\ \A w \in Wrap : [s EXCEPT !.rec = w] \in Store
         /\ \A h \in BOOLEAN : [s EXCEPT !.held = h] \in Store
         /\ \A c \in Contents, h \in BOOLEAN : [s EXCEPT !.fp = c, !.held = h] \in Store
<1>1. \A h \in BOOLEAN : [s EXCEPT !.held = h] \in Store
  BY DEF Store
<1>2. \A c \in Contents, h \in BOOLEAN : [s EXCEPT !.fp = c, !.held = h] \in Store
  BY DEF Store
<1>3. \A b \in Body : [s EXCEPT !.body = b] \in Store
  BY DEF Store
<1>4. \A w \in Wrap : [s EXCEPT !.pass = w] \in Store /\ [s EXCEPT !.rec = w] \in Store
  BY DEF Store
<1>5. QED
  BY <1>1, <1>2, <1>3, <1>4

-----------------------------------------------------------------------------
(* Any client of the store.  A command of main.rs, or the next one somebody *)
(* writes, opens, refreshes and saves through the methods of VaultStore and *)
(* edits the open store between two of them; the steps below say no more    *)
(* than that of it.  What is proved of them holds for Next, for the         *)
(* commands and for the imports alike.                                      *)

\* What every mutator does: another store in memory with the same data key,
\* fingerprint and lock, whose new wraps hold the data key.
Edits(p) ==
    \E s \in Store :
       /\ s.dk = store[p].dk /\ s.fp = store[p].fp /\ s.held = store[p].held
       /\ s.pass = store[p].pass \/ s.pass.dk = s.dk
       /\ s.rec = store[p].rec \/ s.rec.dk = s.dk
       /\ store' = [store EXCEPT ![p] = s]

EditStep(p) ==
    /\ Idle(p) /\ Open(p)
    /\ Edits(p)
    /\ fresh' \in {fresh, fresh + 1}
    /\ UNCHANGED <<file, snapshot, lock, pc, arg>>

\* Any phrase may be typed.
ClientOpenStep(p) ==
    \/ \E pass \in Passphrase : OpenAtWithPassphrase(p, pass)
    \/ load_v2(p) \/ CreateLock(p) \/ CreateYields(p) \/ create_new(p)
    \/ \E phrase \in Nat : OpenAtWithMnemonic(p, phrase)

ClientStep(p) ==
    ClientOpenStep(p) \/ EditStep(p) \/ SaveStep(p) \/ CopyStep(p) \/ Drop(p) \/ Crash(p)

ClientNext == \E p \in Process : ClientStep(p)

ClientSpec == Init /\ [][ClientNext]_vars

-----------------------------------------------------------------------------
(* Type correctness.  TypeOK is not inductive alone: what a method carries  *)
(* in `arg`, and whether it runs on an open store, depends on the method.   *)

ShapeInv ==
    \A p \in Process :
       /\ pc[p] \in {"load", "createLock", "createCheck"} => arg[p] \in Passphrase /\ ~Open(p)
       /\ pc[p] = "snap" => arg[p] \in CopyOf
       /\ pc[p] \in {"replaceLock", "replace"} => arg[p] \in CopyOf /\ ~Open(p)
       /\ pc[p] = "notify" => ~Open(p)
       /\ pc[p] \in {"refresh", "check", "write"} => Open(p)
       /\ pc[p] \in {"idle", "refresh", "check", "write", "notify"} => arg[p] = NoArg

TypeInv == TypeOK /\ ShapeInv

LEMMA TypeInit == Init => TypeInv
  BY ForeignType DEF Init, TypeInv, TypeOK, ShapeInv, LockedPc

LEMMA TypeOpen ==
  ASSUME TypeInv, NEW p \in Process, ClientOpenStep(p)
  PROVE  TypeInv'
<1> USE DEF TypeInv, TypeOK, ShapeInv, LockedPc, Idle, Open, Goto
<1>1. ASSUME NEW pass \in Passphrase, OpenAtWithPassphrase(p, pass)
      PROVE  TypeInv'
  BY <1>1 DEF OpenAtWithPassphrase
<1>2. CASE load_v2(p)
  BY <1>2, LoadedType DEF load_v2
<1>3. CASE CreateLock(p)
  BY <1>3 DEF CreateLock
<1>4. CASE CreateYields(p)
  BY <1>4 DEF CreateYields
<1>5. CASE create_new(p)
  <2> DEFINE s == [dk   |-> fresh,
                   pass |-> [cred |-> arg[p], salt |-> fresh, dk |-> fresh],
                   rec  |-> NoWrap, body |-> EmptyBody,
                   fp   |-> NoFile, held |-> TRUE]
  <2>1. [cred |-> arg[p], salt |-> fresh, dk |-> fresh] \in Wrap
    BY <1>5 DEF create_new, Wrap
  <2>2. s \in Store
    BY <2>1, EmptyBodyType DEF Store
  <2> HIDE DEF s
  <2>3. store' = [store EXCEPT ![p] = s]
    BY <1>5 DEF create_new, MintStore, s
  <2>4. /\ pc' = [pc EXCEPT ![p] = "check"] /\ arg' = [arg EXCEPT ![p] = NoArg]
        /\ fresh' \in Nat /\ UNCHANGED <<file, snapshot, lock>>
    BY <1>5 DEF create_new, MintStore, Draw
  <2>5. TypeOK'
    BY <2>2, <2>3, <2>4
  <2>6. ShapeInv'
    BY <2>2, <2>3, <2>4
  <2>7. QED
    BY <2>5, <2>6
<1>6. ASSUME NEW phrase \in Nat, OpenAtWithMnemonic(p, phrase)
      PROVE  TypeInv'
  BY <1>6, LoadedType DEF OpenAtWithMnemonic
<1>7. QED
  BY <1>1, <1>2, <1>3, <1>4, <1>5, <1>6 DEF ClientOpenStep

LEMMA SetBodyEdits ==
  ASSUME TypeInv, NEW p \in Process, Open(p), NEW b \in Body, SetBody(p, b)
  PROVE  Edits(p)
<1> DEFINE s == [store[p] EXCEPT !.body = b]
<1>1. store[p] \in Store
  BY DEF TypeInv, TypeOK, Open
<1>2. s \in Store
  BY <1>1, FieldUpdate
<1>3. /\ s.dk = store[p].dk /\ s.fp = store[p].fp /\ s.held = store[p].held
      /\ s.pass = store[p].pass /\ s.rec = store[p].rec
  BY <1>1 DEF Store
<1>4. store' = [store EXCEPT ![p] = s]
  BY DEF SetBody
<1> HIDE DEF s
<1>5. QED
  BY <1>2, <1>3, <1>4 DEF Edits

LEMMA MutateEdits ==
  ASSUME TypeInv, NEW p \in Process, MutateStep(p)
  PROVE  EditStep(p)
<1>1. /\ Idle(p) /\ Open(p) /\ UNCHANGED <<file, snapshot, lock, pc, arg>>
      /\ fresh' \in {fresh, fresh + 1}
  BY DEF MutateStep, set, set_rotation, set_expiry, delete, rename, retier, SetBody,
         change_passphrase, generate_recovery_key, Draw, TypeInv, TypeOK
<1>2. store[p] \in Store /\ store[p].body \in Body /\ store[p].dk \in Nat /\ fresh \in Nat
  BY <1>1 DEF TypeInv, TypeOK, Open, Store
<1>3. ASSUME NEW in \in SetInput
      PROVE  in[1] \in Value /\ in[2] \in Nat
  BY DEF TIER_MAX
<1>4. ASSUME NEW k \in Key, NEW in \in SetInput, set(p, k, in[1], in[2])
      PROVE  Edits(p)
  BY <1>1, <1>2, <1>3, <1>4, SetEntryType, SetBodyEdits DEF set, CanSet
<1>5. ASSUME NEW k \in Key, NEW rotate \in RotateInput, set_rotation(p, k, rotate)
      PROVE  Edits(p)
  <2>1. rotate \in BOOLEAN
    OBVIOUS
  <2>2. QED
    BY <1>1, <1>2, <1>5, <2>1, SetRotationType, SetBodyEdits DEF set_rotation
<1>6. ASSUME NEW k \in Key, set_expiry(p, k)
      PROVE  Edits(p)
  BY <1>1, <1>2, <1>6, SetExpiryType, SetBodyEdits DEF set_expiry
<1>7. ASSUME NEW k \in Key, delete(p, k)
      PROVE  Edits(p)
  BY <1>1, <1>2, <1>7, DeleteType, SetBodyEdits DEF delete
<1>8. ASSUME NEW k \in Key, NEW to \in Key, rename(p, k, to)
      PROVE  Edits(p)
  BY <1>1, <1>2, <1>8, RenameType, SetBodyEdits DEF rename
<1>9. ASSUME NEW k \in Key, NEW in \in SetInput, retier(p, k, in[2])
      PROVE  Edits(p)
  BY <1>1, <1>2, <1>3, <1>9, RetierType, SetBodyEdits DEF retier
<1>10. ASSUME NEW pass \in Passphrase, change_passphrase(p, pass)
       PROVE  Edits(p)
  <2> DEFINE w == [cred |-> pass, salt |-> fresh, dk |-> store[p].dk]
             s == [store[p] EXCEPT !.pass = w]
  <2>1. w \in Wrap
    BY <1>2 DEF Wrap
  <2>2. s \in Store
    BY <1>2, <2>1, FieldUpdate
  <2>3. /\ s.dk = store[p].dk /\ s.fp = store[p].fp /\ s.held = store[p].held
        /\ s.pass.dk = s.dk /\ s.rec = store[p].rec
    BY <1>2 DEF Store
  <2>4. store' = [store EXCEPT ![p] = s]
    BY <1>10 DEF change_passphrase
  <2> HIDE DEF s
  <2>5. QED
    BY <2>2, <2>3, <2>4 DEF Edits
<1>11. ASSUME generate_recovery_key(p)
       PROVE  Edits(p)
  <2> DEFINE w == [cred |-> fresh, salt |-> fresh, dk |-> store[p].dk]
             s == [store[p] EXCEPT !.rec = w]
  <2>1. w \in Wrap
    BY <1>2 DEF Wrap
  <2>2. s \in Store
    BY <1>2, <2>1, FieldUpdate
  <2>3. /\ s.dk = store[p].dk /\ s.fp = store[p].fp /\ s.held = store[p].held
        /\ s.pass = store[p].pass /\ s.rec.dk = s.dk
    BY <1>2 DEF Store
  <2>4. store' = [store EXCEPT ![p] = s]
    BY <1>11 DEF generate_recovery_key
  <2> HIDE DEF s
  <2>5. QED
    BY <2>2, <2>3, <2>4 DEF Edits
<1>12. Edits(p)
  BY <1>4, <1>5, <1>6, <1>7, <1>8, <1>9, <1>10, <1>11 DEF MutateStep
<1>13. QED
  BY <1>1, <1>12 DEF EditStep

LEMMA TypeEdit ==
  ASSUME TypeInv, NEW p \in Process, EditStep(p)
  PROVE  TypeInv'
<1>1. PICK s \in Store : store' = [store EXCEPT ![p] = s]
  BY DEF EditStep, Edits
<1>2. QED
  BY <1>1 DEF EditStep, Idle, TypeInv, TypeOK, ShapeInv, Open, LockedPc

LEMMA TypeSave ==
  ASSUME TypeInv, NEW p \in Process, SaveStep(p)
  PROVE  TypeInv'
<1> USE DEF TypeInv, TypeOK, ShapeInv, LockedPc, Idle, Open, Goto, LeaveSave, AfterError
<1>1. CASE lock_and_refresh(p)
  <2> DEFINE s == [store[p] EXCEPT !.held = TRUE]
  <2>1. s \in Store
    BY <1>1, FieldUpdate DEF lock_and_refresh
  <2>2. store' = [store EXCEPT ![p] = s]
    BY <1>1 DEF lock_and_refresh
  <2>3. /\ lock' = p /\ pc' = [pc EXCEPT ![p] = "refresh"] /\ pc[p] = "idle"
        /\ UNCHANGED <<file, snapshot, arg, fresh>>
    BY <1>1 DEF lock_and_refresh
  <2> HIDE DEF s
  <2>4. TypeOK'
    BY <2>1, <2>2, <2>3
  <2>5. ShapeInv'
    BY <2>1, <2>2, <2>3
  <2>6. QED
    BY <2>4, <2>5
<1>2. CASE RefreshRead(p)
  <2>1. CASE CanRefresh(p)
    <3> DEFINE s == [Loaded(file) EXCEPT !.dk = store[p].dk, !.held = TRUE]
    <3>1. Loaded(file) \in Store /\ store[p].dk \in Nat
      BY <1>2, <2>1, LoadedType DEF CanRefresh, RefreshRead, Store
    <3>2. s \in Store
      BY <3>1 DEF Store
    <3>3. store' = [store EXCEPT ![p] = s]
      BY <1>2, <2>1 DEF RefreshRead
    <3> HIDE DEF s
    <3>4. QED
      BY <1>2, <3>2, <3>3 DEF RefreshRead
  <2>2. CASE ~CanRefresh(p)
    BY <1>2, <2>2 DEF RefreshRead
  <2>3. QED
    BY <2>1, <2>2
<1>3. CASE save(p)
  BY <1>3 DEF save
<1>4. CASE SaveCheck(p)
  BY <1>4 DEF SaveCheck
<1>5. CASE SaveRefused(p)
  BY <1>5 DEF SaveRefused
<1>6. CASE SaveWrite(p)
  <2> DEFINE s == [store[p] EXCEPT !.fp = file', !.held = @ /\ ~Creating(p)]
  <2>1. store[p] \in Store /\ Sealed(store[p]) \in Contents
    BY <1>6, SealedType DEF SaveWrite
  <2>2. (store[p].held /\ ~Creating(p)) \in BOOLEAN
    BY DEF Creating
  <2>3. s \in Store
    BY <1>6, <2>1, <2>2, FieldUpdate DEF SaveWrite
  <2>4. store' = [store EXCEPT ![p] = s]
    BY <1>6 DEF SaveWrite
  <2> HIDE DEF s
  <2>5. /\ file' \in Contents /\ fresh' \in Nat
        /\ lock' \in {lock, Free} /\ UNCHANGED <<snapshot, arg>>
        /\ pc[p] = "write" /\ pc' = [pc EXCEPT ![p] = "idle"]
    BY <1>6, <2>1 DEF SaveWrite, Draw
  <2>6. store' \in [Process -> Store \cup {Closed}] /\ \A q \in Process : Open(q) => Open(q)'
    BY <2>3, <2>4
  <2>7. TypeOK'
    BY <2>5, <2>6
  <2>8. ShapeInv'
    BY <2>5, <2>6, <2>4, <2>3
  <2>9. QED
    BY <2>7, <2>8
<1>7. CASE SaveFails(p)
  BY <1>7 DEF SaveFails
<1>8. CASE SaveFailsLate(p)
  <2>1. Sealed(store[p]) \in Contents
    BY <1>8, SealedType DEF SaveFailsLate
  <2>2. QED
    BY <1>8, <2>1 DEF SaveFailsLate, Draw
<1>9. QED
  BY <1>1, <1>2, <1>3, <1>4, <1>5, <1>6, <1>7, <1>8 DEF SaveStep

LEMMA TypeCopy ==
  ASSUME TypeInv, NEW p \in Process, CopyStep(p)
  PROVE  TypeInv'
<1> USE DEF TypeInv, TypeOK, ShapeInv, LockedPc, Idle, Open, Goto
<1>1. ASSUME NEW n \in Name, BackupRead(p, n)
      PROVE  TypeInv'
  BY <1>1 DEF BackupRead, CopyOf
<1>2. ASSUME NEW n \in Name, RestoreRead(p, n)
      PROVE  TypeInv'
  BY <1>2 DEF RestoreRead, CopyOf
<1>3. CASE BackupWrite(p)
  BY <1>3 DEF BackupWrite, WithCopy, CopyOf
<1>4. CASE BackupFails(p)
  BY <1>4 DEF BackupFails, WithCopy, CopyOf
<1>5. CASE RestoreLock(p)
  BY <1>5 DEF RestoreLock
<1>6. CASE RestoreWrite(p)
  BY <1>6 DEF RestoreWrite, CopyOf
<1>7. CASE RestoreFails(p)
  BY <1>7 DEF RestoreFails, CopyOf
<1>8. CASE RestoreReturns(p)
  BY <1>8 DEF RestoreReturns
<1>9. QED
  BY <1>1, <1>2, <1>3, <1>4, <1>5, <1>6, <1>7, <1>8 DEF CopyStep

LEMMA TypeEnd ==
  ASSUME TypeInv, NEW p \in Process, Drop(p) \/ Crash(p)
  PROVE  TypeInv'
  BY DEF TypeInv, TypeOK, ShapeInv, LockedPc, Idle, Open, Goto, Drop, Crash

LEMMA TypeNext == TypeInv /\ [ClientNext]_vars => TypeInv'
<1>1. CASE UNCHANGED vars
  BY <1>1 DEF vars, TypeInv, TypeOK, ShapeInv, Open
<1>2. QED
  BY <1>1, TypeOpen, TypeEdit, TypeSave, TypeCopy, TypeEnd DEF ClientNext, ClientStep

\* A client leaves the memory of every other process alone.
LEMMA ClientFrame ==
  ASSUME TypeInv, NEW p \in Process, ClientStep(p) \/ UNCHANGED vars, NEW q \in Process, q # p
  PROVE  store'[q] = store[q] /\ pc'[q] = pc[q] /\ arg'[q] = arg[q]
<1> USE DEF TypeInv, TypeOK, Goto
<1>1. CASE UNCHANGED vars
  BY <1>1 DEF vars
<1>2. CASE ClientOpenStep(p)
  BY <1>2 DEF ClientOpenStep, OpenAtWithPassphrase, load_v2, CreateLock, CreateYields,
              create_new, MintStore, OpenAtWithMnemonic
<1>3. CASE EditStep(p)
  BY <1>3 DEF EditStep, Edits
<1>4. CASE SaveStep(p)
  BY <1>4 DEF SaveStep, lock_and_refresh, RefreshRead, save, SaveCheck, SaveRefused, SaveWrite,
              SaveFails, SaveFailsLate, LeaveSave, AfterError
<1>5. CASE CopyStep(p)
  BY <1>5 DEF CopyStep, BackupRead, RestoreRead, BackupWrite, BackupFails, RestoreLock,
              RestoreWrite, RestoreFails, RestoreReturns
<1>6. CASE Drop(p) \/ Crash(p)
  BY <1>6 DEF Drop, Crash
<1>7. QED
  BY <1>1, <1>2, <1>3, <1>4, <1>5, <1>6 DEF ClientStep

\* The processes of VaultStore are such clients.
LEMMA NextIsClient == TypeInv /\ [Next]_vars => [ClientNext]_vars
<1> SUFFICES ASSUME TypeInv, Next
             PROVE  ClientNext
  OBVIOUS
<1>1. PICK p \in Process :
         OpenStep(p) \/ MutateStep(p) \/ SaveStep(p) \/ CopyStep(p) \/ Drop(p) \/ Crash(p)
  BY DEF Next
<1>2. OpenStep(p) => ClientOpenStep(p)
  BY DEF OpenStep, ClientOpenStep
<1>3. QED
  BY <1>1, <1>2, MutateEdits DEF ClientNext, ClientStep

\* What is proved of every client is proved of the processes of VaultStore: each
\* of its mutators is an edit that keeps the data key, the fingerprint and the
\* lock of the open store.
THEOREM MutatorsAreEdits == Spec => ClientSpec
<1>1. TypeInv /\ [Next]_vars => TypeInv'
  BY NextIsClient, TypeNext
<1>2. QED
  BY <1>1, TypeInit, NextIsClient, PTL DEF Spec, ClientSpec

\* In every reachable state each variable has its type: no order of opens,
\* refreshes, edits, saves, failures, crashes, backups and restores stores an
\* entry of an invalid tier or a half-built file.
THEOREM TypeCorrect == Spec => []TypeOK
<1>1. ClientSpec => []TypeInv
  BY TypeInit, TypeNext, PTL DEF ClientSpec
<1>2. TypeInv => TypeOK
  BY DEF TypeInv
<1>3. QED
  BY <1>1, <1>2, MutatorsAreEdits, PTL

-----------------------------------------------------------------------------
(* Mutual exclusion.  The strengthening: a store that is still minting the  *)
(* vault is inside `save`, owns the lock, and there is no vault; a store    *)
(* that is being refreshed owns the lock, so a failed re-read keeps it.     *)

CreateInv ==
    \A p \in Process : Open(p) /\ Creating(p) =>
        pc[p] \in {"check", "write"} /\ store[p].held /\ file = NoFile

RefreshInv == \A p \in Process : pc[p] = "refresh" => Holds(p)

MutexInv == LockInv /\ CreateInv /\ RefreshInv /\ WriteIsCurrent

\* Two processes never hold the lock together.
LEMMA OneHolder ==
  ASSUME LockInv, NEW p \in Process, NEW q \in Process,
         Holds(p) \/ pc[p] \in LockedPc, Holds(q) \/ pc[q] \in LockedPc
  PROVE  p = q
  BY DEF LockInv

LEMMA MutexInit == Init => MutexInv
  BY DEF Init, MutexInv, LockInv, CreateInv, RefreshInv, WriteIsCurrent, Open, Holds, LockedPc

LEMMA MutexOpen ==
  ASSUME TypeInv, MutexInv, NEW p \in Process, ClientOpenStep(p)
  PROVE  MutexInv'
<1> USE DEF TypeInv, TypeOK, ShapeInv, MutexInv, LockInv, CreateInv, RefreshInv, WriteIsCurrent,
            LockedPc, Idle, Open, Holds, Goto, Creating
<1>1. ASSUME NEW pass \in Passphrase, OpenAtWithPassphrase(p, pass)
      PROVE  MutexInv'
  BY <1>1 DEF OpenAtWithPassphrase
<1>2. CASE load_v2(p)
  BY <1>2, LoadedType DEF load_v2, Loaded
<1>3. CASE CreateLock(p)
  BY <1>3 DEF CreateLock
<1>4. CASE CreateYields(p)
  BY <1>4 DEF CreateYields
<1>5. CASE create_new(p)
  BY <1>5 DEF create_new, MintStore
<1>6. ASSUME NEW phrase \in Nat, OpenAtWithMnemonic(p, phrase)
      PROVE  MutexInv'
  BY <1>6, LoadedType DEF OpenAtWithMnemonic, Loaded
<1>7. QED
  BY <1>1, <1>2, <1>3, <1>4, <1>5, <1>6 DEF ClientOpenStep

LEMMA MutexEdit ==
  ASSUME TypeInv, MutexInv, NEW p \in Process, EditStep(p)
  PROVE  MutexInv'
<1>1. PICK s \in Store : /\ s.fp = store[p].fp /\ s.held = store[p].held
                         /\ store' = [store EXCEPT ![p] = s]
  BY DEF EditStep, Edits
<1>2. Idle(p) /\ Open(p) /\ UNCHANGED <<file, lock, pc>>
  BY DEF EditStep
<1>3. QED
  BY <1>1, <1>2 DEF TypeInv, TypeOK, ShapeInv, MutexInv, LockInv, CreateInv, RefreshInv, WriteIsCurrent,
         LockedPc, Idle, Open, Holds, Creating

LEMMA MutexSave ==
  ASSUME TypeInv, MutexInv, NEW p \in Process, SaveStep(p)
  PROVE  MutexInv'
<1> USE DEF TypeInv, TypeOK, ShapeInv, MutexInv, LockInv, CreateInv, RefreshInv, WriteIsCurrent,
            LockedPc, Idle, Open, Holds, Goto, Creating
<1>1. CASE lock_and_refresh(p)
  <2> DEFINE s == [store[p] EXCEPT !.held = TRUE]
  <2>1. s \in Store /\ s.held /\ s.fp = store[p].fp
    <3>1. store[p] \in Store
      BY <1>1 DEF lock_and_refresh
    <3>2. QED
      BY <3>1 DEF Store
  <2>2. /\ store' = [store EXCEPT ![p] = s]
        /\ pc[p] = "idle" /\ pc' = [pc EXCEPT ![p] = "refresh"]
        /\ lock' = p /\ file' = file /\ Open(p)
    BY <1>1 DEF lock_and_refresh
  <2> HIDE DEF s
  <2>3. \A q \in Process : q # p => ~Holds(q) /\ pc[q] \notin LockedPc
    BY <1>1 DEF lock_and_refresh, CanLock
  <2>4. QED
    BY <2>1, <2>2, <2>3
<1>2. CASE RefreshRead(p)
  <2>1. CASE CanRefresh(p)
    <3> DEFINE s == [Loaded(file) EXCEPT !.dk = store[p].dk, !.held = TRUE]
    <3>1. s \in Store /\ s.held /\ s.fp = file /\ file # NoFile
      <4>1. Loaded(file) \in Store /\ store[p].dk \in Nat /\ file # NoFile
        BY <1>2, <2>1, LoadedType DEF CanRefresh, RefreshRead, Store
      <4>2. QED
        BY <4>1 DEF Store, Loaded
    <3>2. /\ store' = [store EXCEPT ![p] = s]
          /\ pc[p] = "refresh" /\ pc' = [pc EXCEPT ![p] = "idle"]
          /\ UNCHANGED <<file, lock>>
      BY <1>2, <2>1 DEF RefreshRead
    <3> HIDE DEF s
    <3>3. lock = p /\ \A q \in Process : lock = q => q = p
      BY <3>2
    <3>4. QED
      BY <3>1, <3>2, <3>3
  <2>2. CASE ~CanRefresh(p)
    BY <1>2, <2>2 DEF RefreshRead
  <2>3. QED
    BY <2>1, <2>2
<1>3. CASE save(p)
  BY <1>3 DEF save, CanLock
<1>4. CASE SaveCheck(p)
  BY <1>4 DEF SaveCheck, Matches
<1>5. CASE SaveRefused(p)
  BY <1>5 DEF SaveRefused, Matches, LeaveSave
<1>6. CASE SaveWrite(p)
  <2> DEFINE h == store[p].held /\ ~Creating(p)
             s == [store[p] EXCEPT !.fp = file', !.held = h]
  <2>1. store[p] \in Store /\ file' \in Contents
    BY <1>6, SealedType DEF SaveWrite
  <2>2. h \in BOOLEAN
    OBVIOUS
  <2>3. s \in Store /\ s.fp = file' /\ s.held = h /\ file' # NoFile
    BY <2>1, <2>2 DEF Store
  <2>4. store' = [store EXCEPT ![p] = s]
    BY <1>6 DEF SaveWrite
  <2>5. pc[p] = "write" /\ pc' = [pc EXCEPT ![p] = "idle"] /\ lock = p
    BY <1>6 DEF SaveWrite, LeaveSave
  <2> HIDE DEF s, h
  <2>6. lock' = IF s.held THEN lock ELSE Free
    <3>1. store'[p] = s /\ s # Closed
      BY <2>3, <2>4
    <3>2. lock' = IF store'[p] # Closed /\ store'[p].held THEN lock ELSE Free
      BY <1>6 DEF SaveWrite, LeaveSave
    <3>3. QED
      BY <3>1, <3>2
  <2>7. \A q \in Process : q # p => ~Holds(q) /\ pc[q] \notin LockedPc
    BY <2>5
  <2>8. LockInv'
    BY <2>3, <2>4, <2>5, <2>6, <2>7
  <2>9. CreateInv'
    BY <2>3, <2>4, <2>7
  <2>10. WriteIsCurrent' /\ RefreshInv'
    BY <2>5, <2>7
  <2>11. QED
    BY <2>8, <2>9, <2>10
<1>7. CASE SaveFails(p)
  BY <1>7 DEF SaveFails, LeaveSave, AfterError
<1>8. CASE SaveFailsLate(p)
  BY <1>8 DEF SaveFailsLate, LeaveSave, AfterError
<1>9. QED
  BY <1>1, <1>2, <1>3, <1>4, <1>5, <1>6, <1>7, <1>8 DEF SaveStep

LEMMA MutexCopy ==
  ASSUME TypeInv, MutexInv, NEW p \in Process, CopyStep(p)
  PROVE  MutexInv'
<1> USE DEF TypeInv, TypeOK, ShapeInv, MutexInv, LockInv, CreateInv, RefreshInv, WriteIsCurrent,
            LockedPc, Idle, Open, Holds, Goto, Creating
<1>1. ASSUME NEW n \in Name, BackupRead(p, n) \/ RestoreRead(p, n)
      PROVE  MutexInv'
  BY <1>1 DEF BackupRead, RestoreRead
<1>2. CASE BackupWrite(p) \/ BackupFails(p)
  BY <1>2 DEF BackupWrite, BackupFails
<1>3. CASE RestoreLock(p)
  BY <1>3 DEF RestoreLock
<1>4. CASE RestoreWrite(p)
  BY <1>4 DEF RestoreWrite
<1>5. CASE RestoreFails(p)
  BY <1>5 DEF RestoreFails
<1>6. CASE RestoreReturns(p)
  BY <1>6 DEF RestoreReturns
<1>7. QED
  BY <1>1, <1>2, <1>3, <1>4, <1>5, <1>6 DEF CopyStep

LEMMA MutexEnd ==
  ASSUME TypeInv, MutexInv, NEW p \in Process, Drop(p) \/ Crash(p)
  PROVE  MutexInv'
  BY DEF TypeInv, TypeOK, ShapeInv, MutexInv, LockInv, CreateInv, RefreshInv, WriteIsCurrent,
         LockedPc, Idle, Open, Holds, Goto, Creating, Drop, Crash

LEMMA MutexNext == TypeInv /\ MutexInv /\ [ClientNext]_vars => MutexInv'
<1>1. CASE UNCHANGED vars
  BY <1>1 DEF vars, MutexInv, LockInv, CreateInv, RefreshInv, WriteIsCurrent, Open, Holds, Creating
<1>2. QED
  BY <1>1, MutexOpen, MutexEdit, MutexSave, MutexCopy, MutexEnd DEF ClientNext, ClientStep

LEMMA MutexAlways == ClientSpec => [](TypeInv /\ MutexInv)
  BY TypeInit, TypeNext, MutexInit, MutexNext, PTL DEF ClientSpec

\* Exactly the process that is inside a locked method, or whose store owns the
\* lock, holds the flock: every error path of lock_and_refresh and save gives
\* back what it took, and no process works under a lock it lost.
THEOREM LockSafe == Spec => []LockInv
<1>1. MutexInv => LockInv
  BY DEF MutexInv
<1>2. QED
  BY <1>1, MutexAlways, MutatorsAreEdits, PTL

\* From the fingerprint comparison of `save` to its rename the file does not
\* change, whatever the other processes do.
THEOREM WriteSafe == Spec => []WriteIsCurrent
<1>1. MutexInv => WriteIsCurrent
  BY DEF MutexInv
<1>2. QED
  BY <1>1, MutexAlways, MutatorsAreEdits, PTL

-----------------------------------------------------------------------------
(* No lost update: only `save` and a restore write the file, and `save`     *)
(* writes while WriteIsCurrent holds.                                       *)

LEMMA OnlySaveAndRestoreWrite ==
  ASSUME TypeInv, MutexInv, NEW p \in Process, file' # file, ClientStep(p)
  PROVE  \/ /\ pc[p] = "write" /\ Open(p) /\ store[p].fp = file
            /\ file' = Sealed(store[p])
         \/ pc[p] = "replace" /\ file' = arg[p].bytes
<1>1. ~ ClientOpenStep(p)
  BY DEF ClientOpenStep, OpenAtWithPassphrase, load_v2, CreateLock, CreateYields, create_new, MintStore,
         OpenAtWithMnemonic
<1>2. ~ EditStep(p)
  BY DEF EditStep
<1>3. ~ (Drop(p) \/ Crash(p))
  BY DEF Drop, Crash
<1>4. ASSUME SaveStep(p)
      PROVE  pc[p] = "write" /\ file' = Sealed(store[p])
  BY <1>4 DEF SaveStep, lock_and_refresh, RefreshRead, save, SaveCheck, SaveRefused,
         SaveWrite, SaveFails, SaveFailsLate
<1>5. ASSUME CopyStep(p)
      PROVE  pc[p] = "replace" /\ file' = arg[p].bytes
  BY <1>5 DEF CopyStep, BackupRead, BackupWrite, BackupFails, RestoreRead, RestoreLock,
         RestoreWrite, RestoreFails, RestoreReturns
<1>6. pc[p] = "write" => Open(p) /\ store[p].fp = file
  BY DEF TypeInv, ShapeInv, MutexInv, WriteIsCurrent
<1>7. QED
  BY <1>1, <1>2, <1>3, <1>4, <1>5, <1>6 DEF ClientStep

LEMMA ClientsKeepUpdates == ClientSpec => NoLostUpdate
<1> DEFINE Kept == \E p \in Process :
                      \/ pc[p] = "replace" /\ file' = arg[p].bytes
                      \/ Open(p) /\ store[p].fp = file /\ file'.body = store[p].body
<1>1. TypeInv /\ MutexInv /\ [ClientNext]_vars => [file' # file => Kept]_vars
  <2> SUFFICES ASSUME TypeInv, MutexInv, ClientNext, file' # file
               PROVE  Kept
    OBVIOUS
  <2>1. PICK p \in Process : ClientStep(p)
    BY DEF ClientNext
  <2>2. QED
    BY <2>1, OnlySaveAndRestoreWrite DEF Sealed
<1>2. QED
  BY <1>1, MutexAlways, PTL DEF ClientSpec, NoLostUpdate

\* Whatever the processes do, crash or fail at, a write of the vault file is a
\* restore or replaces exactly the version its writer had read: no commit of
\* another process is ever dropped.
THEOREM UpdatesAreKept == Spec => NoLostUpdate
  BY ClientsKeepUpdates, MutatorsAreEdits

-----------------------------------------------------------------------------
(* Keys.  The strengthening of WrapsOpenBody: every open store and every    *)
(* copy on its way is coherent too, and a store has the data key of the     *)
(* version it was read from.                                                *)

KeysInv ==
    /\ WrapsOpenBody
    /\ \A p \in Process :
          pc[p] \in {"snap", "replaceLock", "replace"} => Coherent(arg[p].bytes)
    /\ \A p \in Process : Open(p) =>
          /\ Coherent(store[p])
          /\ store[p].fp # NoFile => store[p].fp.dk = store[p].dk

LEMMA KeysInit == Init => KeysInv
  BY DEF Init, KeysInv, WrapsOpenBody, Coherent, Foreign, Open

LEMMA KeysOpen ==
  ASSUME TypeInv, KeysInv, NEW p \in Process, ClientOpenStep(p)
  PROVE  KeysInv'
<1> USE DEF TypeInv, TypeOK, KeysInv, WrapsOpenBody, Coherent, Open, Goto, Idle
<1>1. ASSUME NEW pass \in Passphrase, OpenAtWithPassphrase(p, pass)
      PROVE  KeysInv'
  BY <1>1 DEF OpenAtWithPassphrase
<1>2. CASE load_v2(p)
  BY <1>2 DEF load_v2, Loaded, Unwraps
<1>3. CASE CreateLock(p)
  BY <1>3 DEF CreateLock
<1>4. CASE CreateYields(p)
  BY <1>4 DEF CreateYields
<1>5. CASE create_new(p)
  BY <1>5 DEF create_new, MintStore
<1>6. ASSUME NEW phrase \in Nat, OpenAtWithMnemonic(p, phrase)
      PROVE  KeysInv'
  BY <1>6 DEF OpenAtWithMnemonic, Loaded
<1>7. QED
  BY <1>1, <1>2, <1>3, <1>4, <1>5, <1>6 DEF ClientOpenStep

LEMMA KeysEdit ==
  ASSUME TypeInv, KeysInv, NEW p \in Process, EditStep(p)
  PROVE  KeysInv'
<1>1. PICK s \in Store :
         /\ s.dk = store[p].dk /\ s.fp = store[p].fp
         /\ s.pass = store[p].pass \/ s.pass.dk = s.dk
         /\ s.rec = store[p].rec \/ s.rec.dk = s.dk
         /\ store' = [store EXCEPT ![p] = s]
  BY DEF EditStep, Edits
<1>2. Open(p) /\ UNCHANGED <<file, snapshot, pc, arg>>
  BY DEF EditStep
<1>3. QED
  BY <1>1, <1>2 DEF TypeInv, TypeOK, KeysInv, WrapsOpenBody, Coherent, Open

LEMMA KeysSealed ==
  ASSUME NEW s, Coherent(s)
  PROVE  Coherent(Sealed(s)) /\ Sealed(s).dk = s.dk
  BY DEF Sealed, Coherent

LEMMA KeysSave ==
  ASSUME TypeInv, MutexInv, KeysInv, NEW p \in Process, SaveStep(p)
  PROVE  KeysInv'
<1> USE DEF TypeInv, TypeOK, ShapeInv, KeysInv, WrapsOpenBody, Open, Goto
<1>1. CASE lock_and_refresh(p)
  <2> DEFINE s == [store[p] EXCEPT !.held = TRUE]
  <2>1. store[p] \in Store
    BY <1>1 DEF lock_and_refresh
  <2>2. /\ s \in Store /\ s.dk = store[p].dk /\ s.fp = store[p].fp
        /\ s.pass = store[p].pass /\ s.rec = store[p].rec
    BY <2>1 DEF Store
  <2>3. /\ store' = [store EXCEPT ![p] = s] /\ Open(p)
        /\ pc' = [pc EXCEPT ![p] = "refresh"] /\ UNCHANGED <<file, snapshot, arg>>
    BY <1>1 DEF lock_and_refresh
  <2> HIDE DEF s
  <2>4. QED
    BY <2>2, <2>3 DEF Coherent
<1>2. CASE RefreshRead(p)
  <2>1. /\ pc' = [pc EXCEPT ![p] = "idle"] /\ UNCHANGED <<file, snapshot, arg>>
    BY <1>2 DEF RefreshRead
  <2>2. CASE CanRefresh(p)
    <3> DEFINE s == [Loaded(file) EXCEPT !.dk = store[p].dk, !.held = TRUE]
    <3>1. /\ s.dk = file.dk /\ s.pass = file.pass /\ s.rec = file.rec /\ s.fp = file
      BY <2>2 DEF Loaded, CanRefresh
    <3>2. store' = [store EXCEPT ![p] = s]
      BY <1>2, <2>2 DEF RefreshRead
    <3> HIDE DEF s
    <3>3. Coherent(file) /\ file.dk = store[p].dk
      BY <2>2 DEF CanRefresh
    <3>4. QED
      BY <2>1, <3>1, <3>2, <3>3 DEF Coherent
  <2>3. CASE ~CanRefresh(p)
    BY <1>2, <2>1, <2>3 DEF RefreshRead
  <2>4. QED
    BY <2>2, <2>3
<1>3. CASE save(p)
  BY <1>3 DEF save
<1>4. CASE SaveCheck(p)
  BY <1>4 DEF SaveCheck
<1>5. CASE SaveRefused(p)
  BY <1>5 DEF SaveRefused, LeaveSave
<1>6. CASE SaveWrite(p)
  <2> DEFINE s == [store[p] EXCEPT !.fp = file', !.held = @ /\ ~Creating(p)]
  <2>1. store[p] \in Store /\ Coherent(store[p]) /\ file' = Sealed(store[p])
    BY <1>6 DEF SaveWrite
  <2>2. /\ s.dk = store[p].dk /\ s.fp = file'
        /\ s.pass = store[p].pass /\ s.rec = store[p].rec
    BY <2>1 DEF Store
  <2>3. /\ store' = [store EXCEPT ![p] = s] /\ pc' = [pc EXCEPT ![p] = "idle"]
        /\ UNCHANGED <<snapshot, arg>>
    BY <1>6 DEF SaveWrite, LeaveSave
  <2> HIDE DEF s
  <2>4. Coherent(file') /\ file'.dk = store[p].dk
    BY <2>1, KeysSealed
  <2>5. WrapsOpenBody'
    BY <2>3, <2>4
  <2>6. Coherent(s) /\ s.fp.dk = s.dk
    BY <2>1, <2>2, <2>4 DEF Coherent
  <2>7. QED
    BY <2>3, <2>5, <2>6
<1>7. CASE SaveFails(p)
  BY <1>7 DEF SaveFails, AfterError, LeaveSave
<1>8. CASE SaveFailsLate(p)
  <2>1. Coherent(file')
    BY <1>8, KeysSealed DEF SaveFailsLate
  <2>2. /\ \A q \in Process : Open(q)' => store'[q] = store[q] /\ Open(q)
        /\ pc' = [pc EXCEPT ![p] = "idle"] /\ UNCHANGED <<snapshot, arg>>
    BY <1>8 DEF SaveFailsLate, AfterError, LeaveSave
  <2>3. WrapsOpenBody'
    BY <2>1, <2>2
  <2>4. QED
    BY <2>2, <2>3
<1>9. QED
  BY <1>1, <1>2, <1>3, <1>4, <1>5, <1>6, <1>7, <1>8 DEF SaveStep

LEMMA KeysCopy ==
  ASSUME TypeInv, KeysInv, NEW p \in Process, CopyStep(p)
  PROVE  KeysInv'
<1> USE DEF TypeInv, TypeOK, ShapeInv, KeysInv, WrapsOpenBody, Open, Goto, Idle
<1>1. ASSUME NEW n \in Name, BackupRead(p, n) \/ RestoreRead(p, n)
      PROVE  KeysInv'
  BY <1>1 DEF BackupRead, RestoreRead
<1>2. CASE BackupWrite(p) \/ BackupFails(p)
  <2>1. /\ Coherent(arg[p].bytes) /\ snapshot' \in {snapshot, WithCopy(p)}
        /\ pc' = [pc EXCEPT ![p] = "idle"] /\ arg' = [arg EXCEPT ![p] = NoArg]
        /\ UNCHANGED <<file, store>>
    BY <1>2 DEF BackupWrite, BackupFails
  <2>2. WrapsOpenBody'
    BY <2>1 DEF WithCopy
  <2>3. QED
    BY <2>1, <2>2
<1>3. CASE RestoreLock(p) \/ RestoreReturns(p)
  BY <1>3 DEF RestoreLock, RestoreReturns
<1>4. CASE RestoreWrite(p) \/ RestoreFails(p)
  <2>1. file' \in {file, arg[p].bytes} /\ Coherent(arg[p].bytes)
    BY <1>4 DEF RestoreWrite, RestoreFails
  <2>2. UNCHANGED <<snapshot, store>>
        /\ \E l \in {"idle", "notify"} : pc' = [pc EXCEPT ![p] = l]
        /\ arg' = [arg EXCEPT ![p] = NoArg]
    BY <1>4 DEF RestoreWrite, RestoreFails
  <2>3. QED
    BY <2>1, <2>2
<1>5. QED
  BY <1>1, <1>2, <1>3, <1>4 DEF CopyStep

LEMMA KeysEnd ==
  ASSUME TypeInv, KeysInv, NEW p \in Process, Drop(p) \/ Crash(p)
  PROVE  KeysInv'
  BY DEF TypeInv, TypeOK, KeysInv, WrapsOpenBody, Open, Goto, Idle, Drop, Crash

LEMMA KeysNext == TypeInv /\ MutexInv /\ KeysInv /\ [ClientNext]_vars => KeysInv'
<1>1. CASE UNCHANGED vars
  BY <1>1 DEF vars, KeysInv, WrapsOpenBody, Open
<1>2. QED
  BY <1>1, KeysOpen, KeysEdit, KeysSave, KeysCopy, KeysEnd DEF ClientNext, ClientStep

LEMMA KeysAlways == ClientSpec => []KeysInv
  BY KeysInit, KeysNext, MutexAlways, PTL DEF ClientSpec

\* The vault file and every snapshot open with the passphrase, and the recovery
\* phrase if there is one, that they carry: no interleaving of rewraps,
\* refreshes, saves and restores pairs a body with wraps of another data key.
THEOREM CredentialsOpen == Spec => []WrapsOpenBody
<1>1. KeysInv => WrapsOpenBody
  BY DEF KeysInv
<1>2. QED
  BY <1>1, KeysAlways, MutatorsAreEdits, PTL

LEMMA ClientsKeepTheDataKey == ClientSpec => DataKeyIsStable
<1> DEFINE Stable == \/ file'.dk = file.dk
                     \/ \E p \in Process : pc[p] = "replace"
<1>1. TypeInv /\ MutexInv /\ KeysInv /\ [ClientNext]_vars
         => [file # NoFile /\ file' # file => Stable]_vars
  <2> SUFFICES ASSUME TypeInv, MutexInv, KeysInv, ClientNext, file # NoFile, file' # file
               PROVE  Stable
    OBVIOUS
  <2>1. PICK p \in Process : ClientStep(p)
    BY DEF ClientNext
  <2>2. CASE pc[p] = "write" /\ Open(p) /\ store[p].fp = file /\ file' = Sealed(store[p])
    BY <2>2 DEF KeysInv, Sealed
  <2>3. CASE pc[p] = "replace"
    BY <2>3
  <2>4. QED
    BY <2>1, <2>2, <2>3, OnlySaveAndRestoreWrite
<1>2. QED
  BY <1>1, KeysAlways, MutexAlways, PTL DEF ClientSpec, DataKeyIsStable

\* An existing vault keeps its data key until somebody restores a snapshot over
\* it: the second of two creators, and a store of a replaced vault, write nothing.
THEOREM DataKeyIsKept == Spec => DataKeyIsStable
  BY ClientsKeepTheDataKey, MutatorsAreEdits

-----------------------------------------------------------------------------
(* VaultStore implements AtomicVault, step by step: the register is the    *)
(* file without its nonce, a transaction an open store, the base of a      *)
(* transaction the fingerprint of the store.  What has to be shown is that *)
(* lock, fingerprint and fresh nonces make each save a commit over the     *)
(* version the store was read from, and every other step a read, an edit,  *)
(* a copy, an end or nothing at all.                                       *)
(*                                                                         *)
(* The abstract state, as functions of the concrete one.                   *)

CurOf(s) == [dk |-> s.dk, pass |-> s.pass, rec |-> s.rec, body |-> s.body]

TxnOf(s) == IF s = Closed THEN Closed ELSE [base |-> Version(s.fp), cur |-> CurOf(s)]

Txns(st) == [p \in Process |-> TxnOf(st[p])]

CopiesIn(a, sn) ==
    {Version(c) : c \in {a[p].bytes : p \in {q \in Process : a[q] \in CopyOf}}
                            \cup {sn[n] : n \in Name}} \ {NoFile}


LEMMA MappedVars ==
  Atomic!vars = <<Version(file), CopiesIn(arg, snapshot), Txns(store)>>
  BY DEF Atomic!vars, Carried, CopiesIn, Txns, TxnOf, CurOf

LEMMA InitRefines == Init => Atomic!Init
  BY DEF Init, Atomic!Init, Version

\* Nothing of the register, its copies or its transactions changes.
LEMMA Stutters ==
  ASSUME UNCHANGED <<Version(file), CopiesIn(arg, snapshot), Txns(store)>>
  PROVE  UNCHANGED Atomic!vars
  BY MappedVars DEF Atomic!vars, Carried, CopiesIn, Txns, TxnOf, CurOf

-----------------------------------------------------------------------------
(* The three parts of the mapping, one at a time.                          *)

LEMMA VersionType ==
  ASSUME NEW c \in Contents
  PROVE  Version(c) \in Versions /\ Version(c) # NoFile
  BY DEF Version, Contents, Versions

LEMMA TxnType ==
  ASSUME NEW s \in Store
  PROVE  TxnOf(s) # Closed /\ s # Closed /\ CurOf(s) \in Versions /\ CurOf(s) # NoFile
<1>1. CurOf(s) \in Versions
  BY DEF CurOf, Store, Versions
<1>2. Version(s.fp) \in Versions \cup {NoFile}
  BY VersionType DEF Store, Version
<1>3. QED
  BY <1>1, <1>2 DEF TxnOf

LEMMA TxnUpdate ==
  ASSUME TypeOK, NEW p \in Process, NEW s, store' = [store EXCEPT ![p] = s]
  PROVE  Txns(store)' = [Txns(store) EXCEPT ![p] = TxnOf(s)]
  BY DEF Txns, TypeOK

LEMMA CopiesMember ==
  /\ \A x : x \in CopiesIn(arg, snapshot) <=>
        /\ x # NoFile
        /\ \/ \E q \in Process : arg[q] \in CopyOf /\ x = Version(arg[q].bytes)
           \/ \E n \in Name : x = Version(snapshot[n])
  /\ \A x : x \in CopiesIn(arg, snapshot)' <=>
        /\ x # NoFile
        /\ \/ \E q \in Process : arg'[q] \in CopyOf /\ x = Version(arg'[q].bytes)
           \/ \E n \in Name : x = Version(snapshot'[n])
  BY DEF CopiesIn, Version

\* A method that carries no snapshot takes its argument and forgets it again.
LEMMA CopiesStay ==
  ASSUME TypeOK, NEW p \in Process, NEW x, x \notin CopyOf, arg[p] \notin CopyOf,
         arg' = [arg EXCEPT ![p] = x], snapshot' = snapshot
  PROVE  CopiesIn(arg, snapshot)' = CopiesIn(arg, snapshot)
<1>1. \A q \in Process : arg'[q] \in CopyOf <=> arg[q] \in CopyOf
  BY DEF TypeOK
<1>2. \A q \in Process : arg[q] \in CopyOf => arg'[q] = arg[q]
  BY DEF TypeOK
<1>3. \A y : y \in CopiesIn(arg, snapshot)' => y \in CopiesIn(arg, snapshot)
  BY <1>1, <1>2, CopiesMember
<1>4. ASSUME NEW y \in CopiesIn(arg, snapshot)
      PROVE  y \in CopiesIn(arg, snapshot)'
  <2>1. CASE \E q \in Process : arg[q] \in CopyOf /\ y = Version(arg[q].bytes)
    <3>1. PICK q \in Process : arg[q] \in CopyOf /\ y = Version(arg[q].bytes)
      BY <2>1
    <3>2. arg'[q] \in CopyOf /\ y = Version(arg'[q].bytes)
      BY <1>1, <1>2, <3>1
    <3>3. QED
      BY <1>4, <3>2, CopiesMember
  <2>2. CASE \E n \in Name : y = Version(snapshot[n])
    BY <1>4, <2>2, CopiesMember
  <2>3. QED
    BY <1>4, <2>1, <2>2, CopiesMember
<1>5. QED
  BY <1>3, <1>4

\* A method forgets the snapshot it carried; p takes the bytes of the file, or
\* of a snapshot, along.
LEMMA CopiesShrink ==
  ASSUME TypeOK, NEW p \in Process, arg' = [arg EXCEPT ![p] = NoArg], snapshot' = snapshot
  PROVE  CopiesIn(arg, snapshot)' \subseteq CopiesIn(arg, snapshot)
<1>1. \A q \in Process : arg'[q] \in CopyOf => arg[q] \in CopyOf /\ arg'[q] = arg[q]
  BY DEF TypeOK
<1>2. \A y : y \in CopiesIn(arg, snapshot)' => y \in CopiesIn(arg, snapshot)
  BY <1>1, CopiesMember
<1>3. QED
  BY <1>2

LEMMA CopiesTaken ==
  ASSUME TypeOK, NEW p \in Process, NEW n \in Name, NEW c \in Contents,
         arg' = [arg EXCEPT ![p] = [name |-> n, bytes |-> c]], snapshot' = snapshot
  PROVE  CopiesIn(arg, snapshot)' \subseteq CopiesIn(arg, snapshot) \cup {Version(c)}
<1>1. \A q \in Process : arg'[q] \in CopyOf =>
         (arg[q] \in CopyOf /\ arg'[q] = arg[q]) \/ arg'[q].bytes = c
  BY DEF TypeOK
<1>2. \A y : y \in CopiesIn(arg, snapshot)' => y \in CopiesIn(arg, snapshot) \/ y = Version(c)
  BY <1>1, CopiesMember
<1>3. QED
  BY <1>2

LEMMA CopiesMoved ==
  ASSUME TypeOK, NEW p \in Process, arg[p] \in CopyOf,
         arg' = [arg EXCEPT ![p] = NoArg], snapshot' \in {snapshot, WithCopy(p)}
  PROVE  CopiesIn(arg, snapshot)' \subseteq CopiesIn(arg, snapshot)
<1>1. \A q \in Process : arg'[q] \in CopyOf => arg[q] \in CopyOf /\ arg'[q] = arg[q]
  BY DEF TypeOK
<1>2. \A n \in Name : snapshot'[n] \in {snapshot[n], arg[p].bytes}
  BY DEF TypeOK, WithCopy
<1>3. \A y : y \in CopiesIn(arg, snapshot)' => y \in CopiesIn(arg, snapshot)
  BY <1>1, <1>2, CopiesMember
<1>4. QED
  BY <1>3

-----------------------------------------------------------------------------
(* One lemma per group of steps.                                           *)

LEMMA Reads ==
  ASSUME TypeOK, NEW p \in Process, NEW s, file # NoFile,
         store' = [store EXCEPT ![p] = s], s # Closed, s.fp = file, CurOf(s) = Version(file),
         file' = file, CopiesIn(arg, snapshot)' = CopiesIn(arg, snapshot)
  PROVE  Atomic!Read(p)
<1>1. Txns(store)' = [Txns(store) EXCEPT ![p] = [base |-> Version(file), cur |-> Version(file)]]
  BY TxnUpdate DEF TxnOf
<1>2. Version(file) # NoFile
  BY VersionType DEF TypeOK
<1>3. QED
  BY <1>1, <1>2 DEF Atomic!Read, Carried, CopiesIn, Txns, TxnOf, CurOf

LEMMA Ends ==
  ASSUME TypeOK, NEW p \in Process, store' = [store EXCEPT ![p] = Closed], file' = file,
         CopiesIn(arg, snapshot)' \subseteq CopiesIn(arg, snapshot)
  PROVE  Atomic!Die(p)
<1>1. Txns(store)' = [Txns(store) EXCEPT ![p] = Closed]
  BY TxnUpdate DEF TxnOf
<1>2. QED
  BY <1>1 DEF Atomic!Die, Carried, CopiesIn, Txns, TxnOf, CurOf

LEMMA OpenRefines ==
  ASSUME TypeInv, NEW p \in Process, ClientOpenStep(p)
  PROVE  Atomic!Next \/ UNCHANGED Atomic!vars
<1> USE DEF TypeInv
<1>1. ASSUME NEW pass \in Passphrase, OpenAtWithPassphrase(p, pass)
      PROVE  UNCHANGED Atomic!vars
  <2>1. /\ arg[p] = NoArg /\ arg' = [arg EXCEPT ![p] = pass]
        /\ UNCHANGED <<file, snapshot, store>>
    BY <1>1 DEF OpenAtWithPassphrase, Idle, ShapeInv
  <2>2. CopiesIn(arg, snapshot)' = CopiesIn(arg, snapshot)
    BY <2>1, CopiesStay
  <2>3. QED
    BY <2>1, <2>2, Stutters DEF Version, Txns
<1>2. CASE load_v2(p)
  <2>1. arg[p] \in Passphrase /\ ~Open(p)
    BY <1>2 DEF load_v2, ShapeInv
  <2>2. arg' = [arg EXCEPT ![p] = NoArg] /\ UNCHANGED <<file, snapshot>>
    BY <1>2 DEF load_v2
  <2>3. CopiesIn(arg, snapshot)' = CopiesIn(arg, snapshot)
    BY <2>1, <2>2, CopiesStay
  <2>4. CASE file # NoFile /\ Unwraps(file.pass, arg[p], file)
    <3>1. store' = [store EXCEPT ![p] = Loaded(file)] /\ file \in Contents
      BY <1>2, <2>4 DEF load_v2, TypeOK
    <3>2. Loaded(file) # Closed /\ Loaded(file).fp = file /\ CurOf(Loaded(file)) = Version(file)
      BY <2>4, <3>1, LoadedType DEF Loaded, CurOf, Version
    <3>3. QED
      BY <2>2, <2>3, <2>4, <3>1, <3>2, Reads DEF Atomic!Next
  <2>5. CASE ~(file # NoFile /\ Unwraps(file.pass, arg[p], file))
    <3>1. store' = store
      BY <1>2, <2>1, <2>5 DEF load_v2, Open, TypeOK
    <3>2. QED
      BY <2>2, <2>3, <3>1, Stutters DEF Version, Txns
  <2>6. QED
    BY <2>4, <2>5
<1>3. CASE CreateLock(p) \/ CreateYields(p)
  BY <1>3, Stutters DEF CreateLock, CreateYields, Version, Txns, CopiesIn
<1>4. CASE create_new(p)
  <2> DEFINE s == [dk   |-> fresh,
                   pass |-> [cred |-> arg[p], salt |-> fresh, dk |-> fresh],
                   rec  |-> NoWrap, body |-> EmptyBody,
                   fp   |-> NoFile, held |-> TRUE]
  <2>1. arg[p] \in Passphrase /\ ~Open(p)
    BY <1>4 DEF create_new, ShapeInv
  <2>2. file = NoFile /\ arg' = [arg EXCEPT ![p] = NoArg] /\ UNCHANGED <<file, snapshot>>
    BY <1>4 DEF create_new, MintStore
  <2>3. store' = [store EXCEPT ![p] = s]
    BY <1>4 DEF create_new, MintStore
  <2>4. [cred |-> arg[p], salt |-> fresh, dk |-> fresh] \in Wrap /\ s.fp = NoFile
    BY <2>1 DEF Wrap, TypeOK
  <2>5. s \in Store
    BY <2>4, EmptyBodyType DEF Store, TypeOK
  <2> HIDE DEF s
  <2>6. CopiesIn(arg, snapshot)' = CopiesIn(arg, snapshot)
    BY <2>1, <2>2, CopiesStay
  <2>7. /\ Txns(store)' = [Txns(store) EXCEPT ![p] = TxnOf(s)]
        /\ TxnOf(s) # Closed /\ TxnOf(s).base = NoFile
    BY <2>3, <2>4, <2>5, TxnUpdate, TxnType DEF TxnOf, Version
  <2>8. Txns(store)[p] = Closed /\ Txns(store)'[p] = TxnOf(s)
    BY <2>1, <2>7 DEF Txns, TxnOf, Open
  <2>9. Txns(store)' = [Txns(store) EXCEPT ![p] = Txns(store)'[p]]
    BY <2>7, <2>8
  <2>10. Version(file) = NoFile /\ Version(file)' = NoFile
    BY <2>2 DEF Version
  <2>11. Atomic!Mint(p)
    BY <2>6, <2>7, <2>8, <2>9, <2>10 DEF Atomic!Mint, Carried, CopiesIn, Txns, TxnOf, CurOf
  <2>12. QED
    BY <2>11 DEF Atomic!Next
<1>5. ASSUME NEW phrase \in Nat, OpenAtWithMnemonic(p, phrase)
      PROVE  Atomic!Next
  <2>1. /\ store' = [store EXCEPT ![p] = Loaded(file)] /\ file # NoFile
        /\ file \in Contents /\ UNCHANGED <<file, snapshot, arg>>
    BY <1>5 DEF OpenAtWithMnemonic, TypeOK
  <2>2. Loaded(file) # Closed /\ Loaded(file).fp = file /\ CurOf(Loaded(file)) = Version(file)
    BY <2>1, LoadedType DEF Loaded, CurOf, Version
  <2>3. CopiesIn(arg, snapshot)' = CopiesIn(arg, snapshot)
    BY <2>1 DEF CopiesIn
  <2>4. QED
    BY <2>1, <2>2, <2>3, Reads DEF Atomic!Next
<1>6. QED
  BY <1>1, <1>2, <1>3, <1>4, <1>5 DEF ClientOpenStep

LEMMA EditRefines ==
  ASSUME TypeInv, NEW p \in Process, EditStep(p)
  PROVE  Atomic!Next
<1>1. PICK s \in Store : s.dk = store[p].dk /\ s.fp = store[p].fp
                         /\ store' = [store EXCEPT ![p] = s]
  BY DEF EditStep, Edits
<1>2. Open(p) /\ store[p] \in Store /\ UNCHANGED <<file, snapshot, arg>>
  BY DEF EditStep, TypeInv, TypeOK, Open
<1>3. /\ Txns(store)' = [Txns(store) EXCEPT ![p] = TxnOf(s)]
      /\ TxnOf(s) # Closed /\ TxnOf(s).base = Version(s.fp) /\ TxnOf(s).cur.dk = s.dk
  BY <1>1, TxnUpdate, TxnType DEF TypeInv, TxnOf, CurOf
<1>4. /\ Txns(store)[p] # Closed /\ Txns(store)[p].base = Version(s.fp)
      /\ Txns(store)[p].cur.dk = s.dk
  BY <1>1, <1>2, TxnType DEF Txns, TxnOf, CurOf
<1>5. Txns(store)'[p] = TxnOf(s)
  BY <1>3 DEF Txns
<1>6. Txns(store)' = [Txns(store) EXCEPT ![p] = Txns(store)'[p]]
  BY <1>3, <1>5
<1>7. Version(file)' = Version(file) /\ CopiesIn(arg, snapshot)' = CopiesIn(arg, snapshot)
  BY <1>2 DEF Version, CopiesIn
<1>8. Atomic!Edit(p)
  BY <1>3, <1>4, <1>5, <1>6, <1>7 DEF Atomic!Edit, Carried, CopiesIn, Txns, TxnOf, CurOf
<1>9. QED
  BY <1>8 DEF Atomic!Next

\* A step in memory only, which changes neither the contents nor the base of a
\* store; and the failure that drops a store that was minting the vault.
LEMMA StaysOrEnds ==
  ASSUME TypeOK, NEW p \in Process, UNCHANGED <<file, snapshot, arg>>,
         store' \in {store, [store EXCEPT ![p] = Closed]}
  PROVE  Atomic!Next \/ UNCHANGED Atomic!vars
<1>1. CopiesIn(arg, snapshot)' = CopiesIn(arg, snapshot) /\ Version(file)' = Version(file)
  BY DEF CopiesIn, Version
<1>2. CASE store' = store
  BY <1>1, <1>2, Stutters DEF Txns
<1>3. CASE store' = [store EXCEPT ![p] = Closed]
  BY <1>1, <1>3, Ends DEF Atomic!Next
<1>4. QED
  BY <1>2, <1>3

LEMMA SealedVersion ==
  ASSUME NEW s \in Store, fresh \in Nat
  PROVE  Version(Sealed(s)) = CurOf(s)
<1>1. Sealed(s) # NoFile
  BY SealedType
<1>2. QED
  BY <1>1 DEF Version, Sealed, CurOf

LEMMA SaveRefines ==
  ASSUME TypeInv, MutexInv, NEW p \in Process, SaveStep(p)
  PROVE  Atomic!Next \/ UNCHANGED Atomic!vars
<1>1. CASE lock_and_refresh(p)
  <2> DEFINE s == [store[p] EXCEPT !.held = TRUE]
  <2>1. store[p] \in Store /\ UNCHANGED <<file, snapshot, arg>>
    BY <1>1 DEF lock_and_refresh, TypeInv, TypeOK, Open
  <2>2. s \in Store /\ s.fp = store[p].fp /\ CurOf(s) = CurOf(store[p])
    BY <2>1 DEF Store, CurOf
  <2>3. store' = [store EXCEPT ![p] = s]
    BY <1>1 DEF lock_and_refresh
  <2> HIDE DEF s
  <2>4. TxnOf(s) = TxnOf(store[p])
    BY <2>1, <2>2, TxnType DEF TxnOf
  <2>5. Txns(store)' = Txns(store)
    BY <2>3, <2>4, TxnUpdate DEF TypeInv, Txns
  <2>6. QED
    BY <2>1, <2>5, Stutters DEF Version, CopiesIn
<1>2. CASE RefreshRead(p)
  <2>1. UNCHANGED <<file, snapshot, arg>>
    BY <1>2 DEF RefreshRead
  <2>2. CASE CanRefresh(p)
    <3> DEFINE s == [Loaded(file) EXCEPT !.dk = store[p].dk, !.held = TRUE]
    <3>1. file \in Contents /\ file # NoFile /\ file.dk = store[p].dk
      BY <2>2 DEF CanRefresh, TypeInv, TypeOK
    <3>2. s \in Store /\ s.fp = file /\ CurOf(s) = Version(file)
      <4>1. Loaded(file) \in Store /\ Loaded(file).dk = store[p].dk
        BY <3>1, LoadedType DEF Loaded
      <4>2. QED
        BY <3>1, <4>1 DEF Store, Loaded, CurOf, Version
    <3>3. store' = [store EXCEPT ![p] = s]
      BY <1>2, <2>2 DEF RefreshRead
    <3> HIDE DEF s
    <3>4. CopiesIn(arg, snapshot)' = CopiesIn(arg, snapshot)
      BY <2>1 DEF CopiesIn
    <3>5. QED
      BY <2>1, <3>1, <3>2, <3>3, <3>4, TxnType, Reads DEF TypeInv, Atomic!Next
  <2>3. CASE ~CanRefresh(p)
    BY <1>2, <2>1, <2>3, StaysOrEnds DEF RefreshRead, TypeInv
  <2>4. QED
    BY <2>2, <2>3
<1>3. CASE save(p) \/ SaveCheck(p) \/ SaveRefused(p)
  BY <1>3, StaysOrEnds DEF save, SaveCheck, SaveRefused, TypeInv
<1>4. CASE SaveFails(p)
  BY <1>4, StaysOrEnds DEF SaveFails, AfterError, TypeInv
<1>5. ASSUME pc[p] = "write"
      PROVE  /\ store[p] \in Store /\ store[p].fp = file /\ fresh \in Nat
             /\ Txns(store)[p] # Closed /\ Txns(store)[p].base = Version(file)
             /\ Txns(store)[p] = [base |-> Version(file), cur |-> CurOf(store[p])]
  <2>1. store[p] \in Store /\ store[p].fp = file /\ fresh \in Nat
    BY <1>5 DEF TypeInv, TypeOK, ShapeInv, Open, MutexInv, WriteIsCurrent
  <2>2. QED
    BY <2>1, TxnType DEF Txns, TxnOf
<1>6. CASE SaveWrite(p)
  <2> DEFINE s == [store[p] EXCEPT !.fp = file', !.held = @ /\ ~Creating(p)]
  <2>1. pc[p] = "write" /\ file' = Sealed(store[p]) /\ UNCHANGED <<snapshot, arg>>
    BY <1>6 DEF SaveWrite
  <2>2. store[p] \in Store /\ file' \in Contents /\ Version(file)' = CurOf(store[p])
    BY <1>5, <2>1, SealedType, SealedVersion DEF Version
  <2>3. (store[p].held /\ ~Creating(p)) \in BOOLEAN
    BY DEF Creating
  <2>4. s \in Store /\ s.fp = file' /\ CurOf(s) = CurOf(store[p])
    BY <2>2, <2>3 DEF Store, CurOf
  <2>5. store' = [store EXCEPT ![p] = s]
    BY <1>6 DEF SaveWrite
  <2> HIDE DEF s
  <2>6. TxnOf(s) = [base |-> CurOf(store[p]), cur |-> CurOf(store[p])]
    BY <2>2, <2>4, TxnType DEF TxnOf, Version
  <2>7. Txns(store)' = [Txns(store) EXCEPT ![p].base = CurOf(store[p])]
    <3>1. Txns(store)' = [Txns(store) EXCEPT ![p] = TxnOf(s)]
      BY <2>5, TxnUpdate DEF TypeInv
    <3>2. [Txns(store)[p] EXCEPT !.base = CurOf(store[p])] = TxnOf(s)
      BY <1>5, <2>1, <2>6
    <3>3. QED
      BY <3>1, <3>2
  <2>8. CopiesIn(arg, snapshot)' = CopiesIn(arg, snapshot)
    BY <2>1 DEF CopiesIn
  <2>9. /\ Txns(store)[p] # Closed /\ Txns(store)[p].base = Version(file)
        /\ Version(file)' = Txns(store)[p].cur
        /\ Txns(store)' = [Txns(store) EXCEPT ![p].base = Txns(store)[p].cur]
    <3>1. Txns(store)[p] # Closed /\ Txns(store)[p].base = Version(file)
      BY <1>5, <2>1
    <3>2. Txns(store)[p].cur = CurOf(store[p])
      BY <1>5, <2>1
    <3>3. QED
      BY <2>2, <2>7, <3>1, <3>2
  <2>10. Atomic!Commit(p)
    BY <2>8, <2>9 DEF Atomic!Commit, Carried, CopiesIn, Txns, TxnOf, CurOf
  <2>11. QED
    BY <2>10 DEF Atomic!Next
<1>7. CASE SaveFailsLate(p)
  <2>1. /\ pc[p] = "write" /\ file' = Sealed(store[p]) /\ UNCHANGED <<snapshot, arg>>
        /\ store' \in {store, [store EXCEPT ![p] = Closed]}
    BY <1>7 DEF SaveFailsLate, AfterError
  <2>2. Version(file)' = Txns(store)[p].cur
    BY <1>5, <2>1, SealedType, SealedVersion DEF Version
  <2>3. CopiesIn(arg, snapshot)' = CopiesIn(arg, snapshot)
    BY <2>1 DEF CopiesIn
  <2>4. Txns(store)' \in {Txns(store), [Txns(store) EXCEPT ![p] = Closed]}
    <3>1. CASE store' = store
      BY <3>1 DEF Txns
    <3>2. CASE store' = [store EXCEPT ![p] = Closed]
      BY <3>2, TxnUpdate DEF TypeInv, TxnOf
    <3>3. QED
      BY <2>1, <3>1, <3>2
  <2>5. Txns(store)[p] # Closed /\ Txns(store)[p].base = Version(file)
    BY <1>5, <2>1
  <2>6. Atomic!CommitUnacknowledged(p)
    BY <2>2, <2>3, <2>4, <2>5
       DEF Atomic!CommitUnacknowledged, Carried, CopiesIn, Txns, TxnOf, CurOf
  <2>7. QED
    BY <2>6 DEF Atomic!Next
<1>8. QED
  BY <1>1, <1>2, <1>3, <1>4, <1>6, <1>7 DEF SaveStep

LEMMA CopyRefines ==
  ASSUME TypeInv, NEW p \in Process, CopyStep(p)
  PROVE  Atomic!Next \/ UNCHANGED Atomic!vars
<1> USE DEF TypeInv
<1>1. ASSUME CopiesIn(arg, snapshot)' \subseteq
                CopiesIn(arg, snapshot) \cup ({Version(file)} \ {NoFile}),
             UNCHANGED <<file, store>>
      PROVE  Atomic!Next
  <2>1. Atomic!Keep
    BY <1>1 DEF Atomic!Keep, Carried, CopiesIn, Txns, TxnOf, CurOf, Version
  <2>2. QED
    BY <2>1 DEF Atomic!Next
<1>2. ASSUME NEW n \in Name, BackupRead(p, n)
      PROVE  Atomic!Next
  <2>1. /\ file \in Contents /\ arg' = [arg EXCEPT ![p] = [name |-> n, bytes |-> file]]
        /\ UNCHANGED <<file, snapshot, store>>
    BY <1>2 DEF BackupRead, TypeOK
  <2>2. CopiesIn(arg, snapshot)' \subseteq CopiesIn(arg, snapshot) \cup {Version(file)}
    BY <2>1, CopiesTaken
  <2>3. Version(file) # NoFile
    BY <2>1, VersionType
  <2>4. QED
    BY <1>1, <2>1, <2>2, <2>3
<1>3. ASSUME NEW n \in Name, RestoreRead(p, n)
      PROVE  Atomic!Next
  <2>1. /\ snapshot[n] \in Contents
        /\ arg' = [arg EXCEPT ![p] = [name |-> n, bytes |-> snapshot[n]]]
        /\ UNCHANGED <<file, snapshot, store>>
    BY <1>3 DEF RestoreRead, TypeOK
  <2>2. CopiesIn(arg, snapshot)' \subseteq CopiesIn(arg, snapshot) \cup {Version(snapshot[n])}
    BY <2>1, CopiesTaken
  <2>3. Version(snapshot[n]) \in CopiesIn(arg, snapshot)
    BY <2>1, VersionType, CopiesMember
  <2>4. QED
    BY <1>1, <2>1, <2>2, <2>3
<1>4. CASE BackupWrite(p) \/ BackupFails(p)
  <2>1. /\ arg[p] \in CopyOf /\ arg' = [arg EXCEPT ![p] = NoArg]
        /\ snapshot' \in {snapshot, WithCopy(p)} /\ UNCHANGED <<file, store>>
    BY <1>4 DEF BackupWrite, BackupFails, ShapeInv
  <2>2. CopiesIn(arg, snapshot)' \subseteq CopiesIn(arg, snapshot)
    BY <2>1, CopiesMoved
  <2>3. QED
    BY <1>1, <2>1, <2>2
<1>5. CASE RestoreLock(p) \/ RestoreReturns(p)
  BY <1>5, Stutters DEF RestoreLock, RestoreReturns, Version, Txns, CopiesIn
<1>6. CASE RestoreWrite(p) \/ RestoreFails(p)
  <2>1. /\ arg[p] \in CopyOf /\ arg' = [arg EXCEPT ![p] = NoArg]
        /\ file' \in {file, arg[p].bytes} /\ UNCHANGED <<snapshot, store>>
    BY <1>6 DEF RestoreWrite, RestoreFails, ShapeInv
  <2>2. CopiesIn(arg, snapshot)' \subseteq CopiesIn(arg, snapshot)
    BY <2>1, CopiesShrink
  <2>3. CASE file' = file
    BY <1>1, <2>1, <2>2, <2>3
  <2>4. CASE file' = arg[p].bytes
    <3>1. arg[p].bytes \in Contents
      BY <2>1 DEF CopyOf
    <3>2. Version(file)' \in CopiesIn(arg, snapshot)
      BY <2>1, <2>4, <3>1, VersionType, CopiesMember DEF Version
    <3>3. Atomic!Restore
      BY <2>1, <2>2, <3>2 DEF Atomic!Restore, Carried, CopiesIn, Txns, TxnOf, CurOf
    <3>4. QED
      BY <3>3 DEF Atomic!Next
  <2>5. QED
    BY <2>1, <2>3, <2>4
<1>7. QED
  BY <1>2, <1>3, <1>4, <1>5, <1>6 DEF CopyStep

LEMMA EndRefines ==
  ASSUME TypeInv, NEW p \in Process, Drop(p) \/ Crash(p)
  PROVE  Atomic!Next
<1>1. /\ store' = [store EXCEPT ![p] = Closed] /\ UNCHANGED <<file, snapshot>>
      /\ arg' = arg \/ arg' = [arg EXCEPT ![p] = NoArg]
  BY DEF Drop, Crash
<1>2. CopiesIn(arg, snapshot)' \subseteq CopiesIn(arg, snapshot)
  <2>1. CASE arg' = arg
    BY <1>1, <2>1 DEF CopiesIn
  <2>2. CASE arg' = [arg EXCEPT ![p] = NoArg]
    BY <1>1, <2>2, CopiesShrink DEF TypeInv
  <2>3. QED
    BY <1>1, <2>1, <2>2
<1>3. QED
  BY <1>1, <1>2, Ends DEF TypeInv, Atomic!Next

-----------------------------------------------------------------------------

LEMMA StepRefines ==
  TypeInv /\ MutexInv /\ [ClientNext]_vars => [Atomic!Next]_(Atomic!vars)
<1>1. ASSUME TypeInv, MutexInv, NEW p \in Process, ClientStep(p)
      PROVE  Atomic!Next \/ UNCHANGED Atomic!vars
  BY <1>1, OpenRefines, EditRefines, SaveRefines, CopyRefines, EndRefines DEF ClientStep
<1>2. UNCHANGED vars => UNCHANGED Atomic!vars
  BY Stutters DEF vars, Version, Txns, CopiesIn
<1>3. QED
  BY <1>1, <1>2 DEF ClientNext

LEMMA ClientsImplement == ClientSpec => Implements
  BY InitRefines, StepRefines, MutexAlways, PTL DEF ClientSpec, Implements, Atomic!Spec

\* Whatever the processes do, with the lock, the fingerprints, failing disks,
\* crashes, backups and restores, they see one atomic register: a save takes
\* effect at once and only over the version its store was read from, and a data
\* key changes with a restore only.
THEOREM StoreImplementsAtomicVault == Spec => Implements
  BY ClientsImplement, MutatorsAreEdits
=============================================================================
