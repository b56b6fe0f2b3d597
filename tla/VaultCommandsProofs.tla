-------------------------- MODULE VaultCommandsProofs --------------------------
(***************************************************************************)
(* Theorems about VaultCommands, for every menu, every number of processes *)
(* and of commands they run, and every key, value and credential.          *)
(***************************************************************************)
EXTENDS VaultCommands, VaultStoreProofs

USE NoEntryAssumption, StoreAssumption, CommandsAssumption

-----------------------------------------------------------------------------
(* Where the calls stand in the programs.                                  *)

\* A call of the program before place i.
Earlier(P, label, i) == \E j \in 1 .. i - 1 : P[j] = label

\* The commands that refresh their store under the lock, edit it and save it.
LockedOps == BodyOps \cup {"change-passphrase", "new-recovery-key", "recover", "receive"}

\* What the proofs need to know of a program: which command makes which call, that
\* the edit comes right before the save, and what was done by the end.
ProgramOf(op, P) ==
    /\ Len(P) \in Nat \ {0} /\ P[Len(P)] = "done"
    /\ \A i \in 1 .. Len(P) :
          /\ P[i] \in {"probe", "replace"} => op = "restore"
          /\ P[i] = "seal" => op = "share" /\ Earlier(P, "open", i)
          /\ P[i] \in {"open", "unlock"} => ~Earlier(P, "open", i) /\ ~Earlier(P, "unlock", i)
          /\ P[i] = "find" => op = "delete"
          /\ P[i] \in {"fetch", "unseal"} => op = "receive"
          /\ P[i] = "verify" => op \in {"set", "receive"}
          /\ P[i] = "backup" => op \in {"delete", "backup", "restore"}
          /\ P[i] = "edit" => op \in LockedOps \cup {"init"}
          /\ P[i] = "done" <=> i = Len(P)
          /\ P[i] = "fetch" <=> (op = "receive" /\ i = 1)
          /\ P[i] = "edit" => P[i + 1] = "save"
          /\ i < Len(P) /\ P[i + 1] = "save" => P[i] = "edit" \/ op = "init"
          /\ op # "init" /\ P[i] \in {"open", "unlock", "refresh", "edit", "save"} =>
                ~Earlier(P, "save", i)
          /\ P[i] \in {"open", "unlock", "refresh"} => ~Earlier(P, "refresh", i)
          /\ P[i] = "refresh" => op \in LockedOps
          /\ op = "init" => P[i] \in {"open", "edit", "save", "done"}
          /\ op = "receive" /\ i < Len(P) /\ P[i + 1] = "done" => P[i] = "verify"
          /\ op \in LockedOps /\ P[i] \in {"edit", "save", "verify", "done"} => Earlier(P, "refresh", i)
          /\ op \in LockedOps \ {"receive"} /\ P[i] = "done" => Earlier(P, "save", i)
          /\ op = "delete" /\ P[i] = "backup" =>
                Earlier(P, "refresh", i) /\ \A j \in 1 .. Len(P) : P[j] = "backup" => j = i

LEMMA ProgramsHaveLabels ==
  ASSUME NEW line \in CommandLine
  PROVE  ProgramOf(line.op, Program(line))
<1> USE DEF ProgramOf, Earlier, LockedOps, BodyOps
<1>1. CASE line.op = "set"
  BY <1>1, SMTT(90) DEF Program, SetProgram
<1>2. CASE line.op = "delete"
  <2>1. Program(line) = DeleteProgram(line.no_backup)
    BY <1>2 DEF Program
  <2>2. CASE line.no_backup
    BY <1>2, <2>1, <2>2 DEF DeleteProgram
  <2>3. CASE ~line.no_backup
    BY <1>2, <2>1, <2>3 DEF DeleteProgram
  <2>4. QED
    BY <2>2, <2>3
<1>3. CASE line.op \in {"rename", "retier", "new-recovery-key"}
  BY <1>3 DEF Program, EditProgram
<1>4. CASE line.op = "change-passphrase"
  BY <1>4 DEF Program, PassphraseProgram, CommandLine
<1>5. CASE line.op = "recover"
  BY <1>5 DEF Program, RecoverProgram
<1>6. CASE line.op = "init"
  BY <1>6 DEF Program, InitProgram
<1>7. CASE line.op = "backup"
  BY <1>7 DEF Program
<1>8. CASE line.op = "restore"
  BY <1>8 DEF Program, RestoreProgram
<1>9. CASE line.op = "share"
  BY <1>9 DEF Program, ShareProgram
<1>10. CASE line.op = "receive"
  BY <1>10, SMTT(90) DEF Program, ReceiveProgram
<1>11. QED
  BY <1>1, <1>2, <1>3, <1>4, <1>5, <1>6, <1>7, <1>8, <1>9, <1>10 DEF CommandLine

-----------------------------------------------------------------------------
(* The invariants.                                                         *)

CommandTypeOK ==
    /\ cmd \in [Process -> Command \cup {NoCmd}]
    /\ bundle \in Bundle \cup {NoBundle}
    /\ menu \in DOMAIN Menu
    /\ clock \in 1 .. MaxClock

Live(p) == Running(p) /\ cmd[p].at # Failed
Did(p, label) == Earlier(Program(Line_(p)), label, cmd[p].at)

\* Which method of the store runs inside which call of the program.
CallOK(p) ==
    /\ ~Running(p) => Idle(p) /\ ~Open(p)
    /\ Running(p) =>
          /\ cmd[p].at \in 0 .. Len(Program(Line_(p)))
          /\ cmd[p].at = Failed => Idle(p)
          /\ pc[p] \in {"load", "createLock", "createCheck"} => At(p, "open")
          /\ pc[p] = "refresh" => At(p, "refresh")
          /\ pc[p] \in {"check", "write"} => At(p, "save") \/ (At(p, "open") /\ Creating(p))
          /\ pc[p] = "snap" => At(p, "backup")
          /\ pc[p] \in {"replaceLock", "replace", "notify"} => At(p, "replace")
          /\ Op(p) = "receive" /\ cmd[p].at > 1 => \E b \in cmd[p].read : cmd[p].read = {b}
          /\ Op(p) = "receive" => cmd[p].saved \subseteq Pair
          /\ Live(p) /\ (Did(p, "open") \/ Did(p, "unlock")) => Open(p)

CallInv == \A p \in Process : CallOK(p)

\* From its refresh to its end a command owns the lock, and its store was read
\* from what is at vault_path.
FreshOK(p) ==
    Live(p) /\ Did(p, "refresh") => Holds(p) /\ ~Creating(p) /\ store[p].fp = file

FreshInv == \A p \in Process : FreshOK(p)

\* What an offer of a bundle is worth: it was in the sender's vault, not sign-only,
\* and the sender did not loosen it.
Honest(b) ==
    \A k \in Shares(b) :
        /\ Has(b.from, k) /\ b.from[k].tier < TIER_SIGN_ONLY
        /\ b.items[k].value = b.from[k].value
        /\ b.from[k].tier <= b.items[k].tier

BundleInv ==
    /\ bundle # NoBundle => Honest(bundle)
    /\ \A p \in Process : Running(p) => \A b \in cmd[p].read : Honest(b)

\* The body after `receive`: an entry is as it was, or is an item of the bundle.
ReceivedOver(old, new, line, b, pairs) ==
    \A k \in Key : \/ new[k] = old[k]
                   \/ \E j \in Shares(b) :
                         /\ Has(new, k)
                         /\ new[k].value = b.items[j].value /\ new[k].tier = b.items[j].tier
                         /\ [key |-> k, value |-> new[k].value] \in pairs

\* What the edit made of the version the store was read from.
Applied(p) ==
    LET line == Line_(p)
        old  == store[p].fp
        new  == store[p]
    IN  /\ Op(p) \in BodyOps => CanEdit(old.body, line) /\ new.body = Edited(old.body, line)
        /\ Op(p) = "receive" =>
              \E b \in cmd[p].read : ReceivedOver(old.body, new.body, line, b, cmd[p].saved)
        /\ Op(p) \notin BodyOps \cup {"receive"} => new.body = old.body
        /\ IF Op(p) = "change-passphrase" THEN new.pass.cred = line.pass ELSE new.pass = old.pass
        /\ IF Op(p) \in {"new-recovery-key", "recover"} THEN new.rec # NoWrap
                                                        ELSE Op(p) # "init" => new.rec = old.rec

Untouched(p) ==
    /\ store[p].body = store[p].fp.body /\ store[p].pass = store[p].fp.pass
    /\ Op(p) # "init" => store[p].rec = store[p].fp.rec

\* Between its edit and the end of its save the store of a command is the version
\* it was read from with the edit applied; at any other time it is that version.
ChangeOK(p) ==
    Live(p) /\ Open(p) /\ ~Creating(p) => IF At(p, "save") THEN Applied(p) ELSE Untouched(p)

ChangeInv == \A p \in Process : ChangeOK(p)

\* What a command will report is in its store.
Achieved(p) ==
    LET line == Line_(p)
        body == store[p].body
    IN  /\ Op(p) = "set" => Has(body, line.key) /\ body[line.key].value = line.value
        /\ Op(p) = "delete" => ~Has(body, line.key)
        /\ Op(p) = "rename" /\ line.key # line.to => Has(body, line.to)
        /\ Op(p) = "retier" => body[line.key].tier = line.tier
        /\ Op(p) = "change-passphrase" => store[p].pass.cred = line.pass
        /\ Op(p) \in {"new-recovery-key", "recover"} => store[p].rec # NoWrap

AchievedOK(p) ==
    Live(p) =>
        /\ Op(p) \in LockedOps /\ Did(p, "save") => Achieved(p)
        /\ Op(p) = "receive" /\ At(p, "done") =>
              \A x \in cmd[p].saved : /\ Has(store[p].fp.body, x.key)
                                      /\ store[p].fp.body[x.key].value = x.value

AchievedInv == \A p \in Process : AchievedOK(p)

CommandInv == CommandTypeOK /\ CallInv /\ FreshInv /\ BundleInv /\ ChangeInv /\ AchievedInv

-----------------------------------------------------------------------------
(* What a command line carries, and what the edits build.                  *)

LEMMA LineFields ==
  ASSUME NEW line \in CommandLine
  PROVE  /\ line.op \in BodyOps => line.key \in Key
         /\ line.op = "set" => /\ line.value \in Value /\ line.tier \in Option(Nat)
                               /\ line.rotate \in Option(BOOLEAN) /\ line.pin \in BOOLEAN
         /\ line.op = "rename" => line.to \in Key
         /\ line.op = "retier" => line.tier \in Nat
         /\ line.op = "change-passphrase" => line.pass \in Passphrase
         /\ line.op = "restore" => line.name \in Name
         /\ line.op = "share" => line.cap \in Option(1 .. TIER_MAX)
         /\ line.op = "receive" => line.force \in BOOLEAN /\ line.all_to \in Option(Key)
         /\ line.op \in LockedOps \cup {"init", "backup", "restore", "share"}
  BY DEF CommandLine, BodyOps, LockedOps

LEMMA TierToSetType ==
  ASSUME NEW b \in Body, NEW line \in CommandLine, line.op = "set"
  PROVE  TierToSet(b, line) \in Nat
<1>1. line.tier \in SUBSET Nat /\ line.key \in Key
  BY LineFields DEF Option, BodyOps
<1>2. Has(b, line.key) => b[line.key].tier \in Nat
  BY <1>1 DEF Body, BodyEntry, Has, Tier
<1>3. line.tier # {} => (CHOOSE t \in line.tier : TRUE) \in line.tier
  OBVIOUS
<1>4. QED
  BY <1>1, <1>2, <1>3 DEF TierToSet, TIER_USE_ONLY

LEMMA AfterSetType ==
  ASSUME NEW b \in Body, NEW line \in CommandLine, line.op = "set", CanEdit(b, line)
  PROVE  /\ AfterSet(b, line) \in Body
         /\ \A k \in Key \ {line.key} : AfterSet(b, line)[k] = b[k]
         /\ Has(AfterSet(b, line), line.key)
         /\ AfterSet(b, line)[line.key].value = line.value
         /\ AfterSet(b, line)[line.key].tier = TierToSet(b, line)
         /\ line.rotate = {} => AfterSet(b, line)[line.key].rotate
                                   = (Has(b, line.key) /\ b[line.key].rotate)
<1> DEFINE k == line.key
           stored == SetEntry(b, k, line.value, TierToSet(b, line))
           r      == TRUE \in line.rotate
           ruled  == IF line.rotate = {} THEN stored ELSE SetRotation(stored, k, r)
           done   == IF line.pin THEN SetExpiry(ruled, k) ELSE ruled
           rot    == Has(b, k) /\ b[k].rotate
<1>1. k \in Key /\ line.value \in Value /\ TierToSet(b, line) \in Nat
  BY LineFields, TierToSetType DEF BodyOps
<1>2. validate_tier(TierToSet(b, line))
  BY DEF CanEdit, CanSet
<1>3. /\ stored \in Body /\ \A j \in Key \ {k} : stored[j] = b[j]
      /\ stored[k] = [value |-> line.value, tier |-> TierToSet(b, line),
                      rotate |-> rot, due |-> DueFrom(rot)]
  <2>1. stored \in Body
    BY <1>1, <1>2, SetEntryType
  <2>2. QED
    BY <1>1, <2>1 DEF SetEntry, Body
<1>4. stored[k] # NoEntry
  <2>1. rot \in BOOLEAN /\ TierToSet(b, line) \in Tier
    <3>1. b[k] \in BodyEntry \cup {NoEntry}
      BY <1>1 DEF Body
    <3>2. QED
      BY <1>1, <1>2, <3>1 DEF Has, BodyEntry, validate_tier, Tier
  <2>2. stored[k] \in BodyEntry
    BY <1>1, <1>3, <2>1 DEF BodyEntry, DueFrom
  <2>3. QED
    BY <2>2
<1> HIDE DEF stored, rot
<1>5. /\ ruled \in Body /\ \A j \in Key \ {k} : ruled[j] = b[j]
      /\ ruled[k] # NoEntry
      /\ ruled[k].value = line.value /\ ruled[k].tier = TierToSet(b, line)
      /\ line.rotate = {} => ruled[k].rotate = rot
  <2>1. CASE line.rotate = {}
    BY <1>3, <1>4, <2>1
  <2>2. CASE line.rotate # {}
    <3>1. Has(stored, k) /\ stored[k] \in BodyEntry /\ r \in BOOLEAN
      BY <1>1, <1>3, <1>4 DEF Has, Body
    <3>2. SetRotation(stored, k, r) \in Body
      BY <1>1, <1>3, <3>1, SetRotationType
    <3>3. /\ \A j \in Key \ {k} : SetRotation(stored, k, r)[j] = stored[j]
          /\ SetRotation(stored, k, r)[k] = [stored[k] EXCEPT !.rotate = r, !.due = DueFrom(r)]
      BY <1>1, <1>3 DEF SetRotation, Body
    <3>4. /\ SetRotation(stored, k, r)[k].value = stored[k].value
          /\ SetRotation(stored, k, r)[k].tier = stored[k].tier
          /\ SetRotation(stored, k, r)[k] \in BodyEntry
      BY <3>1, <3>3 DEF BodyEntry, DueFrom
    <3>5. ruled = SetRotation(stored, k, r)
      BY <2>2
    <3> HIDE DEF ruled, r
    <3>6. ruled[k] # NoEntry
      BY <3>4, <3>5
    <3>7. ruled[k].value = line.value /\ ruled[k].tier = TierToSet(b, line)
      BY <1>3, <3>4, <3>5
    <3>8. QED
      BY <1>3, <2>2, <3>2, <3>3, <3>5, <3>6, <3>7
  <2>3. QED
    BY <2>1, <2>2
<1> HIDE DEF ruled
<1>6. /\ done \in Body /\ \A j \in Key \ {k} : done[j] = b[j]
      /\ done[k] # NoEntry
      /\ done[k].value = line.value /\ done[k].tier = TierToSet(b, line)
      /\ line.rotate = {} => done[k].rotate = rot
  <2>1. CASE ~line.pin
    BY <1>5, <2>1
  <2>2. CASE line.pin
    <3>1. Has(ruled, k) /\ ruled[k] \in BodyEntry
      BY <1>1, <1>5 DEF Has, Body
    <3>2. SetExpiry(ruled, k) \in Body
      BY <1>1, <1>5, <3>1, SetExpiryType
    <3>3. /\ \A j \in Key \ {k} : SetExpiry(ruled, k)[j] = ruled[j]
          /\ SetExpiry(ruled, k)[k] = [ruled[k] EXCEPT !.due = "pinned"]
      BY <1>1, <1>5 DEF SetExpiry, Body
    <3>4. /\ SetExpiry(ruled, k)[k].value = ruled[k].value
          /\ SetExpiry(ruled, k)[k].tier = ruled[k].tier
          /\ SetExpiry(ruled, k)[k].rotate = ruled[k].rotate
          /\ SetExpiry(ruled, k)[k] \in BodyEntry
      BY <3>1, <3>3 DEF BodyEntry
    <3>5. QED
      BY <1>5, <2>2, <3>2, <3>3, <3>4
  <2>3. QED
    BY <2>1, <2>2
<1>7. AfterSet(b, line) = done
  BY DEF AfterSet, done, ruled, stored
<1> HIDE DEF done
<1>8. QED
  BY <1>6, <1>7 DEF Has, rot

\* The edits of the four commands return bodies, and change no other entry.
LEMMA EditedType ==
  ASSUME NEW b \in Body, NEW line \in CommandLine, line.op \in BodyOps, CanEdit(b, line)
  PROVE  Edited(b, line) \in Body
<1>1. line.key \in Key
  BY LineFields
<1>2. CASE line.op = "set"
  BY <1>2, AfterSetType DEF Edited
<1>3. CASE line.op = "delete"
  BY <1>1, <1>3, DeleteType DEF Edited
<1>4. CASE line.op = "rename"
  BY <1>1, <1>4, RenameType, LineFields DEF Edited
<1>5. CASE line.op = "retier"
  BY <1>1, <1>5, RetierType, LineFields DEF Edited, CanEdit, MayRetier
<1>6. QED
  BY <1>2, <1>3, <1>4, <1>5 DEF BodyOps

LEMMA Commanded ==
  ASSUME CommandTypeOK, NEW p \in Process, Running(p)
  PROVE  /\ cmd[p] \in Command /\ Line_(p) \in CommandLine /\ cmd[p].at \in Nat
         /\ cmd[p].read \subseteq Bundle /\ Op(p) = Line_(p).op
         /\ ProgramOf(Op(p), Program(Line_(p)))
<1>1. /\ cmd[p] \in Command /\ Line_(p) \in CommandLine /\ cmd[p].at \in Nat
      /\ cmd[p].read \subseteq Bundle /\ Op(p) = Line_(p).op
  BY DEF CommandTypeOK, Running, Command, Line_, Op
<1>2. QED
  BY <1>1, ProgramsHaveLabels

\* Where p is when it is at a call.
LEMMA AtCall ==
  ASSUME CommandTypeOK, CallInv, NEW p \in Process, NEW label, At(p, label)
  PROVE  /\ Running(p) /\ cmd[p].at \in 1 .. Len(Program(Line_(p)))
         /\ Program(Line_(p))[cmd[p].at] = label
  BY Commanded DEF At, CallInv, CallOK, Failed, ProgramOf

\* `receive` stores items of the one bundle it read, and reports them.
LEMMA ReceiveEffect ==
  ASSUME TypeInv, CommandTypeOK, CallInv, NEW p \in Process, Open(p), Receive(p)
  PROVE  \E b \in cmd[p].read, new \in Body, pairs \in SUBSET Pair,
            at \in {cmd[p].at + 1, Len(Program(Line_(p)))} :
            /\ SetBody(p, new)
            /\ ReceivedOver(store[p].body, new, Line_(p), b, pairs)
            /\ cmd' = [cmd EXCEPT ![p].saved = pairs, ![p].at = at]
            /\ at # cmd[p].at + 1 => new = store[p].body /\ pairs = {}
<1> DEFINE line  == Line_(p)
           body  == store[p].body
           b     == CHOOSE x \in cmd[p].read : TRUE
           of(l) == {k \in Shares(b) : RenameTo(line, k) = l}
           taken == {l \in Key : of(l) # {} /\ (line.force \/ ~Has(body, l))}
<1>1. PICK one \in [taken -> Shares(b)] :
         /\ \A l \in taken : one[l] \in of(l)
         /\ SetBody(p, [l \in Key |->
                IF l \in taken
                THEN SetEntry(body, l, b.items[one[l]].value, b.items[one[l]].tier)[l]
                ELSE body[l]])
         /\ LET stored == {x \in taken \X Shares(b) : IF line.force THEN x[2] \in of(x[1])
                                                       ELSE x[2] = one[x[1]]} IN
            cmd' = [cmd EXCEPT
                ![p].saved = {[key |-> x[1], value |-> b.items[x[2]].value] : x \in stored},
                ![p].at = IF taken = {} THEN Len(Program(line)) ELSE @ + 1]
  BY Zenon DEF Receive
<1> DEFINE stored == {x \in taken \X Shares(b) : IF line.force THEN x[2] \in of(x[1])
                                                  ELSE x[2] = one[x[1]]}
           new    == [l \in Key |->
                        IF l \in taken
                        THEN SetEntry(body, l, b.items[one[l]].value, b.items[one[l]].tier)[l]
                        ELSE body[l]]
           pairs  == {[key |-> x[1], value |-> b.items[x[2]].value] : x \in stored}
           at     == IF taken = {} THEN Len(Program(line)) ELSE cmd[p].at + 1
<1>2. b \in cmd[p].read /\ b \in Bundle
  <2>1. At(p, "edit") /\ Op(p) = "receive"
    BY DEF Receive, Calls
  <2>2. Running(p) /\ cmd[p].at \in 1 .. Len(Program(line)) /\ Program(line)[cmd[p].at] = "edit"
    BY <2>1, AtCall
  <2>3. cmd[p].at # 1
    BY <2>1, <2>2, Commanded DEF ProgramOf
  <2>4. \E x \in cmd[p].read : cmd[p].read = {x}
    BY <2>1, <2>2, <2>3 DEF CallInv, CallOK
  <2>5. QED
    BY <2>2, <2>4, Commanded
<1>3. body \in Body
  BY DEF TypeInv, TypeOK, Open, Store
<1>4. \A k \in Shares(b) : k \in Key /\ b.items[k].value \in Value /\ b.items[k].tier \in Tier
  BY <1>2 DEF Shares, Bundle, Shared, Tier
<1> HIDE DEF b
<1>5. \A l \in taken : /\ l \in Key /\ one[l] \in Shares(b) /\ one[l] \in of(l)
  <2>1. taken \subseteq Key
    OBVIOUS
  <2>2. one \in [taken -> Shares(b)] /\ \A l \in taken : one[l] \in of(l)
    BY <1>1, Zenon DEF b
  <2> HIDE DEF of, taken
  <2>3. QED
    BY <2>1, <2>2
<1> HIDE DEF of, taken
<1>6. ASSUME NEW l \in taken
      PROVE  /\ SetEntry(body, l, b.items[one[l]].value, b.items[one[l]].tier)[l] \in BodyEntry
             /\ SetEntry(body, l, b.items[one[l]].value, b.items[one[l]].tier)[l].value
                   = b.items[one[l]].value
             /\ SetEntry(body, l, b.items[one[l]].value, b.items[one[l]].tier)[l].tier
                   = b.items[one[l]].tier
  <2> DEFINE v == b.items[one[l]].value
             t == b.items[one[l]].tier
             r == Has(body, l) /\ body[l].rotate
  <2>1. l \in Key /\ v \in Value /\ t \in Tier
    BY <1>4, <1>5
  <2> HIDE DEF v, t
  <2>2. SetEntry(body, l, v, t)[l] = [value |-> v, tier |-> t, rotate |-> r, due |-> DueFrom(r)]
    BY <1>3, <2>1 DEF SetEntry, Body
  <2>3. r \in BOOLEAN
    <3>1. body[l] \in BodyEntry \cup {NoEntry}
      BY <1>3, <2>1 DEF Body
    <3>2. QED
      BY <3>1 DEF Has, BodyEntry
  <2>4. [value |-> v, tier |-> t, rotate |-> r, due |-> DueFrom(r)] \in BodyEntry
    BY <2>1, <2>3 DEF BodyEntry, DueFrom
  <2> HIDE DEF r
  <2>5. QED
    BY <2>2, <2>4 DEF v, t
<1>7. new \in Body
  BY <1>3, <1>6 DEF Body
<1>8. pairs \in SUBSET Pair
  BY <1>4, <1>5 DEF Pair
<1>9. \A l \in taken : <<l, one[l]>> \in stored
  BY <1>5
<1>10. \A l \in taken : [key |-> l, value |-> b.items[one[l]].value] \in pairs
  <2> HIDE DEF stored
  <2>1. \A x \in stored : [key |-> x[1], value |-> b.items[x[2]].value] \in pairs
    OBVIOUS
  <2> HIDE DEF pairs
  <2>2. ASSUME NEW l \in taken
        PROVE  [key |-> l, value |-> b.items[one[l]].value] \in pairs
    <3>1. <<l, one[l]>>[1] = l /\ <<l, one[l]>>[2] = one[l]
      OBVIOUS
    <3>2. QED
      BY <1>9, <2>1, <3>1
  <2>3. QED
    BY <2>2
<1>11. ReceivedOver(body, new, line, b, pairs)
  <2> SUFFICES ASSUME NEW k \in Key, new[k] # body[k]
               PROVE  \E j \in Shares(b) :
                         /\ Has(new, k)
                         /\ new[k].value = b.items[j].value /\ new[k].tier = b.items[j].tier
                         /\ [key |-> k, value |-> new[k].value] \in pairs
    BY DEF ReceivedOver
  <2>1. k \in taken
    OBVIOUS
  <2>2. new[k] = SetEntry(body, k, b.items[one[k]].value, b.items[one[k]].tier)[k]
    BY <2>1
  <2> HIDE DEF new, pairs
  <2>3. Has(new, k) /\ new[k].value = b.items[one[k]].value /\ new[k].tier = b.items[one[k]].tier
    BY <1>6, <2>1, <2>2 DEF Has
  <2>4. QED
    BY <1>5, <1>10, <2>1, <2>3
<1>12. taken = {} => new = body /\ pairs = {}
  BY <1>3 DEF Body
<1>13. SetBody(p, new) /\ cmd' = [cmd EXCEPT ![p].saved = pairs, ![p].at = at]
  BY <1>1, Zenon DEF of, taken, b
<1> HIDE DEF new, pairs, stored
<1>14. at \in {cmd[p].at + 1, Len(Program(line))}
  OBVIOUS
<1>15. at # cmd[p].at + 1 => taken = {}
  OBVIOUS
<1> HIDE DEF at
<1>16. QED
  BY <1>2, <1>7, <1>8, <1>11, <1>12, <1>13, <1>14, <1>15

-----------------------------------------------------------------------------
(* The steps of a command, by what they do.  Some thirty actions come down  *)
(* to nine effects on the command, its store and the place in its program.  *)

Label(p) == Program(Line_(p))[cmd[p].at]

\* The command of p goes to place a.
Goes(p, a) ==
    \E c \in Command :
       /\ c.line = cmd[p].line /\ c.at = a
       /\ c.saved = cmd[p].saved /\ c.read = cmd[p].read
       /\ cmd' = [cmd EXCEPT ![p] = c]

Begins(p) ==
    /\ ~Running(p) /\ UNCHANGED vars
    /\ \E line \in CommandLine :
          /\ line \in Menu[menu].lines
          /\ cmd' = [cmd EXCEPT ![p] = [line |-> line, at |-> 1, saved |-> {}, read |-> {}]]

Finishes(p) ==
    /\ cmd' = [cmd EXCEPT ![p] = NoCmd]
    /\ store'[p] = Closed /\ pc'[p] = "idle"

Fails(p) ==
    /\ Running(p) /\ pc'[p] = "idle"
    /\ \E c \in Command :
          /\ c.line = cmd[p].line /\ c.at = Failed
          /\ c.saved = cmd[p].saved /\ c.read \subseteq cmd[p].read
          /\ cmd' = [cmd EXCEPT ![p] = c]

\* Inside a call.
Enters(p) ==
    /\ Live(p) /\ cmd' = cmd /\ (At(p, "replace") \/ file' = file)
    /\ \/ /\ At(p, "open") /\ pc'[p] \in {"load", "createLock", "createCheck"}
          /\ store'[p] = Closed
       \/ /\ At(p, "open") /\ pc'[p] = "check" /\ store'[p] # Closed /\ store'[p].fp = NoFile
       \/ /\ At(p, "refresh") /\ pc'[p] = "refresh" /\ Open(p)
          /\ store'[p] = [store[p] EXCEPT !.held = TRUE]
       \/ /\ At(p, "save") \/ (At(p, "open") /\ Creating(p))
          /\ pc'[p] \in {"check", "write"} /\ store'[p] = store[p]
       \/ /\ At(p, "backup") /\ pc'[p] = "snap" /\ store'[p] = store[p]
          /\ arg'[p].bytes = file
       \/ /\ At(p, "replace") /\ pc'[p] \in {"replaceLock", "replace", "notify"}
          /\ store'[p] = store[p]

\* A call that leaves the store alone.  What `fetch` read and `backup` wrote is
\* noted; a restore has no store.
Passes(p) ==
    /\ Live(p)
    /\ Label(p) \notin {"open", "unlock", "refresh", "edit", "save", "done"}
    /\ store'[p] = store[p] /\ pc'[p] = "idle"
    /\ Label(p) # "replace" => file' = file
    /\ \E c \in Command :
          /\ c.line = cmd[p].line /\ c.at = cmd[p].at + 1
          /\ cmd' = [cmd EXCEPT ![p] = c]
          /\ IF Label(p) = "fetch" THEN bundle # NoBundle /\ c.read = {bundle}
                                   ELSE c.read = cmd[p].read
          /\ \/ c.saved = cmd[p].saved
             \/ /\ Label(p) = "backup" /\ pc[p] = "snap" /\ c.saved = {arg[p].name}
                /\ snapshot' = WithCopy(p)
          /\ Label(p) = "verify" =>
                \A x \in Expected(p) : Has(file.body, x.key) /\ file.body[x.key].value = x.value

Opens(p) ==
    /\ Live(p) /\ Label(p) \in {"open", "unlock"} /\ Goes(p, cmd[p].at + 1)
    /\ ~Open(p) /\ file # NoFile /\ file' = file /\ store'[p] = Loaded(file) /\ pc'[p] = "idle"

Refreshes(p) ==
    /\ Live(p) /\ Label(p) = "refresh" /\ Goes(p, cmd[p].at + 1)
    /\ Open(p) /\ file # NoFile /\ file' = file /\ pc'[p] = "idle"
    /\ store'[p] = [Loaded(file) EXCEPT !.dk = store[p].dk, !.held = TRUE]

\* s is the store of p with the edit of its command applied.
EditedTo(p, s, c) ==
    /\ s.fp = store[p].fp /\ s.held = store[p].held
    /\ Op(p) \in BodyOps => /\ CanEdit(store[p].body, Line_(p))
                            /\ s.body = Edited(store[p].body, Line_(p))
    /\ Op(p) = "receive" =>
          /\ c.saved \subseteq Pair
          /\ \E b \in c.read : ReceivedOver(store[p].body, s.body, Line_(p), b, c.saved)
    /\ Op(p) \notin BodyOps \cup {"receive"} => s.body = store[p].body
    /\ IF Op(p) = "change-passphrase" THEN s.pass.cred = Line_(p).pass
                                      ELSE s.pass = store[p].pass
    /\ IF Op(p) \in BodyOps \cup {"receive", "change-passphrase"} THEN s.rec = store[p].rec
                                                                  ELSE s.rec # NoWrap

\* The edit; `receive` with nothing to store goes to the end of its program.
EditsIt(p) ==
    /\ Live(p) /\ Label(p) = "edit" /\ Idle(p) /\ Open(p) /\ file' = file /\ pc'[p] = "idle"
    /\ \E c \in Command :
          /\ c.line = cmd[p].line /\ c.read = cmd[p].read
          /\ cmd' = [cmd EXCEPT ![p] = c]
          /\ \/ /\ c.at = cmd[p].at + 1
                /\ Op(p) # "receive" => c.saved = cmd[p].saved
                /\ \E s \in Store : store'[p] = s /\ EditedTo(p, s, c)
             \/ /\ Op(p) = "receive" /\ c.at = Len(Program(Line_(p))) /\ c.saved = {}
                /\ store'[p] = store[p]

Saves(p) ==
    /\ Live(p) /\ Goes(p, cmd[p].at + 1) /\ pc[p] = "write" /\ pc'[p] = "idle"
    /\ Label(p) = "save" \/ (Label(p) = "open" /\ Creating(p))
    /\ Open(p) /\ file' = Sealed(store[p])
    /\ store'[p] = [store[p] EXCEPT !.fp = file', !.held = @ /\ ~Creating(p)]

Effect(p) ==
    \/ Begins(p) \/ Finishes(p) \/ Fails(p) \/ Enters(p) \/ Passes(p)
    \/ Opens(p)  \/ Refreshes(p) \/ EditsIt(p) \/ Saves(p)

LEMMA AtSet ==
  ASSUME CommandTypeOK, NEW p \in Process, Running(p), NEW a \in Nat,
         cmd' = [cmd EXCEPT ![p].at = a]
  PROVE  Goes(p, a)
<1> DEFINE c == [cmd[p] EXCEPT !.at = a]
<1>1. c \in Command /\ c.line = cmd[p].line /\ c.at = a
      /\ c.saved = cmd[p].saved /\ c.read = cmd[p].read
  BY Commanded DEF Command
<1>2. cmd' = [cmd EXCEPT ![p] = c]
  OBVIOUS
<1> HIDE DEF c
<1>3. QED
  BY <1>1, <1>2 DEF Goes

\* `?` and bail!: what a call that returns does to the command.
LEMMA Returned ==
  ASSUME CommandTypeOK, NEW p \in Process, Running(p), NEW ok, Return(p, ok)
  PROVE  (ok => Goes(p, cmd[p].at + 1)) /\ (~ok => Goes(p, Failed))
<1>1. cmd[p].at \in Nat /\ cmd[p].at + 1 \in Nat /\ Failed \in Nat
  BY Commanded DEF Failed
<1>2. ok => cmd' = [cmd EXCEPT ![p].at = cmd[p].at + 1]
  BY Zenon DEF Return
<1>3. ~ok => cmd' = [cmd EXCEPT ![p].at = Failed]
  BY Zenon DEF Return
<1>4. QED
  BY <1>1, <1>2, <1>3, AtSet, Zenon

LEMMA LiveAt ==
  ASSUME CommandTypeOK, CallInv, NEW p \in Process, NEW label, At(p, label)
  PROVE  Live(p) /\ Label(p) = label /\ cmd[p].at \in 1 .. Len(Program(Line_(p)))
  BY AtCall DEF At, Live, Label

LEMMA OpenEffects ==
  ASSUME TypeInv, CommandTypeOK, CallInv, NEW p \in Process,
         OpenVault(p) \/ LoadReturns(p) \/ CreateContinues(p) \/ UnlockWithMnemonic(p)
  PROVE  Effect(p)
<1> USE DEF TypeInv
<1>1. CASE OpenVault(p)
  <2>1. At(p, "open") /\ cmd' = cmd /\ \E pass \in Menu[menu].pass : OpenAtWithPassphrase(p, pass)
    BY <1>1 DEF OpenVault, Calls, Stay
  <2>2. pc'[p] \in {"load", "createLock"} /\ store'[p] = Closed /\ file' = file
    BY <2>1 DEF OpenAtWithPassphrase, Goto, Open, TypeOK
  <2>3. QED
    BY <2>1, <2>2, LiveAt DEF Effect, Enters
<1>2. CASE LoadReturns(p)
  <2>1. pc[p] = "load" /\ Running(p) /\ At(p, "open") /\ ~Open(p)
    BY <1>2 DEF LoadReturns, load_v2, CallInv, CallOK, Idle, ShapeInv
  <2>2. Live(p) /\ Label(p) = "open"
    BY <2>1, LiveAt
  <2>3. pc'[p] = "idle" /\ file' = file
    BY <1>2 DEF LoadReturns, load_v2, Goto, TypeOK
  <2>4. CASE file # NoFile /\ Unwraps(file.pass, arg[p], file)
    <3>1. store'[p] = Loaded(file) /\ Loaded(file) # Closed
      BY <1>2, <2>4, LoadedType DEF LoadReturns, load_v2, TypeOK
    <3>2. Goes(p, cmd[p].at + 1)
      BY <1>2, <2>1, <3>1, Returned DEF LoadReturns
    <3>3. QED
      BY <2>1, <2>2, <2>3, <2>4, <3>1, <3>2 DEF Effect, Opens
  <2>5. CASE ~(file # NoFile /\ Unwraps(file.pass, arg[p], file))
    <3>1. store'[p] = Closed
      BY <1>2, <2>5 DEF LoadReturns, load_v2, TypeOK
    <3>2. Goes(p, Failed)
      BY <1>2, <2>1, <3>1, Returned DEF LoadReturns
    <3>3. QED
      BY <2>1, <2>3, <3>2 DEF Effect, Fails, Goes
  <2>6. QED
    BY <2>4, <2>5
<1>3. CASE CreateContinues(p)
  <2>1. /\ pc[p] \in {"createLock", "createCheck"} /\ cmd' = cmd
        /\ CreateLock(p) \/ CreateYields(p) \/ create_new(p)
    BY <1>3 DEF CreateContinues, CreateLock, CreateYields, create_new, Stay
  <2>2. At(p, "open") /\ ~Open(p)
    BY <2>1 DEF CallInv, CallOK, Idle, ShapeInv
  <2>3. CASE CreateLock(p) \/ CreateYields(p)
    <3>1. pc'[p] \in {"createCheck", "load"} /\ store' = store /\ file' = file
      BY <2>3 DEF CreateLock, CreateYields, Goto, TypeOK
    <3>2. QED
      BY <2>1, <2>2, <3>1, LiveAt DEF Effect, Enters, Open
  <2>4. CASE create_new(p)
    <3> DEFINE s == [dk   |-> fresh,
                     pass |-> [cred |-> arg[p], salt |-> fresh, dk |-> fresh],
                     rec  |-> NoWrap, body |-> EmptyBody,
                     fp   |-> NoFile, held |-> TRUE]
    <3>1. arg[p] \in Passphrase /\ fresh \in Nat
      BY <2>1, <2>4 DEF create_new, ShapeInv, TypeOK
    <3>2. [cred |-> arg[p], salt |-> fresh, dk |-> fresh] \in Wrap
      BY <3>1 DEF Wrap
    <3>3. s \in Store /\ s.fp = NoFile
      BY <3>1, <3>2, EmptyBodyType DEF Store
    <3>4. store'[p] = s /\ pc'[p] = "check" /\ file' = file
      BY <2>4 DEF create_new, MintStore, Goto, TypeOK
    <3> HIDE DEF s
    <3>5. store'[p] # Closed /\ store'[p].fp = NoFile
      BY <3>3, <3>4
    <3>6. QED
      BY <2>1, <2>2, <3>4, <3>5, LiveAt DEF Effect, Enters
  <2>5. QED
    BY <2>1, <2>3, <2>4
<1>4. CASE UnlockWithMnemonic(p)
  <2>1. At(p, "unlock") /\ Idle(p)
    BY <1>4 DEF UnlockWithMnemonic, Calls
  <2>2. Live(p) /\ Label(p) = "unlock" /\ Running(p)
    BY <2>1, LiveAt DEF Live
  <2>3. ASSUME NEW phrase \in 1 .. fresh, OpenAtWithMnemonic(p, phrase), Return(p, TRUE)
        PROVE  Effect(p)
    <3>1. /\ ~Open(p) /\ file # NoFile /\ file' = file /\ store'[p] = Loaded(file)
          /\ pc'[p] = "idle"
      BY <2>3 DEF OpenAtWithMnemonic, TypeOK, Idle
    <3>2. Goes(p, cmd[p].at + 1)
      BY <2>2, <2>3, Returned
    <3>3. QED
      BY <2>2, <3>1, <3>2 DEF Effect, Opens
  <2>4. ASSUME UNCHANGED vars, Return(p, FALSE)
        PROVE  Effect(p)
    <3>1. Goes(p, Failed)
      BY <2>2, <2>4, Returned
    <3>2. QED
      BY <2>1, <2>2, <2>4, <3>1 DEF Effect, Fails, Goes, vars, Idle
  <2>5. QED
    BY <1>4, <2>3, <2>4 DEF UnlockWithMnemonic
<1>5. QED
  BY <1>1, <1>2, <1>3, <1>4

LEMMA SaveEffects ==
  ASSUME TypeInv, CommandTypeOK, CallInv, NEW p \in Process,
         \/ Refresh(p) \/ RefreshReturns(p) \/ Save(p) \/ SaveContinues(p) \/ SaveReturns(p)
  PROVE  Effect(p)
<1> USE DEF TypeInv
<1>1. CASE Refresh(p)
  <2>1. At(p, "refresh") /\ cmd' = cmd /\ lock_and_refresh(p)
    BY <1>1 DEF Refresh, Calls, Stay
  <2>2. /\ Open(p) /\ pc'[p] = "refresh" /\ file' = file
        /\ store'[p] = [store[p] EXCEPT !.held = TRUE]
    BY <2>1 DEF lock_and_refresh, Goto, TypeOK
  <2>3. QED
    BY <2>1, <2>2, LiveAt DEF Effect, Enters
<1>2. CASE RefreshReturns(p)
  <2>1. RefreshRead(p) /\ Return(p, CanRefresh(p)) /\ pc[p] = "refresh"
    BY <1>2 DEF RefreshReturns, RefreshRead
  <2>2. At(p, "refresh") /\ Running(p) /\ Open(p)
    BY <2>1 DEF CallInv, CallOK, Idle, ShapeInv
  <2>3. Live(p) /\ Label(p) = "refresh"
    BY <2>2, LiveAt
  <2>4. pc'[p] = "idle" /\ file' = file
    BY <2>1 DEF RefreshRead, Goto, TypeOK
  <2>5. CASE CanRefresh(p)
    <3>1. Goes(p, cmd[p].at + 1)
      BY <2>1, <2>2, <2>5, Returned
    <3>2. store'[p] = [Loaded(file) EXCEPT !.dk = store[p].dk, !.held = TRUE]
      BY <2>1, <2>5 DEF RefreshRead, TypeOK
    <3>3. QED
      BY <2>2, <2>3, <2>4, <2>5, <3>1, <3>2 DEF Effect, Refreshes, CanRefresh
  <2>6. CASE ~CanRefresh(p)
    <3>1. Goes(p, Failed)
      BY <2>1, <2>2, <2>6, Returned
    <3>2. QED
      BY <2>2, <2>4, <3>1 DEF Effect, Fails, Goes
  <2>7. QED
    BY <2>5, <2>6
<1>3. CASE Save(p)
  <2>1. At(p, "save") /\ cmd' = cmd /\ save(p)
    BY <1>3 DEF Save, Calls, Stay
  <2>2. pc'[p] = "check" /\ store' = store /\ file' = file
    BY <2>1 DEF save, Goto, TypeOK
  <2>3. QED
    BY <2>1, <2>2, LiveAt DEF Effect, Enters
<1>4. CASE SaveContinues(p)
  <2>1. pc[p] = "check" /\ cmd' = cmd /\ pc'[p] = "write" /\ store' = store /\ file' = file
    BY <1>4 DEF SaveContinues, SaveCheck, Stay, Goto, TypeOK
  <2>2. At(p, "save") \/ (At(p, "open") /\ Creating(p))
    BY <2>1 DEF CallInv, CallOK, Idle
  <2>3. QED
    BY <2>1, <2>2, LiveAt DEF Effect, Enters
<1>5. CASE SaveReturns(p)
  <2>1. pc[p] \in {"check", "write"}
    BY <1>5 DEF SaveReturns, SaveWrite, SaveRefused, SaveFails, SaveFailsLate
  <2>2. /\ At(p, "save") \/ (At(p, "open") /\ Creating(p))
        /\ Running(p) /\ Open(p)
    BY <2>1 DEF CallInv, CallOK, Idle, ShapeInv
  <2>3. Live(p) /\ (Label(p) = "save" \/ (Label(p) = "open" /\ Creating(p)))
    BY <2>2, LiveAt
  <2>4. ASSUME SaveWrite(p), Return(p, TRUE)
        PROVE  Effect(p)
    <3>1. /\ pc[p] = "write" /\ pc'[p] = "idle" /\ file' = Sealed(store[p])
          /\ store'[p] = [store[p] EXCEPT !.fp = file', !.held = @ /\ ~Creating(p)]
      BY <2>4 DEF SaveWrite, LeaveSave, Goto, TypeOK
    <3>2. Goes(p, cmd[p].at + 1)
      BY <2>2, <2>4, Returned
    <3>3. QED
      BY <2>2, <2>3, <3>1, <3>2 DEF Effect, Saves
  <2>5. ASSUME SaveRefused(p) \/ SaveFails(p) \/ SaveFailsLate(p), Return(p, FALSE)
        PROVE  Effect(p)
    <3>1. pc'[p] = "idle"
      BY <2>5 DEF SaveRefused, SaveFails, SaveFailsLate, LeaveSave, Goto, TypeOK
    <3>2. Goes(p, Failed)
      BY <2>2, <2>5, Returned
    <3>3. QED
      BY <2>2, <3>1, <3>2 DEF Effect, Fails, Goes
  <2>6. QED
    BY <1>5, <2>4, <2>5 DEF SaveReturns
<1>6. QED
  BY <1>1, <1>2, <1>3, <1>4, <1>5

\* p edits a store that it owns.
LEMMA EditsOwned ==
  ASSUME CommandTypeOK, CallInv, FreshInv, NEW p \in Process, At(p, "edit")
  PROVE  /\ Op(p) \in LockedOps \cup {"init"}
         /\ Op(p) \in LockedOps => Open(p)
<1>1. /\ Live(p) /\ Label(p) = "edit" /\ Running(p)
      /\ cmd[p].at \in 1 .. Len(Program(Line_(p)))
  BY LiveAt DEF Live
<1>2. /\ Op(p) \in LockedOps \cup {"init"}
      /\ Op(p) \in LockedOps => Did(p, "refresh")
  BY <1>1, Commanded DEF ProgramOf, Label, Did
<1>3. QED
  BY <1>1, <1>2 DEF FreshInv, FreshOK, Holds

LEMMA EditEffects ==
  ASSUME TypeInv, CommandTypeOK, CallInv, FreshInv, NEW p \in Process,
         EditBody(p) \/ EditWraps(p) \/ Receive(p)
  PROVE  Effect(p)
<1> USE DEF TypeInv
<1>1. At(p, "edit") /\ Idle(p)
  BY DEF EditBody, EditWraps, Receive, Calls
<1>2. /\ Live(p) /\ Label(p) = "edit" /\ Running(p) /\ Line_(p) \in CommandLine
      /\ Op(p) = Line_(p).op /\ Op(p) \in LockedOps \cup {"init"}
      /\ Op(p) \in LockedOps => Open(p)
  BY <1>1, LiveAt, EditsOwned, Commanded DEF Live
<1>3. CASE EditBody(p)
  <2>1. Op(p) \in BodyOps /\ Op(p) \notin {"receive", "change-passphrase"}
    BY <1>3 DEF EditBody, BodyOps
  <2>2. store[p] \in Store /\ store[p].body \in Body /\ Open(p)
    BY <1>2, <2>1 DEF LockedOps, Open, TypeOK, Store
  <2>3. CASE CanEdit(store[p].body, Line_(p))
    <3> DEFINE b == Edited(store[p].body, Line_(p))
               s == [store[p] EXCEPT !.body = b]
    <3>1. b \in Body
      BY <1>2, <2>1, <2>2, <2>3, EditedType
    <3> HIDE DEF b
    <3>2. SetBody(p, b) /\ Return(p, TRUE)
      BY <1>3, <2>3, Zenon DEF EditBody, b
    <3>3. /\ s \in Store /\ s.fp = store[p].fp /\ s.held = store[p].held /\ s.body = b
          /\ s.pass = store[p].pass /\ s.rec = store[p].rec
      BY <2>2, <3>1 DEF Store
    <3>4. store'[p] = s /\ file' = file /\ pc'[p] = "idle"
      BY <1>1, <3>2 DEF SetBody, TypeOK, Idle
    <3> HIDE DEF s
    <3>5. PICK c \in Command : /\ c.line = cmd[p].line /\ c.at = cmd[p].at + 1
                               /\ c.saved = cmd[p].saved /\ c.read = cmd[p].read
                               /\ cmd' = [cmd EXCEPT ![p] = c]
      BY <1>2, <3>2, Returned DEF Goes
    <3>6. EditsIt(p)
      BY <1>1, <1>2, <2>1, <2>2, <2>3, <3>3, <3>4, <3>5 DEF EditsIt, EditedTo, b
    <3>7. QED
      BY <3>6 DEF Effect
  <2>4. CASE ~CanEdit(store[p].body, Line_(p))
    <3>1. UNCHANGED vars /\ Return(p, FALSE)
      BY <1>3, <2>4, Zenon DEF EditBody
    <3>2. QED
      BY <1>1, <1>2, <3>1, Returned DEF Effect, Fails, Goes, vars, Idle
  <2>5. QED
    BY <2>3, <2>4
<1>4. CASE EditWraps(p)
  <2>1. /\ Op(p) \notin BodyOps \cup {"receive"} /\ Return(p, TRUE)
        /\ Op(p) = "change-passphrase" => change_passphrase(p, Line_(p).pass)
        /\ Op(p) # "change-passphrase" => generate_recovery_key(p)
    BY <1>4, Zenon DEF EditWraps
  <2>2. PICK c \in Command : /\ c.line = cmd[p].line /\ c.at = cmd[p].at + 1
                             /\ c.saved = cmd[p].saved /\ c.read = cmd[p].read
                             /\ cmd' = [cmd EXCEPT ![p] = c]
    BY <1>2, <2>1, Returned DEF Goes
  <2>3. Open(p) /\ store[p] \in Store /\ file' = file /\ pc'[p] = "idle" /\ fresh \in Nat
    BY <1>1, <2>1 DEF change_passphrase, generate_recovery_key, Open, TypeOK, Idle
  <2>4. CASE Op(p) = "change-passphrase"
    <3> DEFINE w == [cred |-> Line_(p).pass, salt |-> fresh, dk |-> store[p].dk]
               s == [store[p] EXCEPT !.pass = w]
    <3>1. w \in Wrap /\ w.cred = Line_(p).pass
      BY <1>2, <2>3, <2>4, LineFields DEF Wrap, Store
    <3>2. store'[p] = s
      BY <2>1, <2>4 DEF change_passphrase, TypeOK
    <3> HIDE DEF w
    <3>3. /\ s \in Store /\ s.fp = store[p].fp /\ s.held = store[p].held
          /\ s.body = store[p].body /\ s.pass = w /\ s.rec = store[p].rec
      BY <2>3, <3>1 DEF Store
    <3> HIDE DEF s
    <3>4. EditsIt(p)
      BY <1>1, <1>2, <2>1, <2>2, <2>3, <2>4, <3>1, <3>2, <3>3 DEF EditsIt, EditedTo
    <3>5. QED
      BY <3>4 DEF Effect
  <2>5. CASE Op(p) # "change-passphrase"
    <3> DEFINE w == [cred |-> fresh, salt |-> fresh, dk |-> store[p].dk]
               s == [store[p] EXCEPT !.rec = w]
    <3>1. w \in Wrap
      BY <2>3 DEF Wrap, Store
    <3>2. store'[p] = s
      BY <2>1, <2>5 DEF generate_recovery_key, TypeOK
    <3> HIDE DEF w
    <3>3. /\ s \in Store /\ s.fp = store[p].fp /\ s.held = store[p].held
          /\ s.body = store[p].body /\ s.pass = store[p].pass /\ s.rec # NoWrap
      BY <2>3, <3>1 DEF Store
    <3> HIDE DEF s
    <3>4. EditsIt(p)
      BY <1>1, <1>2, <2>1, <2>2, <2>3, <2>5, <3>2, <3>3 DEF EditsIt, EditedTo
    <3>5. QED
      BY <3>4 DEF Effect
  <2>6. QED
    BY <2>4, <2>5
<1>5. CASE Receive(p)
  <2>1. Op(p) = "receive" /\ Op(p) \notin BodyOps
    BY <1>5 DEF Receive, BodyOps
  <2>2. Open(p) /\ store[p] \in Store /\ cmd[p] \in Command
    BY <1>2, <2>1, Commanded DEF LockedOps, Open, TypeOK
  <2>3. PICK b \in cmd[p].read, new \in Body, pairs \in SUBSET Pair,
             at \in {cmd[p].at + 1, Len(Program(Line_(p)))} :
            /\ SetBody(p, new)
            /\ ReceivedOver(store[p].body, new, Line_(p), b, pairs)
            /\ cmd' = [cmd EXCEPT ![p].saved = pairs, ![p].at = at]
            /\ at # cmd[p].at + 1 => new = store[p].body /\ pairs = {}
    BY <1>5, <2>2, ReceiveEffect
  <2> DEFINE s == [store[p] EXCEPT !.body = new]
             c == [cmd[p] EXCEPT !.saved = pairs, !.at = at]
  <2>4. /\ s \in Store /\ s.fp = store[p].fp /\ s.held = store[p].held /\ s.body = new
        /\ s.pass = store[p].pass /\ s.rec = store[p].rec
        /\ new = store[p].body => s = store[p]
    BY <2>2 DEF Store
  <2>5. store'[p] = s /\ file' = file /\ pc'[p] = "idle"
    BY <1>1, <2>3 DEF SetBody, TypeOK, Idle
  <2>6. at \in Nat
    BY <1>2, Commanded DEF ProgramOf
  <2>7. /\ c \in Command /\ c.line = cmd[p].line /\ c.read = cmd[p].read
        /\ c.saved = pairs /\ c.at = at
    BY <2>2, <2>6 DEF Command
  <2>8. cmd' = [cmd EXCEPT ![p] = c]
    BY <2>3
  <2> HIDE DEF s, c
  <2>9. EditsIt(p)
    <3>1. CASE at = cmd[p].at + 1
      BY <1>1, <1>2, <2>1, <2>2, <2>3, <2>4, <2>5, <2>7, <2>8, <3>1 DEF EditsIt, EditedTo
    <3>2. CASE at # cmd[p].at + 1
      BY <1>1, <1>2, <2>1, <2>2, <2>3, <2>4, <2>5, <2>7, <2>8, <3>2 DEF EditsIt, EditedTo
    <3>3. QED
      BY <3>1, <3>2
  <2>10. QED
    BY <2>9 DEF Effect
<1>6. QED
  BY <1>3, <1>4, <1>5

\* A call that only looks, or that the human answers.
LEMMA PassesBy ==
  ASSUME TypeInv, CommandTypeOK, CallInv, NEW p \in Process, NEW label, At(p, label), Idle(p),
         label \notin {"open", "unlock", "refresh", "edit", "save", "done", "replace",
                       "fetch", "verify"},
         UNCHANGED vars, Goes(p, cmd[p].at + 1)
  PROVE  Passes(p)
<1>1. Live(p) /\ Label(p) = label
  BY LiveAt
<1>2. store' = store /\ pc'[p] = "idle" /\ file' = file
  BY DEF vars, Idle
<1>3. QED
  BY <1>1, <1>2 DEF Passes, Goes

LEMMA FailsHere ==
  ASSUME CommandTypeOK, CallInv, NEW p \in Process, NEW label, At(p, label), Idle(p),
         UNCHANGED vars, Goes(p, Failed)
  PROVE  Fails(p)
  BY LiveAt DEF Fails, Goes, Live, vars, Idle

LEMMA LookEffects ==
  ASSUME TypeInv, CommandTypeOK, CallInv, NEW p \in Process,
         Prompt(p) \/ Find(p) \/ Verify(p) \/ Probe(p) \/ Unseal(p)
  PROVE  Effect(p)
<1>1. ASSUME NEW label \in {"prompt", "find", "probe", "unseal"}, Calls(p, label), UNCHANGED vars,
             NEW ok, Return(p, ok)
      PROVE  Effect(p)
  <2>1. At(p, label) /\ Idle(p) /\ Running(p)
    BY <1>1, LiveAt DEF Calls, Live
  <2>2. (ok => Goes(p, cmd[p].at + 1)) /\ (~ok => Goes(p, Failed))
    BY <1>1, <2>1, Returned
  <2>3. Passes(p) \/ Fails(p)
    BY <1>1, <2>1, <2>2, PassesBy, FailsHere, Zenon
  <2>4. QED
    BY <2>3 DEF Effect
<1>2. CASE Prompt(p)
  BY <1>1, <1>2, Zenon DEF Prompt
<1>3. CASE Find(p)
  BY <1>1, <1>3, Zenon DEF Find
<1>4. CASE Probe(p)
  BY <1>1, <1>4, Zenon DEF Probe
<1>5. CASE Unseal(p)
  BY <1>1, <1>5, Zenon DEF Unseal
<1>6. CASE Verify(p)
  <2> DEFINE ok == /\ file # NoFile /\ file.dk = store[p].dk
                   /\ \A x \in Expected(p) : Has(file.body, x.key)
                                            /\ file.body[x.key].value = x.value
  <2>1. At(p, "verify") /\ Idle(p) /\ UNCHANGED vars
    BY <1>6 DEF Verify, Calls
  <2>2. Return(p, ok)
    BY <1>6, Zenon DEF Verify
  <2>3. Live(p) /\ Label(p) = "verify" /\ Running(p)
    BY <2>1, LiveAt DEF Live
  <2> HIDE DEF ok
  <2>4. (ok => Goes(p, cmd[p].at + 1)) /\ (~ok => Goes(p, Failed))
    BY <2>2, <2>3, Returned
  <2>5. CASE ok
    <3>1. Goes(p, cmd[p].at + 1)
      BY <2>4, <2>5
    <3>2. \A x \in Expected(p) : Has(file.body, x.key) /\ file.body[x.key].value = x.value
      BY <2>5, Zenon DEF ok
    <3>3. store' = store /\ pc'[p] = "idle" /\ file' = file
      BY <2>1 DEF vars, Idle
    <3>4. Passes(p)
      BY <2>3, <3>1, <3>2, <3>3 DEF Passes, Goes
    <3>5. QED
      BY <3>4 DEF Effect
  <2>6. CASE ~ok
    BY <2>1, <2>4, <2>6, FailsHere DEF Effect
  <2>7. QED
    BY <2>5, <2>6, Zenon
<1>7. QED
  BY <1>2, <1>3, <1>4, <1>5, <1>6

LEMMA ShareEffects ==
  ASSUME TypeInv, CommandTypeOK, CallInv, NEW p \in Process, Seal(p) \/ Fetch(p)
  PROVE  Effect(p)
<1>1. CASE Seal(p)
  <2>1. /\ At(p, "seal") /\ Idle(p) /\ UNCHANGED vars
        /\ cmd' = [cmd EXCEPT ![p].at = cmd[p].at + 1] \/ cmd' = [cmd EXCEPT ![p].at = Failed]
    BY <1>1 DEF Seal, Calls
  <2>2. Running(p) /\ cmd[p].at + 1 \in Nat /\ Failed \in Nat
    BY <2>1, LiveAt, Commanded DEF Live, Failed
  <2>3. Goes(p, cmd[p].at + 1) \/ Goes(p, Failed)
    BY <2>1, <2>2, AtSet
  <2>4. QED
    BY <2>1, <2>3, PassesBy, FailsHere DEF Effect
<1>2. CASE Fetch(p)
  <2> DEFINE a == IF bundle = NoBundle THEN Failed ELSE cmd[p].at + 1
             r == {bundle} \ {NoBundle}
             c == [cmd[p] EXCEPT !.at = a, !.read = r]
  <2>1. At(p, "fetch") /\ Idle(p) /\ UNCHANGED vars /\ cmd' = [cmd EXCEPT ![p].at = a, ![p].read = r]
    BY <1>2 DEF Fetch, Calls
  <2>2. Live(p) /\ Label(p) = "fetch" /\ Running(p) /\ cmd[p] \in Command
    BY <2>1, LiveAt, Commanded DEF Live
  <2>3. store' = store /\ pc'[p] = "idle" /\ file' = file
    BY <2>1 DEF vars, Idle
  <2>4. a \in Nat /\ r \in SUBSET Bundle
    BY <2>2 DEF Command, CommandTypeOK, Failed
  <2> HIDE DEF a, r
  <2>5. /\ c \in Command /\ c.line = cmd[p].line /\ c.saved = cmd[p].saved
        /\ c.at = a /\ c.read = r
    BY <2>2, <2>4 DEF Command
  <2>6. cmd' = [cmd EXCEPT ![p] = c]
    BY <2>1
  <2> HIDE DEF c
  <2>7. CASE bundle = NoBundle
    <3>1. a = Failed /\ r = {}
      BY <2>7 DEF a, r
    <3>2. Fails(p)
      BY <2>2, <2>3, <2>5, <2>6, <3>1 DEF Fails
    <3>3. QED
      BY <3>2 DEF Effect
  <2>8. CASE bundle # NoBundle
    <3>1. a = cmd[p].at + 1 /\ r = {bundle}
      BY <2>8 DEF a, r
    <3>2. Passes(p)
      BY <2>2, <2>3, <2>5, <2>6, <2>8, <3>1 DEF Passes
    <3>3. QED
      BY <3>2 DEF Effect
  <2>9. QED
    BY <2>7, <2>8
<1>3. QED
  BY <1>1, <1>2

LEMMA CopyEffects ==
  ASSUME TypeInv, CommandTypeOK, CallInv, NEW p \in Process,
         Backup(p) \/ BackupReturns(p) \/ Replace(p) \/ ReplaceContinues(p) \/ ReplaceFails(p)
         \/ AgentAnswers(p)
  PROVE  Effect(p)
<1> USE DEF TypeInv
<1>1. CASE Backup(p)
  <2>1. At(p, "backup") /\ Idle(p)
    BY <1>1 DEF Backup, Calls
  <2>2. Live(p) /\ Running(p)
    BY <2>1, LiveAt DEF Live
  <2>3. ASSUME BackupRead(p, clock), Stay
        PROVE  Effect(p)
    <3>1. /\ pc'[p] = "snap" /\ store'[p] = store[p] /\ cmd' = cmd /\ file' = file
          /\ arg'[p] = [name |-> clock, bytes |-> file]
      BY <2>3 DEF BackupRead, Stay, Goto, TypeOK
    <3>2. arg'[p].bytes = file
      BY <3>1
    <3>3. QED
      BY <2>1, <2>2, <3>1, <3>2 DEF Effect, Enters
  <2>4. ASSUME UNCHANGED vars, Return(p, BackupOptional(p))
        PROVE  Effect(p)
    <3>1. Goes(p, cmd[p].at + 1) \/ Goes(p, Failed)
      BY <2>2, <2>4, Returned
    <3>2. QED
      BY <2>1, <2>4, <3>1, PassesBy, FailsHere DEF Effect
  <2>5. QED
    BY <1>1, <2>3, <2>4 DEF Backup
<1>2. CASE BackupReturns(p)
  <2>1. pc[p] = "snap" /\ pc'[p] = "idle" /\ store'[p] = store[p] /\ file' = file
    BY <1>2 DEF BackupReturns, BackupWrite, BackupFails, Goto, TypeOK
  <2>2. At(p, "backup") /\ arg[p] \in CopyOf
    BY <2>1 DEF CallInv, CallOK, Idle, ShapeInv
  <2>3. Live(p) /\ Running(p) /\ Label(p) = "backup" /\ cmd[p] \in Command
    BY <2>2, LiveAt, Commanded DEF Live
  <2>4. ASSUME BackupWrite(p), cmd' = [cmd EXCEPT ![p].at = @ + 1, ![p].saved = {arg[p].name}]
        PROVE  Effect(p)
    <3> DEFINE a == {arg[p].name}
               n == cmd[p].at + 1
               c == [cmd[p] EXCEPT !.at = n, !.saved = a]
    <3>1. a \in SUBSET (Name \cup Pair) /\ n \in Nat
      BY <2>2, <2>3 DEF CopyOf, Command
    <3>2. cmd' = [cmd EXCEPT ![p] = c]
      BY <2>4
    <3> HIDE DEF a, n
    <3>3. /\ c \in Command /\ c.line = cmd[p].line /\ c.at = n
          /\ c.saved = a /\ c.read = cmd[p].read
      BY <2>3, <3>1 DEF Command
    <3>4. snapshot' = WithCopy(p)
      BY <2>4 DEF BackupWrite
    <3> HIDE DEF c
    <3>5. Passes(p)
      BY <2>1, <2>3, <3>2, <3>3, <3>4 DEF Passes, a, n
    <3>6. QED
      BY <3>5 DEF Effect
  <2>5. ASSUME BackupFails(p), Return(p, BackupOptional(p))
        PROVE  Effect(p)
    <3>1. Goes(p, cmd[p].at + 1) \/ Goes(p, Failed)
      BY <2>3, <2>5, Returned
    <3>2. CASE Goes(p, cmd[p].at + 1)
      <4>1. Passes(p)
        BY <2>1, <2>3, <3>2 DEF Passes, Goes
      <4>2. QED
        BY <4>1 DEF Effect
    <3>3. CASE Goes(p, Failed)
      BY <2>1, <2>3, <3>3 DEF Effect, Fails, Goes
    <3>4. QED
      BY <3>1, <3>2, <3>3
  <2>6. QED
    BY <1>2, <2>4, <2>5 DEF BackupReturns
<1>3. CASE Replace(p)
  <2>1. At(p, "replace") /\ cmd' = cmd /\ pc'[p] = "replaceLock" /\ store' = store /\ file' = file
    BY <1>3 DEF Replace, Calls, RestoreRead, Stay, Goto, TypeOK
  <2>2. QED
    BY <2>1, LiveAt DEF Effect, Enters
<1>4. CASE ReplaceContinues(p)
  <2>1. /\ pc[p] \in {"replaceLock", "replace"} /\ pc'[p] \in {"replace", "notify"}
        /\ cmd' = cmd /\ store' = store
    BY <1>4 DEF ReplaceContinues, RestoreLock, RestoreWrite, Stay, Goto, TypeOK
  <2>2. At(p, "replace")
    BY <2>1 DEF CallInv, CallOK, Idle
  <2>3. QED
    BY <2>1, <2>2, LiveAt DEF Effect, Enters
<1>5. CASE ReplaceFails(p) \/ AgentAnswers(p)
  <2>1. pc[p] \in {"replace", "notify"} /\ pc'[p] = "idle" /\ store' = store
    BY <1>5 DEF ReplaceFails, AgentAnswers, RestoreReturns, RestoreFails, Goto, TypeOK
  <2>2. At(p, "replace")
    BY <2>1 DEF CallInv, CallOK, Idle
  <2>3. Live(p) /\ Running(p) /\ Label(p) = "replace"
    BY <2>2, LiveAt DEF Live
  <2>4. Return(p, TRUE) \/ Return(p, FALSE)
    BY <1>5 DEF ReplaceFails, AgentAnswers
  <2>5. Goes(p, cmd[p].at + 1) \/ Goes(p, Failed)
    BY <2>3, <2>4, Returned
  <2>6. CASE Goes(p, cmd[p].at + 1)
    <3>1. Passes(p)
      BY <2>1, <2>3, <2>6 DEF Passes, Goes
    <3>2. QED
      BY <3>1 DEF Effect
  <2>7. CASE Goes(p, Failed)
    BY <2>1, <2>3, <2>7 DEF Effect, Fails, Goes
  <2>8. QED
    BY <2>5, <2>6, <2>7
<1>6. QED
  BY <1>1, <1>2, <1>3, <1>4, <1>5

LEMMA EndEffects ==
  ASSUME TypeInv, CommandTypeOK, CallInv, NEW p \in Process,
         Run(p) \/ Exit(p) \/ Kill(p) \/ LockTimeout(p)
  PROVE  Effect(p)
<1> USE DEF TypeInv
<1>1. CASE Run(p)
  <2>1. PICK line \in Menu[menu].lines :
           cmd' = [cmd EXCEPT ![p] = [line |-> line, at |-> 1, saved |-> {}, read |-> {}]]
    BY <1>1 DEF Run
  <2>2. line \in CommandLine
    BY <2>1 DEF CommandTypeOK
  <2>3. ~Running(p) /\ UNCHANGED vars
    BY <1>1 DEF Run
  <2>4. QED
    BY <2>1, <2>2, <2>3 DEF Effect, Begins
<1>2. CASE Exit(p)
  <2>1. cmd' = [cmd EXCEPT ![p] = NoCmd] /\ store'[p] = Closed /\ pc'[p] = "idle"
    BY <1>2 DEF Exit, Drop, vars, Open, Idle, TypeOK
  <2>2. QED
    BY <2>1 DEF Effect, Finishes
<1>3. CASE Kill(p)
  <2>1. cmd' = [cmd EXCEPT ![p] = NoCmd] /\ store'[p] = Closed /\ pc'[p] = "idle"
    BY <1>3 DEF Kill, Crash, Goto, vars, Open, Idle, TypeOK
  <2>2. QED
    BY <2>1 DEF Effect, Finishes
<1>4. CASE LockTimeout(p)
  <2>1. Running(p)
    BY <1>4 DEF LockTimeout, AwaitsLock, CallInv, CallOK, Calls, At, Idle
  <2>2. pc'[p] = "idle" /\ Return(p, FALSE)
    BY <1>4 DEF LockTimeout, Goto, TypeOK
  <2>3. Goes(p, Failed)
    BY <2>1, <2>2, Returned
  <2>4. QED
    BY <2>1, <2>2, <2>3 DEF Effect, Fails, Goes
<1>5. QED
  BY <1>1, <1>2, <1>3, <1>4

OwnStep(p) == Run(p) \/ Prompt(p) \/ AgentAnswers(p) \/ LockTimeout(p) \/ Kill(p) \/ Step(p)

LEMMA Effects ==
  ASSUME TypeInv, CommandTypeOK, CallInv, FreshInv, NEW p \in Process, OwnStep(p)
  PROVE  Effect(p)
<1>1. CASE OpenVault(p) \/ LoadReturns(p) \/ CreateContinues(p) \/ UnlockWithMnemonic(p)
  BY <1>1, OpenEffects
<1>2. CASE Refresh(p) \/ RefreshReturns(p) \/ Save(p) \/ SaveContinues(p) \/ SaveReturns(p)
  BY <1>2, SaveEffects
<1>3. CASE EditBody(p) \/ EditWraps(p) \/ Receive(p)
  BY <1>3, EditEffects
<1>4. CASE Prompt(p) \/ Find(p) \/ Verify(p) \/ Probe(p) \/ Unseal(p)
  BY <1>4, LookEffects
<1>5. CASE Seal(p) \/ Fetch(p)
  BY <1>5, ShareEffects
<1>6. CASE Backup(p) \/ BackupReturns(p) \/ Replace(p) \/ ReplaceContinues(p) \/ ReplaceFails(p)
         \/ AgentAnswers(p)
  BY <1>6, CopyEffects
<1>7. CASE Run(p) \/ Exit(p) \/ Kill(p) \/ LockTimeout(p)
  BY <1>7, EndEffects
<1>8. QED
  BY <1>1, <1>2, <1>3, <1>4, <1>5, <1>6, <1>7 DEF OwnStep, Step

-----------------------------------------------------------------------------
(* The commands are clients of the store, so what is proved of every client *)
(* of VaultStore is true of them.                                           *)

LEMMA EditIsClient ==
  ASSUME TypeInv, CommandTypeOK, CallInv, FreshInv, NEW p \in Process,
         EditBody(p) \/ EditWraps(p) \/ Receive(p)
  PROVE  EditStep(p) \/ UNCHANGED vars
<1>1. /\ At(p, "edit") /\ Idle(p) /\ Running(p) /\ Line_(p) \in CommandLine
      /\ Op(p) = Line_(p).op /\ Op(p) \in LockedOps \cup {"init"}
      /\ Op(p) \in LockedOps => Open(p)
  BY LiveAt, EditsOwned, Commanded DEF EditBody, EditWraps, Receive, Calls, Live
<1>2. ASSUME NEW b \in Body, SetBody(p, b), Open(p)
      PROVE  EditStep(p)
  BY <1>1, <1>2, SetBodyEdits DEF EditStep, SetBody
<1>3. CASE EditBody(p)
  <2>1. /\ Op(p) \in BodyOps /\ Open(p) /\ store[p].body \in Body
        /\ \/ CanEdit(store[p].body, Line_(p)) /\ SetBody(p, Edited(store[p].body, Line_(p)))
           \/ UNCHANGED vars
    BY <1>1, <1>3 DEF EditBody, LockedOps, Open, TypeInv, TypeOK, Store
  <2>2. CanEdit(store[p].body, Line_(p)) => Edited(store[p].body, Line_(p)) \in Body
    BY <1>1, <2>1, EditedType
  <2>3. QED
    BY <1>2, <2>1, <2>2
<1>4. CASE EditWraps(p)
  <2>1. CASE Op(p) = "change-passphrase"
    <3>1. Line_(p).pass \in Passphrase /\ change_passphrase(p, Line_(p).pass)
      BY <1>1, <1>4, <2>1, LineFields DEF EditWraps
    <3>2. QED
      BY <3>1, MutateEdits DEF MutateStep
  <2>2. CASE Op(p) # "change-passphrase"
    BY <1>4, <2>2, MutateEdits DEF EditWraps, MutateStep
  <2>3. QED
    BY <2>1, <2>2
<1>5. CASE Receive(p)
  <2>1. Open(p)
    BY <1>1, <1>5 DEF Receive, LockedOps
  <2>2. \E new \in Body : SetBody(p, new)
    BY <1>5, <2>1, ReceiveEffect
  <2>3. QED
    BY <1>2, <2>1, <2>2
<1>6. QED
  BY <1>3, <1>4, <1>5

LEMMA EndIsClient ==
  ASSUME TypeInv, CallInv, NEW p \in Process, Exit(p) \/ Kill(p) \/ LockTimeout(p)
  PROVE  Drop(p) \/ Crash(p) \/ UNCHANGED vars
<1>1. CASE Exit(p)
  BY <1>1 DEF Exit
<1>2. CASE Kill(p)
  BY <1>2 DEF Kill
<1>3. CASE LockTimeout(p)
  <2>1. CASE Idle(p)
    <3>1. store' = store /\ arg' = arg /\ pc' = pc
      BY <1>3, <2>1 DEF LockTimeout, TypeInv, TypeOK, ShapeInv, Idle, Goto
    <3>2. QED
      BY <1>3, <3>1 DEF LockTimeout, vars
  <2>2. CASE ~Idle(p)
    <3>1. store' = [store EXCEPT ![p] = Closed] /\ lock' = lock /\ lock # p
      BY <1>3, <2>2 DEF LockTimeout, AwaitsLock
    <3>2. Crash(p)
      BY <1>3, <2>2, <3>1 DEF LockTimeout, Crash
    <3>3. QED
      BY <3>2
  <2>3. QED
    BY <2>1, <2>2
<1>4. QED
  BY <1>1, <1>2, <1>3

LEMMA CopyIsClient ==
  ASSUME CommandTypeOK, CallInv, NEW p \in Process,
         Backup(p) \/ BackupReturns(p) \/ Replace(p) \/ ReplaceContinues(p) \/ ReplaceFails(p)
         \/ AgentAnswers(p)
  PROVE  CopyStep(p) \/ UNCHANGED vars
<1>1. CASE Backup(p)
  <2>1. clock \in Name
    BY DEF CommandTypeOK
  <2>2. QED
    BY <1>1, <2>1 DEF Backup, CopyStep
<1>2. CASE BackupReturns(p) \/ ReplaceContinues(p) \/ ReplaceFails(p)
         \/ AgentAnswers(p)
  BY <1>2 DEF BackupReturns, ReplaceContinues, ReplaceFails, AgentAnswers, CopyStep
<1>3. CASE Replace(p)
  <2>1. At(p, "replace") /\ RestoreRead(p, Line_(p).name)
    BY <1>3 DEF Replace, Calls
  <2>2. Live(p) /\ Label(p) = "replace" /\ cmd[p].at \in 1 .. Len(Program(Line_(p)))
    BY <2>1, LiveAt
  <2>3. Line_(p) \in CommandLine /\ Line_(p).op = "restore"
    BY <2>2, Commanded DEF ProgramOf, Label, Live
  <2>4. Line_(p).name \in Name
    BY <2>3, LineFields
  <2>5. QED
    BY <2>1, <2>4 DEF CopyStep
<1>4. QED
  BY <1>1, <1>2, <1>3

LEMMA OwnStepIsClient ==
  ASSUME TypeInv, CommandTypeOK, CallInv, FreshInv, NEW p \in Process, OwnStep(p)
  PROVE  ClientStep(p) \/ UNCHANGED vars
<1>1. CASE OpenVault(p)
  BY <1>1 DEF OpenVault, CommandTypeOK, ClientStep, ClientOpenStep
<1>2. CASE LoadReturns(p) \/ CreateContinues(p)
  BY <1>2 DEF LoadReturns, CreateContinues, ClientStep, ClientOpenStep
<1>3. CASE UnlockWithMnemonic(p)
  <2>1. \A phrase \in 1 .. fresh : phrase \in Nat
    BY DEF TypeInv, TypeOK
  <2>2. QED
    BY <1>3, <2>1 DEF UnlockWithMnemonic, ClientStep, ClientOpenStep
<1>4. CASE Refresh(p) \/ RefreshReturns(p) \/ Save(p) \/ SaveContinues(p) \/ SaveReturns(p)
  BY <1>4 DEF Refresh, RefreshReturns, Save, SaveContinues, SaveReturns, ClientStep, SaveStep
<1>5. CASE EditBody(p) \/ EditWraps(p) \/ Receive(p)
  BY <1>5, EditIsClient DEF ClientStep
<1>6. CASE Run(p) \/ Prompt(p) \/ Find(p) \/ Verify(p) \/ Probe(p) \/ Unseal(p) \/ Seal(p) \/ Fetch(p)
  BY <1>6 DEF Run, Prompt, Find, Verify, Probe, Unseal, Seal, Fetch, vars
<1>7. CASE Backup(p) \/ BackupReturns(p) \/ Replace(p) \/ ReplaceContinues(p) \/ ReplaceFails(p)
         \/ AgentAnswers(p)
  BY <1>7, CopyIsClient DEF ClientStep
<1>8. CASE Exit(p) \/ Kill(p) \/ LockTimeout(p)
  BY <1>8, EndIsClient DEF ClientStep
<1>9. QED
  BY <1>1, <1>2, <1>3, <1>4, <1>5, <1>6, <1>7, <1>8 DEF OwnStep, Step

-----------------------------------------------------------------------------
(* What surrounds the commands: the bundle file, the clock and the menu.    *)

LEMMA OneArgument ==
  ASSUME NEW S, NEW o \in Option(S), NEW c \in o
  PROVE  o = {c} /\ c \in S
<1>1. o \subseteq S /\ \A x \in o : x = c
  BY Zenon DEF Option
<1>2. QED
  BY <1>1

LEMMA CappedType ==
  ASSUME NEW tier \in Tier, NEW cap \in Option(1 .. TIER_MAX)
  PROVE  Capped(tier, cap) \in Tier /\ tier <= Capped(tier, cap)
<1>1. \E top \in Tier : /\ top \in {tier} \cup cap
                        /\ \A t \in {tier} \cup cap : top >= t
  <2>1. CASE cap = {}
    BY <2>1 DEF Tier, TIER_MAX
  <2>2. CASE cap # {}
    <3>1. PICK c \in cap : TRUE
      BY <2>2
    <3> cap = {c} /\ c \in 1 .. TIER_MAX
      BY <3>1, OneArgument
    <3>2. CASE c <= tier
      BY <3>2 DEF Tier, TIER_MAX
    <3>3. CASE ~(c <= tier)
      BY <3>3 DEF Tier, TIER_MAX
    <3>4. QED
      BY <3>2, <3>3
  <2>3. QED
    BY <2>1, <2>2
<1>2. /\ Capped(tier, cap) \in {tier} \cup cap
      /\ \A t \in {tier} \cup cap : Capped(tier, cap) >= t
  BY <1>1 DEF Capped, Max
<1>3. {tier} \cup cap \subseteq Tier
  BY DEF Option, Tier
<1>4. QED
  BY <1>2, <1>3 DEF Tier, TIER_MAX

\* A sealed bundle is one, and is an honest one.
LEMMA SealIsHonest ==
  ASSUME NEW body \in Body, NEW to \in Nat, NEW cap \in Option(1 .. TIER_MAX)
  PROVE  seal(body, to, cap) \in Bundle /\ Honest(seal(body, to, cap))
<1> DEFINE item(k) == IF Shareable(body, k)
                      THEN [value |-> body[k].value, tier |-> Capped(body[k].tier, cap)]
                      ELSE NoEntry
<1>1. ASSUME NEW k \in Key, Shareable(body, k)
      PROVE  /\ body[k] \in BodyEntry /\ body[k].value \in Value /\ body[k].tier \in Tier
             /\ Capped(body[k].tier, cap) \in Tier /\ body[k].tier <= Capped(body[k].tier, cap)
             /\ body[k].tier < TIER_SIGN_ONLY
  <2>1. body[k] \in BodyEntry /\ body[k].tier # TIER_SIGN_ONLY
    BY <1>1 DEF Shareable, Has, Body
  <2>2. body[k].value \in Value /\ body[k].tier \in Tier
    BY <2>1 DEF BodyEntry
  <2>3. QED
    BY <2>1, <2>2, CappedType DEF Tier, TIER_MAX, TIER_SIGN_ONLY
<1>2. ASSUME NEW k \in Key, Shareable(body, k)
      PROVE  item(k) \in Shared /\ item(k).value = body[k].value /\ body[k].tier <= item(k).tier
  BY <1>1, <1>2 DEF Shared, Tier
<1>3. ASSUME NEW k \in Key
      PROVE  item(k) \in Shared \cup {NoEntry} /\ (item(k) # NoEntry => Shareable(body, k))
  BY <1>2, <1>3
<1> HIDE DEF item
<1> DEFINE items == [k \in Key |-> item(k)]
           s     == [to |-> to, from |-> body, items |-> items]
<1>4. seal(body, to, cap) = s
  BY DEF seal, item
<1>5. items \in [Key -> Shared \cup {NoEntry}] /\ \A k \in Key : items[k] = item(k)
  BY <1>3
<1> HIDE DEF items
<1>6. s \in Bundle /\ s.items = items /\ s.from = body
  BY <1>5 DEF Bundle
<1> HIDE DEF s
<1>7. Honest(s)
  <2> SUFFICES ASSUME NEW k \in Shares(s)
               PROVE  /\ Has(s.from, k) /\ s.from[k].tier < TIER_SIGN_ONLY
                      /\ s.items[k].value = s.from[k].value
                      /\ s.from[k].tier <= s.items[k].tier
    BY DEF Honest
  <2>1. k \in Key /\ item(k) # NoEntry
    BY <1>5, <1>6 DEF Shares
  <2>2. Shareable(body, k)
    BY <1>3, <2>1
  <2>3. QED
    BY <1>1, <1>2, <1>5, <1>6, <2>1, <2>2 DEF Shareable
<1>8. QED
  BY <1>4, <1>6, <1>7

\* A step of a command writes a bundle only by sealing one.
LEMMA EnvStep ==
  ASSUME TypeInv, CommandTypeOK, CallInv, NEW p \in Process, OwnStep(p)
  PROVE  /\ menu' = menu /\ clock' = clock
         /\ bundle' = bundle \/ (bundle' \in Bundle /\ Honest(bundle'))
<1>1. CASE Seal(p)
  <2>1. At(p, "seal")
    BY <1>1 DEF Seal, Calls
  <2>2. Live(p) /\ Running(p) /\ Label(p) = "seal" /\ cmd[p].at \in 1 .. Len(Program(Line_(p)))
    BY <2>1, LiveAt DEF Live
  <2>3. Op(p) = "share" /\ Line_(p) \in CommandLine /\ Line_(p).op = "share"
    BY <2>2, Commanded DEF ProgramOf, Label
  <2>4. Line_(p).cap \in Option(1 .. TIER_MAX)
    BY <2>3, LineFields
  <2>5. CASE bundle' = bundle
    BY <1>1, <2>5 DEF Seal
  <2>6. CASE bundle' # bundle
    <3>1. PICK to \in {store[p].dk, Foreign.dk} : bundle' = seal(store[p].body, to, Line_(p).cap)
      BY <1>1, <2>6 DEF Seal
    <3>2. Foreign.dk \in Nat
      BY DEF Foreign
    <3>3. Did(p, "open")
      BY <2>2, Commanded DEF ProgramOf, Label, Did
    <3>4. store[p].body \in Body /\ store[p].dk \in Nat
      BY <2>2, <3>3 DEF CallInv, CallOK, Live, TypeInv, TypeOK, Open, Store
    <3>5. menu' = menu /\ clock' = clock
      BY <1>1 DEF Seal
    <3>6. QED
      BY <2>4, <3>1, <3>2, <3>4, <3>5, SealIsHonest
  <2>7. QED
    BY <2>5, <2>6
<1>2. CASE Run(p) \/ Kill(p) \/ Exit(p) \/ Fetch(p) \/ Receive(p) \/ Backup(p) \/ BackupReturns(p)
           \/ LockTimeout(p)
  BY <1>2 DEF Run, Kill, Exit, Fetch, Receive, Backup, BackupReturns, LockTimeout, Return, Stay, env
<1>3. CASE OpenVault(p) \/ LoadReturns(p) \/ CreateContinues(p) \/ UnlockWithMnemonic(p)
           \/ Refresh(p) \/ RefreshReturns(p) \/ Save(p) \/ SaveContinues(p) \/ SaveReturns(p)
           \/ EditBody(p) \/ EditWraps(p)
  BY <1>3 DEF OpenVault, LoadReturns, CreateContinues, UnlockWithMnemonic, Refresh, RefreshReturns,
              Save, SaveContinues, SaveReturns, EditBody, EditWraps, Return, Stay, env
<1>4. CASE Prompt(p) \/ Find(p) \/ Verify(p) \/ Probe(p) \/ Unseal(p)
           \/ Replace(p) \/ ReplaceContinues(p) \/ ReplaceFails(p)
         \/ AgentAnswers(p)
  BY <1>4 DEF Prompt, Find, Verify, Probe, Unseal, Replace, ReplaceContinues, ReplaceFails,
              AgentAnswers, Return, Stay, env
<1>5. QED
  BY <1>1, <1>2, <1>3, <1>4 DEF OwnStep, Step

-----------------------------------------------------------------------------
(* The place of a command in its program, before and after a step.          *)

\* ProgramsHaveLabels, at the place where p is.
LEMMA Placed ==
  ASSUME CommandTypeOK, CallInv, NEW p \in Process, Live(p)
  PROVE  /\ Running(p) /\ cmd[p] \in Command
         /\ cmd[p].at \in 1 .. Len(Program(Line_(p))) /\ Len(Program(Line_(p))) \in Nat \ {0}
         /\ Label(p) = "done" <=> cmd[p].at = Len(Program(Line_(p)))
         /\ Label(p) = "fetch" <=> (Op(p) = "receive" /\ cmd[p].at = 1)
         /\ Label(p) \in {"probe", "replace"} => Op(p) = "restore"
         /\ Label(p) = "backup" => Op(p) \in {"delete", "backup", "restore"}
         /\ Label(p) = "edit" => Op(p) \in LockedOps \cup {"init"}
         /\ Label(p) = "edit" => Program(Line_(p))[cmd[p].at + 1] = "save"
         /\ Label(p) # "done" /\ Program(Line_(p))[cmd[p].at + 1] = "save" =>
               Label(p) = "edit" \/ Op(p) = "init"
         /\ Op(p) # "init" /\ Label(p) \in {"open", "unlock", "refresh", "edit", "save"} =>
               ~Did(p, "save")
         /\ Label(p) \in {"open", "unlock", "refresh"} => ~Did(p, "refresh")
         /\ Label(p) = "refresh" => Op(p) \in LockedOps
         /\ Op(p) \in LockedOps /\ Label(p) \in {"edit", "save", "verify", "done"} =>
               Did(p, "refresh")
         /\ Op(p) \in LockedOps \ {"receive"} /\ Label(p) = "done" => Did(p, "save")
         /\ Label(p) \in {"open", "unlock"} => ~Did(p, "open") /\ ~Did(p, "unlock")
         /\ Op(p) = "init" => Label(p) \in {"open", "edit", "save", "done"}
         /\ Op(p) = "receive" /\ Label(p) # "done" /\ Program(Line_(p))[cmd[p].at + 1] = "done" =>
               Label(p) = "verify"
<1>1. Running(p) /\ cmd[p] \in Command /\ ProgramOf(Op(p), Program(Line_(p))) /\ cmd[p].at \in Nat
  BY Commanded DEF Live
<1>2. /\ cmd[p].at \in 1 .. Len(Program(Line_(p))) /\ Len(Program(Line_(p))) \in Nat \ {0}
  BY <1>1 DEF CallInv, CallOK, Live, Failed, ProgramOf
<1>3. QED
  BY <1>1, <1>2 DEF ProgramOf, Label, Did

\* The command of p went to another place in its program.
LEMMA Moved ==
  ASSUME CommandTypeOK, NEW p \in Process, Running(p), NEW c \in Command,
         c.line = cmd[p].line, cmd' = [cmd EXCEPT ![p] = c]
  PROVE  /\ Running(p)' /\ cmd'[p] = c /\ Line_(p)' = Line_(p) /\ Op(p)' = Op(p)
         /\ Label(p)' = Program(Line_(p))[c.at]
         /\ Live(p)' <=> c.at # Failed
         /\ \A l : At(p, l)' <=> (c.at # Failed /\ Label(p)' = l)
         /\ \A l : Did(p, l)' <=> Earlier(Program(Line_(p)), l, c.at)
<1>1. cmd'[p] = c /\ c # NoCmd
  BY DEF CommandTypeOK
<1>2. /\ Running(p)' /\ Line_(p)' = Line_(p) /\ Op(p)' = Op(p)
      /\ Label(p)' = Program(Line_(p))[c.at] /\ (Live(p)' <=> c.at # Failed)
  BY <1>1 DEF Running, Line_, Op, Label, Live
<1>3. \A l : At(p, l)' <=> (c.at # Failed /\ Label(p)' = l)
  BY <1>1, <1>2 DEF At, Label, Line_
<1>4. \A l : Did(p, l)' <=> Earlier(Program(Line_(p)), l, c.at)
  BY <1>1 DEF Did, Line_
<1>5. QED
  BY <1>1, <1>2, <1>3, <1>4

\* It went to the next one.
LEMMA Advanced ==
  ASSUME CommandTypeOK, CallInv, NEW p \in Process, Live(p), Label(p) # "done",
         NEW c \in Command, c.line = cmd[p].line, c.at = cmd[p].at + 1,
         cmd' = [cmd EXCEPT ![p] = c]
  PROVE  /\ Running(p)' /\ cmd'[p] = c /\ Line_(p)' = Line_(p) /\ Op(p)' = Op(p) /\ Live(p)'
         /\ c.at \in 2 .. Len(Program(Line_(p)))
         /\ Label(p)' = Program(Line_(p))[cmd[p].at + 1]
         /\ \A l : At(p, l)' <=> Label(p)' = l
         /\ \A l : Did(p, l)' <=> (Did(p, l) \/ Label(p) = l)
<1>1. /\ cmd[p].at \in 1 .. Len(Program(Line_(p))) /\ Len(Program(Line_(p))) \in Nat
      /\ cmd[p].at # Len(Program(Line_(p))) /\ Running(p)
  BY Placed
<1>2. c.at \in 2 .. Len(Program(Line_(p))) /\ c.at # Failed
  BY <1>1 DEF Failed
<1>3. /\ Running(p)' /\ cmd'[p] = c /\ Line_(p)' = Line_(p) /\ Op(p)' = Op(p)
      /\ Label(p)' = Program(Line_(p))[c.at]
      /\ Live(p)' <=> c.at # Failed
      /\ \A l : At(p, l)' <=> (c.at # Failed /\ Label(p)' = l)
      /\ \A l : Did(p, l)' <=> Earlier(Program(Line_(p)), l, c.at)
  BY <1>1, Moved
<1>4. ASSUME NEW l
      PROVE  Earlier(Program(Line_(p)), l, c.at) <=> (Did(p, l) \/ Label(p) = l)
  <2>1. \A j : j \in 1 .. c.at - 1 <=> (j \in 1 .. cmd[p].at - 1 \/ j = cmd[p].at)
    BY <1>1
  <2>2. QED
    BY <2>1 DEF Did, Label, Earlier
<1>5. QED
  BY <1>2, <1>3, <1>4

\* p stays where it is.
LEMMA Stayed ==
  ASSUME NEW p \in Process, cmd'[p] = cmd[p]
  PROVE  /\ Running(p)' = Running(p) /\ Line_(p)' = Line_(p) /\ Op(p)' = Op(p)
         /\ Label(p)' = Label(p) /\ Live(p)' = Live(p)
         /\ \A l : At(p, l)' = At(p, l)
         /\ \A l : Did(p, l)' = Did(p, l)
  BY DEF Running, Line_, Op, Label, Live, At, Did

LEMMA AtIsLabel == \A p \in Process : \A l : At(p, l) <=> (Live(p) /\ Label(p) = l)
  BY DEF At, Live, Label

-----------------------------------------------------------------------------
(* Each effect keeps what the invariants say of the process that steps.     *)

OwnOK(p) == CallOK(p) /\ FreshOK(p) /\ ChangeOK(p) /\ AchievedOK(p)

Before == TypeInv /\ CommandTypeOK /\ CallInv /\ FreshInv /\ ChangeInv /\ AchievedInv

\* What Before says of one process.
LEMMA BeforeOwn ==
  ASSUME Before, NEW p \in Process
  PROVE  OwnOK(p) /\ TypeInv /\ CommandTypeOK /\ CallInv
  BY DEF Before, OwnOK, CallInv, FreshInv, ChangeInv, AchievedInv

LEMMA StopsOwn ==
  ASSUME Before, NEW p \in Process, Begins(p) \/ Finishes(p) \/ Fails(p)
  PROVE  OwnOK(p)'
<1>1. OwnOK(p) /\ CommandTypeOK
  BY BeforeOwn
<1>2. CASE Begins(p)
  <2>1. PICK line \in CommandLine :
           cmd' = [cmd EXCEPT ![p] = [line |-> line, at |-> 1, saved |-> {}, read |-> {}]]
    BY <1>2 DEF Begins
  <2> DEFINE c == [line |-> line, at |-> 1, saved |-> {}, read |-> {}]
  <2>2. cmd'[p] = c /\ c \in Command /\ c.line = line /\ c.at = 1 /\ c.saved = {} /\ c.read = {}
    BY <1>1, <2>1 DEF CommandTypeOK, Command
  <2> HIDE DEF c
  <2>3. Len(Program(line)) \in Nat \ {0}
    BY ProgramsHaveLabels DEF ProgramOf
  <2>4. /\ Running(p)' /\ Line_(p)' = line /\ cmd'[p].at = 1 /\ cmd'[p].saved = {}
        /\ \A l : ~Did(p, l)'
    BY <2>2 DEF Running, Line_, Did, Earlier
  <2>5. Idle(p)' /\ ~Open(p)'
    BY <1>1, <1>2 DEF Begins, OwnOK, CallOK, vars, Idle, Open
  <2>6. CallOK(p)'
    BY <2>3, <2>4, <2>5 DEF CallOK, Failed, Idle
  <2>7. FreshOK(p)' /\ ChangeOK(p)'
    BY <2>4, <2>5 DEF FreshOK, ChangeOK
  <2>8. AchievedOK(p)'
    BY <2>4 DEF AchievedOK
  <2>9. QED
    BY <2>6, <2>7, <2>8 DEF OwnOK
<1>3. CASE Finishes(p)
  <2>1. ~Running(p)' /\ Idle(p)' /\ ~Open(p)'
    BY <1>1, <1>3 DEF Finishes, CommandTypeOK, Running, Idle, Open
  <2>2. QED
    BY <2>1 DEF OwnOK, CallOK, FreshOK, ChangeOK, AchievedOK, Live
<1>4. CASE Fails(p)
  <2>1. PICK c \in Command :
           /\ c.line = cmd[p].line /\ c.at = Failed
           /\ c.saved = cmd[p].saved /\ c.read \subseteq cmd[p].read
           /\ cmd' = [cmd EXCEPT ![p] = c]
    BY <1>4 DEF Fails
  <2>2. Running(p) /\ Idle(p)'
    BY <1>4 DEF Fails, Idle
  <2>3. Running(p)' /\ cmd'[p] = c /\ Line_(p)' = Line_(p) /\ Op(p)' = Op(p) /\ ~Live(p)'
    BY <1>1, <2>1, <2>2, Moved
  <2>4. Len(Program(Line_(p))) \in Nat
    BY <1>1, <2>2, Commanded DEF ProgramOf
  <2>5. CallOK(p)'
    BY <1>1, <2>1, <2>2, <2>3, <2>4 DEF OwnOK, CallOK, Failed, Idle
  <2>6. QED
    BY <2>3, <2>5 DEF OwnOK, FreshOK, ChangeOK, AchievedOK
<1>5. QED
  BY <1>2, <1>3, <1>4

\* A restore takes the lock by itself.
LEMMA RestoreNeverRefreshes ==
  ASSUME CommandTypeOK, CallInv, NEW p \in Process, Live(p), Op(p) \notin LockedOps
  PROVE  ~Did(p, "refresh")
<1>1. /\ ProgramOf(Op(p), Program(Line_(p))) /\ cmd[p].at \in 1 .. Len(Program(Line_(p)))
      /\ Len(Program(Line_(p))) \in Nat
  BY Commanded, Placed
<1>2. \A j \in 1 .. cmd[p].at - 1 : j \in 1 .. Len(Program(Line_(p)))
  BY <1>1
<1>3. QED
  BY <1>1, <1>2 DEF ProgramOf, Did, Earlier

LEMMA EntersOwn ==
  ASSUME Before, TypeInv', NEW p \in Process, Enters(p)
  PROVE  OwnOK(p)'
<1>1. OwnOK(p) /\ CommandTypeOK /\ CallInv
  BY BeforeOwn
<1>2. Live(p) /\ cmd' = cmd /\ (At(p, "replace") \/ file' = file) /\ Running(p)
  BY DEF Enters, Live
<1>3. /\ Running(p)' = Running(p) /\ Line_(p)' = Line_(p) /\ Op(p)' = Op(p)
      /\ Label(p)' = Label(p) /\ Live(p)' = Live(p)
      /\ \A l : At(p, l)' = At(p, l)
      /\ \A l : Did(p, l)' = Did(p, l)
  BY <1>2, Stayed
<1>4. \A l : At(p, l) <=> Label(p) = l
  BY <1>2, AtIsLabel
<1>5. /\ Label(p) \in {"open", "unlock", "refresh"} => ~Did(p, "refresh")
      /\ Label(p) \in {"open", "unlock"} => ~Did(p, "open") /\ ~Did(p, "unlock")
      /\ Op(p) # "init" /\ Label(p) \in {"open", "unlock", "refresh", "edit", "save"} =>
            ~Did(p, "save")
      /\ cmd[p].at # Failed
  BY <1>1, <1>2, Placed DEF Live
<1>6. CASE Label(p) = "open" /\ pc'[p] \in {"load", "createLock", "createCheck"} /\ store'[p] = Closed
  BY <1>1, <1>2, <1>3, <1>4, <1>5, <1>6
     DEF OwnOK, CallOK, FreshOK, ChangeOK, AchievedOK, Open, Idle, LockedOps, BodyOps
<1>7. CASE Label(p) = "open" /\ pc'[p] = "check" /\ store'[p] # Closed /\ store'[p].fp = NoFile
  BY <1>1, <1>2, <1>3, <1>4, <1>5, <1>7
     DEF OwnOK, CallOK, FreshOK, ChangeOK, AchievedOK, Open, Creating, Idle, LockedOps, BodyOps
<1>8. CASE /\ Label(p) = "refresh" /\ pc'[p] = "refresh" /\ Open(p)
           /\ store'[p] = [store[p] EXCEPT !.held = TRUE]
  <2> DEFINE s == [store[p] EXCEPT !.held = TRUE]
  <2>1. store[p] \in Store
    BY <1>8, BeforeOwn DEF TypeInv, TypeOK, Open
  <2>2. /\ s \in Store /\ s.fp = store[p].fp /\ s.body = store[p].body
        /\ s.pass = store[p].pass /\ s.rec = store[p].rec
    BY <2>1 DEF Store
  <2> HIDE DEF s
  <2>3. store'[p] = s
    BY <1>8 DEF s
  <2>4. CallOK(p)'
    BY <1>1, <1>2, <1>3, <1>4, <1>5, <1>8, <2>2, <2>3 DEF OwnOK, CallOK, Open, Idle
  <2>5. FreshOK(p)' /\ AchievedOK(p)'
    BY <1>3, <1>4, <1>5, <1>8 DEF FreshOK, AchievedOK, LockedOps, BodyOps
  <2>6. ~Creating(p)' => ~Creating(p)
    BY <2>2, <2>3 DEF Creating
  <2>7. ChangeOK(p)'
    BY <1>1, <1>2, <1>3, <1>4, <1>8, <2>2, <2>3, <2>6 DEF OwnOK, ChangeOK, Untouched
  <2>8. QED
    BY <2>4, <2>5, <2>7 DEF OwnOK
<1>9. CASE /\ store'[p] = store[p]
           /\ \/ /\ Label(p) = "save" \/ (Label(p) = "open" /\ Creating(p))
                 /\ pc'[p] \in {"check", "write"}
              \/ Label(p) = "backup" /\ pc'[p] = "snap"
              \/ Label(p) = "replace" /\ pc'[p] \in {"replaceLock", "replace", "notify"}
  <2>1. /\ Open(p)' = Open(p) /\ Creating(p)' = Creating(p) /\ Holds(p)' = Holds(p)
        /\ Applied(p)' = Applied(p) /\ Untouched(p)' = Untouched(p)
        /\ Achieved(p)' = Achieved(p)
    BY <1>2, <1>3, <1>9 DEF Open, Creating, Holds, Applied, Untouched, Achieved
  <2>2. CallOK(p)'
    BY <1>1, <1>2, <1>3, <1>4, <1>5, <1>9, <2>1 DEF OwnOK, CallOK, Idle
  <2>3. FreshOK(p)'
    <3>1. CASE Label(p) = "replace"
      <4>1. Op(p) \notin LockedOps
        BY <1>1, <1>2, <3>1, Placed DEF LockedOps, BodyOps
      <4>2. QED
        BY <1>1, <1>2, <1>3, <4>1, RestoreNeverRefreshes DEF FreshOK
    <3>2. CASE Label(p) # "replace"
      BY <1>1, <1>2, <1>3, <1>4, <1>9, <2>1, <3>2 DEF OwnOK, FreshOK
    <3>3. QED
      BY <3>1, <3>2
  <2>4. ChangeOK(p)'
    BY <1>1, <1>2, <1>3, <1>9, <2>1 DEF OwnOK, ChangeOK
  <2>5. AchievedOK(p)'
    BY <1>1, <1>2, <1>3, <1>9, <2>1 DEF OwnOK, AchievedOK
  <2>6. QED
    BY <2>2, <2>3, <2>4, <2>5 DEF OwnOK
<1>10. QED
  BY <1>4, <1>6, <1>7, <1>8, <1>9 DEF Enters

LEMMA PassesOwn ==
  ASSUME Before, NEW p \in Process, Passes(p)
  PROVE  OwnOK(p)'
<1>1. OwnOK(p) /\ CommandTypeOK /\ CallInv
  BY BeforeOwn
<1>2. /\ Live(p) /\ store'[p] = store[p] /\ pc'[p] = "idle"
      /\ Label(p) \notin {"open", "unlock", "refresh", "edit", "save", "done"}
      /\ Label(p) # "replace" => file' = file
  BY DEF Passes
<1>3. PICK c \in Command :
         /\ c.line = cmd[p].line /\ c.at = cmd[p].at + 1
         /\ cmd' = [cmd EXCEPT ![p] = c]
         /\ IF Label(p) = "fetch" THEN bundle # NoBundle /\ c.read = {bundle}
                                  ELSE c.read = cmd[p].read
         /\ \/ c.saved = cmd[p].saved
            \/ Label(p) = "backup"
         /\ Label(p) = "verify" =>
               \A x \in Expected(p) : Has(file.body, x.key) /\ file.body[x.key].value = x.value
         /\ Label(p) # "backup" => c.saved = cmd[p].saved
  BY DEF Passes
<1>4. /\ Running(p)' /\ cmd'[p] = c /\ Line_(p)' = Line_(p) /\ Op(p)' = Op(p) /\ Live(p)'
      /\ c.at \in 2 .. Len(Program(Line_(p)))
      /\ Label(p)' = Program(Line_(p))[cmd[p].at + 1]
      /\ \A l : At(p, l)' <=> Label(p)' = l
      /\ \A l : Did(p, l)' <=> (Did(p, l) \/ Label(p) = l)
  BY <1>1, <1>2, <1>3, Advanced
<1>5. /\ cmd[p].at \in Nat /\ Running(p) /\ Len(Program(Line_(p))) \in Nat
      /\ Op(p) # "init"
      /\ Label(p) = "fetch" <=> (Op(p) = "receive" /\ cmd[p].at = 1)
      /\ Label(p) = "backup" => Op(p) # "receive"
      /\ Label(p)' # "save"
      /\ Label(p) = "replace" => Op(p) \notin LockedOps
      /\ Op(p) = "receive" /\ Label(p)' = "done" => Label(p) = "verify"
      /\ Op(p) = "receive" /\ Label(p) = "verify" => Did(p, "refresh")
  BY <1>1, <1>2, <1>4, Placed DEF LockedOps, BodyOps
<1>6. /\ Open(p)' = Open(p) /\ Creating(p)' = Creating(p) /\ Holds(p)' = Holds(p)
      /\ Untouched(p)' = Untouched(p) /\ Achieved(p)' = Achieved(p)
  BY <1>2, <1>4 DEF Open, Creating, Holds, Untouched, Achieved
<1>7. CallOK(p)'
  <2>1. Op(p) = "receive" /\ c.at > 1 => \E b \in c.read : c.read = {b}
    <3>1. CASE Label(p) = "fetch"
      BY <1>3, <3>1
    <3>2. CASE Label(p) # "fetch"
      <4>1. Op(p) = "receive" => cmd[p].at > 1
        BY <1>1, <1>2, <1>5, <3>2, Placed
      <4>2. QED
        BY <1>1, <1>3, <1>5, <3>2, <4>1 DEF OwnOK, CallOK
    <3>3. QED
      BY <3>1, <3>2
  <2>2. c.at \in 0 .. Len(Program(Line_(p))) /\ c.at # Failed
    BY <1>4, <1>5 DEF Failed
  <2>3. Op(p) = "receive" => c.saved \subseteq Pair
    BY <1>1, <1>3, <1>5 DEF OwnOK, CallOK
  <2>4. Did(p, "open")' \/ Did(p, "unlock")' => Open(p)'
    BY <1>1, <1>2, <1>4, <1>5, <1>6 DEF OwnOK, CallOK
  <2>5. QED
    BY <1>2, <1>4, <2>1, <2>2, <2>3, <2>4 DEF CallOK, Idle
<1>8. FreshOK(p)'
  <2>1. Did(p, "refresh")' => Did(p, "refresh")
    BY <1>2, <1>4
  <2>2. CASE Label(p) # "replace"
    BY <1>1, <1>2, <1>6, <2>1, <2>2 DEF OwnOK, FreshOK
  <2>3. CASE Label(p) = "replace"
    <3>1. ~Did(p, "refresh")
      BY <1>1, <1>2, <1>5, <2>3, RestoreNeverRefreshes
    <3>2. QED
      BY <2>1, <3>1 DEF FreshOK
  <2>4. QED
    BY <2>2, <2>3
<1>9. ChangeOK(p)'
  <2>1. ~At(p, "save") /\ ~At(p, "save")'
    BY <1>2, <1>4, <1>5, AtIsLabel
  <2>2. QED
    BY <1>1, <1>2, <1>6, <2>1 DEF OwnOK, ChangeOK
<1>10. AchievedOK(p)'
  <2>1. Op(p) \in LockedOps /\ Did(p, "save")' => Achieved(p)'
    BY <1>1, <1>2, <1>4, <1>6 DEF OwnOK, AchievedOK
  <2>2. ASSUME Op(p) = "receive", Label(p)' = "done"
        PROVE  \A x \in c.saved : /\ Has(store[p].fp.body, x.key)
                                  /\ store[p].fp.body[x.key].value = x.value
    <3>1. Label(p) = "verify" /\ Did(p, "refresh")
      BY <1>5, <2>2
    <3>2. store[p].fp = file
      BY <1>1, <1>2, <3>1 DEF OwnOK, FreshOK
    <3>3. Expected(p) = c.saved
      BY <1>3, <2>2, <3>1 DEF Expected
    <3>4. QED
      BY <1>3, <3>1, <3>2, <3>3
  <2>3. QED
    BY <1>2, <1>4, <2>1, <2>2 DEF AchievedOK
<1>11. QED
  BY <1>7, <1>8, <1>9, <1>10 DEF OwnOK

\* CallOK, of a call that returned to the next one and leaves the store open.
LEMMA ReturnsCallOK ==
  ASSUME Before, NEW p \in Process, Live(p), Label(p) \notin {"done", "fetch"},
         NEW c \in Command, c.line = cmd[p].line, c.at = cmd[p].at + 1,
         c.read = cmd[p].read, Op(p) = "receive" => c.saved \subseteq Pair,
         cmd' = [cmd EXCEPT ![p] = c], pc'[p] = "idle", Open(p)'
  PROVE  CallOK(p)'
<1>1. OwnOK(p) /\ CommandTypeOK /\ CallInv
  BY BeforeOwn
<1>2. /\ Running(p)' /\ cmd'[p] = c /\ Line_(p)' = Line_(p) /\ Op(p)' = Op(p) /\ Live(p)'
      /\ c.at \in 2 .. Len(Program(Line_(p)))
  BY <1>1, Advanced
<1>3. /\ cmd[p].at \in 1 .. Len(Program(Line_(p))) /\ Len(Program(Line_(p))) \in Nat
      /\ Label(p) = "fetch" <=> (Op(p) = "receive" /\ cmd[p].at = 1)
      /\ Running(p)
  BY <1>1, Placed
<1>4. c.at \in 0 .. Len(Program(Line_(p))) /\ c.at # Failed
  BY <1>2, <1>3 DEF Failed
<1>5. Op(p) = "receive" => \E b \in c.read : c.read = {b}
  <2>1. Op(p) = "receive" => cmd[p].at > 1
    BY <1>3
  <2>2. QED
    BY <1>1, <1>3, <2>1 DEF OwnOK, CallOK
<1>6. QED
  BY <1>2, <1>4, <1>5 DEF CallOK, Idle

LEMMA ReadsOwn ==
  ASSUME Before, TypeInv', NEW p \in Process, Opens(p) \/ Refreshes(p)
  PROVE  OwnOK(p)'
<1>1. OwnOK(p) /\ CommandTypeOK /\ CallInv
  BY BeforeOwn
<1>2. /\ Live(p) /\ Label(p) \in {"open", "unlock", "refresh"} /\ file # NoFile /\ file' = file
      /\ pc'[p] = "idle"
  BY DEF Opens, Refreshes
<1>3. PICK c \in Command :
         /\ c.line = cmd[p].line /\ c.at = cmd[p].at + 1
         /\ c.saved = cmd[p].saved /\ c.read = cmd[p].read
         /\ cmd' = [cmd EXCEPT ![p] = c]
  BY DEF Opens, Refreshes, Goes
<1>4. /\ Running(p)' /\ cmd'[p] = c /\ Line_(p)' = Line_(p) /\ Op(p)' = Op(p) /\ Live(p)'
      /\ Label(p)' = Program(Line_(p))[cmd[p].at + 1]
      /\ \A l : At(p, l)' <=> Label(p)' = l
      /\ \A l : Did(p, l)' <=> (Did(p, l) \/ Label(p) = l)
  BY <1>1, <1>2, <1>3, Advanced
<1>5. /\ Running(p)
      /\ ~Did(p, "refresh") /\ (Op(p) # "init" => ~Did(p, "save"))
      /\ Op(p) = "receive" => Label(p)' # "done"
      /\ Label(p)' = "save" => Op(p) = "init"
      /\ Op(p) \in LockedOps => Op(p) # "init"
  BY <1>1, <1>2, <1>4, Placed DEF LockedOps, BodyOps
<1>6. /\ store'[p] \in Store /\ store'[p].fp = file /\ store'[p].body = file.body
      /\ store'[p].pass = file.pass /\ store'[p].rec = file.rec
      /\ Label(p) = "refresh" => store'[p].held
  <2>1. file \in Contents
    BY <1>2, BeforeOwn DEF TypeInv, TypeOK
  <2> DEFINE s == Loaded(file)
  <2>2. /\ s \in Store /\ s.fp = file /\ s.body = file.body /\ s.pass = file.pass
        /\ s.rec = file.rec
    BY <2>1, LoadedType DEF Loaded
  <2> HIDE DEF s
  <2>3. CASE Opens(p)
    BY <2>2, <2>3 DEF Opens, s
  <2>4. CASE Refreshes(p)
    <3> DEFINE t == [s EXCEPT !.dk = store[p].dk, !.held = TRUE]
    <3>1. store[p].dk \in Nat
      BY <2>4, BeforeOwn DEF Refreshes, TypeInv, TypeOK, Open, Store
    <3>2. /\ t \in Store /\ t.fp = s.fp /\ t.body = s.body /\ t.pass = s.pass /\ t.rec = s.rec
          /\ t.held
      BY <2>2, <3>1 DEF Store
    <3>3. store'[p] = t
      BY <2>4 DEF Refreshes, s
    <3> HIDE DEF t
    <3>4. QED
      BY <2>2, <3>2, <3>3
  <2>5. QED
    BY <2>3, <2>4
<1>7. Open(p)' /\ ~Creating(p)'
  BY <1>2, <1>6 DEF Open, Creating
<1>8. CallOK(p)'
  BY <1>1, <1>2, <1>3, <1>5, <1>7, ReturnsCallOK DEF OwnOK, CallOK
<1>9. FreshOK(p)'
  BY <1>2, <1>4, <1>5, <1>6, <1>7 DEF FreshOK, Holds
<1>10. Untouched(p)'
  BY <1>4, <1>6 DEF Untouched
<1>11. Op(p) = "init" => Applied(p)'
  BY <1>4, <1>6 DEF Applied, BodyOps
<1>12. ChangeOK(p)' /\ AchievedOK(p)'
  BY <1>2, <1>4, <1>5, <1>10, <1>11 DEF ChangeOK, AchievedOK
<1>13. QED
  BY <1>8, <1>9, <1>12 DEF OwnOK

LEMMA EditsOwn ==
  ASSUME Before, TypeInv', NEW p \in Process, EditsIt(p)
  PROVE  OwnOK(p)'
<1>1. OwnOK(p) /\ CommandTypeOK /\ CallInv
  BY BeforeOwn
<1>2. Live(p) /\ Label(p) = "edit" /\ Open(p) /\ file' = file /\ pc'[p] = "idle" /\ Running(p)
  BY DEF EditsIt, Live
<1>3. /\ Op(p) \in LockedOps \cup {"init"} /\ cmd[p].at \in 1 .. Len(Program(Line_(p)))
      /\ Len(Program(Line_(p))) \in Nat \ {0}
      /\ Program(Line_(p))[cmd[p].at + 1] = "save"
      /\ Op(p) \in LockedOps => Did(p, "refresh")
      /\ Op(p) # "init" => ~Did(p, "save")
      /\ Op(p) \in LockedOps => Op(p) # "init"
      /\ ~At(p, "save")
  BY <1>1, <1>2, Placed, AtIsLabel DEF LockedOps, BodyOps
<1>4. store[p] \in Store
  BY <1>2, BeforeOwn DEF TypeInv, TypeOK, Open
<1>5. PICK c \in Command :
         /\ c.line = cmd[p].line /\ c.read = cmd[p].read
         /\ cmd' = [cmd EXCEPT ![p] = c]
         /\ \/ /\ c.at = cmd[p].at + 1
               /\ Op(p) # "receive" => c.saved = cmd[p].saved
               /\ \E s \in Store : store'[p] = s /\ EditedTo(p, s, c)
            \/ /\ Op(p) = "receive" /\ c.at = Len(Program(Line_(p))) /\ c.saved = {}
               /\ store'[p] = store[p]
  BY DEF EditsIt
<1>6. ASSUME NEW s \in Store, store'[p] = s, EditedTo(p, s, c), c.at = cmd[p].at + 1,
             Op(p) # "receive" => c.saved = cmd[p].saved
      PROVE  OwnOK(p)'
  <2>1. /\ Running(p)' /\ cmd'[p] = c /\ Line_(p)' = Line_(p) /\ Op(p)' = Op(p) /\ Live(p)'
        /\ Label(p)' = "save"
        /\ \A l : At(p, l)' <=> Label(p)' = l
        /\ \A l : Did(p, l)' <=> (Did(p, l) \/ Label(p) = l)
    BY <1>1, <1>2, <1>3, <1>5, <1>6, Advanced
  <2>2. s.fp = store[p].fp /\ s.held = store[p].held /\ s # Closed
    BY <1>6 DEF EditedTo
  <2>3. Open(p)' /\ Creating(p)' = Creating(p) /\ Holds(p)' = Holds(p)
    BY <1>2, <1>6, <2>2 DEF Open, Creating, Holds
  <2>4. CallOK(p)'
    <3>1. Op(p) = "receive" => c.saved \subseteq Pair
      BY <1>6 DEF EditedTo
    <3>2. QED
      BY <1>2, <1>5, <1>6, <2>3, <3>1, ReturnsCallOK
  <2>5. FreshOK(p)'
    BY <1>1, <1>2, <1>6, <2>1, <2>2, <2>3 DEF OwnOK, FreshOK
  <2>6. ASSUME ~Creating(p)
        PROVE  Applied(p)'
    <3>1. /\ store[p].body = store[p].fp.body /\ store[p].pass = store[p].fp.pass
          /\ Op(p) # "init" => store[p].rec = store[p].fp.rec
      BY <1>1, <1>2, <1>3, <2>6 DEF OwnOK, ChangeOK, Untouched
    <3>2. /\ Op(p) \in BodyOps => CanEdit(s.fp.body, Line_(p)) /\ s.body = Edited(s.fp.body, Line_(p))
          /\ Op(p) = "receive" =>
                \E b \in c.read : ReceivedOver(s.fp.body, s.body, Line_(p), b, c.saved)
          /\ Op(p) \notin BodyOps \cup {"receive"} => s.body = s.fp.body
      BY <1>6, <2>2, <3>1 DEF EditedTo
    <3>3. IF Op(p) = "change-passphrase" THEN s.pass.cred = Line_(p).pass ELSE s.pass = s.fp.pass
      BY <1>6, <2>2, <3>1 DEF EditedTo
    <3>4. IF Op(p) \in {"new-recovery-key", "recover"} THEN s.rec # NoWrap
                                                       ELSE Op(p) # "init" => s.rec = s.fp.rec
      BY <1>3, <1>6, <2>2, <3>1 DEF EditedTo, LockedOps, BodyOps
    <3>5. QED
      BY <1>6, <2>1, <3>2, <3>3, <3>4 DEF Applied
  <2>7. ChangeOK(p)'
    BY <2>1, <2>3, <2>6 DEF ChangeOK
  <2>8. AchievedOK(p)'
    BY <1>2, <1>3, <2>1 DEF AchievedOK
  <2>9. QED
    BY <2>4, <2>5, <2>7, <2>8 DEF OwnOK
<1>7. ASSUME Op(p) = "receive", c.at = Len(Program(Line_(p))), c.saved = {}, store'[p] = store[p]
      PROVE  OwnOK(p)'
  <2>1. Program(Line_(p))[c.at] = "done" /\ c.at # Failed
    BY <1>1, <1>2, <1>3, <1>7, Commanded DEF ProgramOf, Failed
  <2>2. /\ Running(p)' /\ cmd'[p] = c /\ Line_(p)' = Line_(p) /\ Op(p)' = Op(p) /\ Live(p)'
        /\ Label(p)' = "done"
        /\ \A l : At(p, l)' <=> Label(p)' = l
    BY <1>1, <1>2, <1>5, <2>1, Moved
  <2>3. /\ Open(p)' = Open(p) /\ Creating(p)' = Creating(p) /\ Holds(p)' = Holds(p)
        /\ Untouched(p)' = Untouched(p)
    BY <1>7, <2>2 DEF Open, Creating, Holds, Untouched
  <2>4. cmd[p].at > 1 /\ Did(p, "refresh")
    BY <1>1, <1>2, <1>3, <1>7, Placed DEF LockedOps, BodyOps
  <2>5. CallOK(p)'
    <3>1. \E b \in c.read : c.read = {b}
      BY <1>1, <1>2, <1>5, <1>7, <2>4 DEF OwnOK, CallOK
    <3>2. c.at \in 0 .. Len(Program(Line_(p)))
      BY <1>3, <1>7
    <3>3. QED
      BY <1>2, <1>7, <2>1, <2>2, <2>3, <3>1, <3>2 DEF CallOK, Idle
  <2>6. FreshOK(p)' /\ ChangeOK(p)'
    BY <1>1, <1>2, <1>3, <1>7, <2>2, <2>3, <2>4 DEF OwnOK, FreshOK, ChangeOK
  <2>7. AchievedOK(p)'
    BY <1>7, <2>2 DEF AchievedOK, Achieved
  <2>8. QED
    BY <2>5, <2>6, <2>7 DEF OwnOK
<1>8. QED
  BY <1>5, <1>6, <1>7

\* What the edit changed is what the command is to report.
LEMMA AppliedAchieves ==
  ASSUME TypeInv, CommandTypeOK, NEW p \in Process, Running(p), Open(p), ~Creating(p), Applied(p)
  PROVE  Achieved(p)
<1> DEFINE line == Line_(p)
           old  == store[p].fp.body
           new  == store[p].body
<1>1. line \in CommandLine /\ Op(p) = line.op
  BY Commanded
<1>2. old \in Body
  BY DEF TypeInv, TypeOK, Open, Creating, Store, Contents
<1>3. /\ line.op \in BodyOps => CanEdit(old, line) /\ new = Edited(old, line)
      /\ line.op = "change-passphrase" => store[p].pass.cred = line.pass
      /\ line.op \in {"new-recovery-key", "recover"} => store[p].rec # NoWrap
  BY <1>1 DEF Applied
<1> HIDE DEF line, old, new
<1>4. line.op \in BodyOps => line.key \in Key
  BY <1>1, LineFields
<1>5. line.op = "set" => Has(new, line.key) /\ new[line.key].value = line.value
  BY <1>1, <1>2, <1>3, AfterSetType DEF Edited, BodyOps
<1>6. line.op = "delete" => ~Has(new, line.key)
  BY <1>2, <1>3, <1>4 DEF Edited, BodyOps, Delete, Has, Body
<1>7. line.op = "rename" /\ line.key # line.to => Has(new, line.to)
  <2>1. line.op = "rename" => line.to \in Key
    BY <1>1, LineFields
  <2>2. QED
    BY <1>2, <1>3, <1>4, <2>1 DEF Edited, CanEdit, CanRename, BodyOps, Rename, Has, Body
<1>8. ASSUME line.op = "retier"
      PROVE  new[line.key].tier = line.tier
  <2>1. CanRetier(old, line.key, line.tier) /\ new = Retier(old, line.key, line.tier)
    BY <1>3, <1>8 DEF Edited, CanEdit, MayRetier, BodyOps
  <2>2. old[line.key] \in BodyEntry /\ line.key \in Key
    BY <1>2, <1>4, <1>8, <2>1 DEF CanRetier, Has, Body, BodyOps
  <2>3. new[line.key] = [old[line.key] EXCEPT !.tier = line.tier]
    BY <1>2, <2>1, <2>2 DEF Retier, Body
  <2>4. QED
    BY <2>2, <2>3 DEF BodyEntry
<1>9. QED
  BY <1>1, <1>3, <1>5, <1>6, <1>7, <1>8 DEF Achieved, line, new

LEMMA SavesOwn ==
  ASSUME Before, NEW p \in Process, Saves(p)
  PROVE  OwnOK(p)'
<1>1. OwnOK(p) /\ CommandTypeOK /\ CallInv
  BY BeforeOwn
<1>2. /\ Live(p) /\ Running(p) /\ Open(p) /\ pc'[p] = "idle"
      /\ Label(p) = "save" \/ (Label(p) = "open" /\ Creating(p))
      /\ file' = Sealed(store[p])
      /\ store'[p] = [store[p] EXCEPT !.fp = file', !.held = @ /\ ~Creating(p)]
  BY DEF Saves, Live
<1>3. PICK c \in Command :
         /\ c.line = cmd[p].line /\ c.at = cmd[p].at + 1
         /\ c.saved = cmd[p].saved /\ c.read = cmd[p].read
         /\ cmd' = [cmd EXCEPT ![p] = c]
  BY DEF Saves, Goes
<1>4. /\ Running(p)' /\ cmd'[p] = c /\ Line_(p)' = Line_(p) /\ Op(p)' = Op(p) /\ Live(p)'
      /\ Label(p)' = Program(Line_(p))[cmd[p].at + 1]
      /\ \A l : At(p, l)' <=> Label(p)' = l
      /\ \A l : Did(p, l)' <=> (Did(p, l) \/ Label(p) = l)
  BY <1>1, <1>2, <1>3, Advanced
<1>5. /\ Label(p) = "open" => ~Did(p, "refresh")
      /\ Label(p) = "open" /\ Op(p) \in LockedOps => ~Did(p, "save")
      /\ Label(p) = "save" /\ Op(p) \in LockedOps => Did(p, "refresh")
      /\ Op(p) = "receive" => Label(p)' # "done"
      /\ Label(p)' = "save" => Op(p) = "init"
  BY <1>1, <1>2, <1>4, Placed DEF LockedOps, BodyOps
<1> DEFINE s == [store[p] EXCEPT !.fp = file', !.held = @ /\ ~Creating(p)]
<1>6. file' \in Contents /\ file'.body = store[p].body /\ file'.pass = store[p].pass
      /\ file'.rec = store[p].rec
  BY <1>2, BeforeOwn, SealedType DEF TypeInv, TypeOK, Open, Sealed
<1>7. /\ s \in Store /\ s.fp = file' /\ s.held = (store[p].held /\ ~Creating(p))
      /\ s.body = store[p].body /\ s.pass = store[p].pass /\ s.rec = store[p].rec
  <2>1. store[p] \in Store /\ (store[p].held /\ ~Creating(p)) \in BOOLEAN
    BY <1>2, BeforeOwn DEF TypeInv, TypeOK, Open, Creating
  <2>2. QED
    BY <1>6, <2>1 DEF Store
<1>8. store'[p] = s
  BY <1>2
<1> HIDE DEF s
<1>9. Open(p)' /\ ~Creating(p)' /\ (Holds(p)' <=> (Holds(p) /\ ~Creating(p)))
  <2>1. s # Closed /\ file' # NoFile
    BY <1>6, <1>7
  <2>2. QED
    BY <1>2, <1>7, <1>8, <2>1 DEF Open, Creating, Holds
<1>10. CallOK(p)'
  BY <1>1, <1>2, <1>3, <1>9, ReturnsCallOK DEF OwnOK, CallOK
<1>11. FreshOK(p)'
  BY <1>1, <1>2, <1>4, <1>5, <1>7, <1>8, <1>9 DEF OwnOK, FreshOK
<1>12. Untouched(p)'
  BY <1>4, <1>6, <1>7, <1>8 DEF Untouched
<1>13. Op(p) = "init" => Applied(p)'
  BY <1>4, <1>6, <1>7, <1>8 DEF Applied, BodyOps
<1>14. ChangeOK(p)'
  BY <1>4, <1>5, <1>12, <1>13 DEF ChangeOK
<1>15. AchievedOK(p)'
  <2>1. ASSUME Op(p) \in LockedOps, Did(p, "save")'
        PROVE  Achieved(p)'
    <3>1. Label(p) = "save" /\ Did(p, "refresh")
      BY <1>2, <1>4, <1>5, <2>1
    <3>2. Applied(p) /\ ~Creating(p)
      BY <1>1, <1>2, <3>1, AtIsLabel DEF OwnOK, FreshOK, ChangeOK
    <3>3. Achieved(p)
      BY <1>1, <1>2, <3>2, BeforeOwn, AppliedAchieves
    <3>4. QED
      BY <1>4, <1>7, <1>8, <3>3 DEF Achieved
  <2>2. QED
    BY <1>4, <1>5, <2>1 DEF AchievedOK
<1>16. QED
  BY <1>10, <1>11, <1>14, <1>15 DEF OwnOK

LEMMA OwnKept ==
  ASSUME Before, TypeInv', NEW p \in Process, Effect(p)
  PROVE  OwnOK(p)'
  BY StopsOwn, EntersOwn, PassesOwn, ReadsOwn, EditsOwn, SavesOwn DEF Effect

-----------------------------------------------------------------------------
(* A step of p leaves what the invariants say of another process alone: the *)
(* file changes under the lock, and who refreshed its store holds the lock. *)

LEMMA EffectFrame ==
  ASSUME CommandTypeOK, NEW p \in Process, Effect(p)
  PROVE  /\ cmd' \in [Process -> Command \cup {NoCmd}]
         /\ \A q \in Process \ {p} : cmd'[q] = cmd[q]
<1>1. ASSUME NEW c \in Command \cup {NoCmd}, cmd' = [cmd EXCEPT ![p] = c]
      PROVE  /\ cmd' \in [Process -> Command \cup {NoCmd}]
             /\ \A q \in Process \ {p} : cmd'[q] = cmd[q]
  BY <1>1 DEF CommandTypeOK
<1>2. CASE Begins(p)
  <2>1. PICK line \in CommandLine :
           cmd' = [cmd EXCEPT ![p] = [line |-> line, at |-> 1, saved |-> {}, read |-> {}]]
    BY <1>2 DEF Begins
  <2>2. [line |-> line, at |-> 1, saved |-> {}, read |-> {}] \in Command
    BY DEF Command
  <2>3. QED
    BY <1>1, <2>1, <2>2
<1>3. CASE Enters(p)
  BY <1>3 DEF Enters, CommandTypeOK
<1>4. CASE Finishes(p)
  BY <1>1, <1>4 DEF Finishes
<1>5. CASE Fails(p) \/ Passes(p) \/ Opens(p) \/ Refreshes(p) \/ EditsIt(p) \/ Saves(p)
  <2>1. \E c \in Command : cmd' = [cmd EXCEPT ![p] = c]
    BY <1>5 DEF Fails, Passes, Opens, Refreshes, EditsIt, Saves, Goes
  <2>2. QED
    BY <1>1, <2>1
<1>6. QED
  BY <1>2, <1>3, <1>4, <1>5 DEF Effect

LEMMA OthersKept ==
  ASSUME Before, MutexInv, NEW p \in Process, Effect(p), ClientStep(p) \/ UNCHANGED vars,
         NEW q \in Process, q # p
  PROVE  OwnOK(q)'
<1>1. OwnOK(q) /\ TypeInv /\ CommandTypeOK
  BY BeforeOwn
<1>2. store'[q] = store[q] /\ pc'[q] = pc[q] /\ arg'[q] = arg[q] /\ cmd'[q] = cmd[q]
  BY <1>1, ClientFrame, EffectFrame
<1>3. /\ Running(q)' = Running(q) /\ Line_(q)' = Line_(q) /\ Op(q)' = Op(q)
      /\ Label(q)' = Label(q) /\ Live(q)' = Live(q)
      /\ \A l : At(q, l)' = At(q, l)
      /\ \A l : Did(q, l)' = Did(q, l)
  BY <1>2, Stayed
<1>4. /\ Open(q)' = Open(q) /\ Creating(q)' = Creating(q) /\ Holds(q)' = Holds(q)
      /\ Idle(q)' = Idle(q)
      /\ Applied(q)' = Applied(q) /\ Untouched(q)' = Untouched(q) /\ Achieved(q)' = Achieved(q)
  BY <1>2, <1>3 DEF Open, Creating, Holds, Idle, Applied, Untouched, Achieved
<1>5. Holds(q) => file' = file
  <2> SUFFICES ASSUME Holds(q), file' # file
               PROVE  FALSE
    OBVIOUS
  <2>1. pc[p] \in LockedPc
    BY <1>1, OnlySaveAndRestoreWrite DEF LockedPc, vars
  <2>2. QED
    BY <2>1, OneHolder DEF MutexInv
<1>6. CallOK(q)'
  BY <1>1, <1>2, <1>3, <1>4 DEF OwnOK, CallOK
<1>7. FreshOK(q)'
  BY <1>1, <1>2, <1>3, <1>4, <1>5 DEF OwnOK, FreshOK
<1>8. ChangeOK(q)'
  BY <1>1, <1>3, <1>4 DEF OwnOK, ChangeOK
<1>9. AchievedOK(q)'
  BY <1>1, <1>2, <1>3, <1>4 DEF OwnOK, AchievedOK
<1>10. QED
  BY <1>6, <1>7, <1>8, <1>9 DEF OwnOK

\* The bundles that commands read are honest.
LEMMA BundlesKept ==
  ASSUME TypeInv, CommandTypeOK, CallInv, BundleInv, NEW p \in Process, OwnStep(p), Effect(p)
  PROVE  BundleInv'
<1>1. bundle' # NoBundle => Honest(bundle')
  BY EnvStep DEF BundleInv
<1>2. ASSUME NEW q \in Process, Running(q)', NEW b \in cmd'[q].read
      PROVE  Honest(b)
  <2>1. CASE q # p
    <3>1. cmd'[q] = cmd[q]
      BY <2>1, EffectFrame
    <3>2. QED
      BY <1>2, <3>1 DEF BundleInv, Running
  <2>2. CASE q = p
    <3>1. Running(p) => \A x \in cmd[p].read : Honest(x)
      BY DEF BundleInv
    <3>2. CASE Begins(p)
      <4>1. PICK line \in CommandLine :
               cmd' = [cmd EXCEPT ![p] = [line |-> line, at |-> 1, saved |-> {}, read |-> {}]]
        BY <3>2 DEF Begins
      <4>2. cmd'[p].read = {}
        BY <4>1 DEF CommandTypeOK
      <4>3. QED
        BY <1>2, <2>2, <4>2
    <3>3. CASE Finishes(p)
      BY <1>2, <2>2, <3>3 DEF Finishes, CommandTypeOK, Running
    <3>4. CASE Enters(p)
      BY <1>2, <2>2, <3>1, <3>4 DEF Enters, Live
    <3>5. CASE Fails(p) \/ Passes(p) \/ Opens(p) \/ Refreshes(p) \/ EditsIt(p) \/ Saves(p)
      <4>1. PICK c \in Command : /\ cmd' = [cmd EXCEPT ![p] = c]
                                 /\ \/ c.read \subseteq cmd[p].read
                                    \/ bundle # NoBundle /\ c.read = {bundle}
        BY <3>5 DEF Fails, Passes, Opens, Refreshes, EditsIt, Saves, Goes
      <4>2. Running(p)
        BY <3>5 DEF Fails, Passes, Opens, Refreshes, EditsIt, Saves, Live
      <4>3. cmd'[p] = c
        BY <4>1 DEF CommandTypeOK
      <4>4. QED
        BY <1>2, <2>2, <3>1, <4>1, <4>2, <4>3 DEF BundleInv
    <3>6. QED
      BY <3>2, <3>3, <3>4, <3>5 DEF Effect
  <2>3. QED
    BY <2>1, <2>2
<1>3. QED
  BY <1>1, <1>2 DEF BundleInv

-----------------------------------------------------------------------------
(* The invariant, and the refinement of ClientSpec.                         *)

AllInv == TypeInv /\ MutexInv /\ CommandInv

LEMMA CommandsInitInv == CommandsInit => AllInv
<1> SUFFICES ASSUME CommandsInit
             PROVE  AllInv
  OBVIOUS
<1>1. TypeInv /\ MutexInv
  BY TypeInit, MutexInit DEF CommandsInit
<1>2. \A p \in Process : ~Running(p) /\ Idle(p) /\ ~Open(p)
  BY DEF CommandsInit, Init, Running, Idle, Open
<1>3. CommandTypeOK /\ BundleInv
  BY <1>2 DEF CommandsInit, CommandTypeOK, BundleInv
<1>4. CallInv /\ FreshInv /\ ChangeInv /\ AchievedInv
  BY <1>2 DEF CallInv, CallOK, FreshInv, FreshOK, ChangeInv, ChangeOK, AchievedInv, AchievedOK, Live
<1>5. QED
  BY <1>1, <1>3, <1>4 DEF AllInv, CommandInv

\* A step of one command.
LEMMA OwnStepInv ==
  ASSUME AllInv, NEW p \in Process, OwnStep(p)
  PROVE  AllInv' /\ [ClientNext]_vars
<1>1. Before /\ MutexInv /\ TypeInv /\ CommandTypeOK /\ CallInv /\ FreshInv /\ BundleInv
  BY DEF AllInv, CommandInv, Before
<1>2. Effect(p) /\ (ClientStep(p) \/ UNCHANGED vars)
  BY <1>1, Effects, OwnStepIsClient
<1>3. [ClientNext]_vars
  BY <1>2 DEF ClientNext
<1>4. TypeInv' /\ MutexInv'
  BY <1>1, <1>3, TypeNext, MutexNext
<1>5. \A q \in Process : OwnOK(q)'
  BY <1>1, <1>2, <1>4, OwnKept, OthersKept
<1>6. CallInv' /\ FreshInv' /\ ChangeInv' /\ AchievedInv'
  BY <1>5 DEF OwnOK, CallInv, FreshInv, ChangeInv, AchievedInv
<1>7. CommandTypeOK'
  <2>1. /\ menu' = menu /\ clock' = clock
        /\ bundle' = bundle \/ (bundle' \in Bundle /\ Honest(bundle'))
    BY <1>1, EnvStep
  <2>2. cmd' \in [Process -> Command \cup {NoCmd}]
    BY <1>1, <1>2, EffectFrame
  <2>3. QED
    BY <1>1, <2>1, <2>2 DEF CommandTypeOK
<1>8. BundleInv'
  BY <1>1, <1>2, BundlesKept
<1>9. QED
  BY <1>3, <1>4, <1>6, <1>7, <1>8 DEF AllInv, CommandInv

\* A tick, a bundle that arrives, or nothing.
LEMMA EnvStepInv ==
  ASSUME AllInv, Tick \/ TeammateShares \/ UNCHANGED cmdVars
  PROVE  AllInv' /\ [ClientNext]_vars
<1>1. UNCHANGED <<vars, cmd>> /\ menu' = menu
  BY DEF Tick, TeammateShares, cmdVars, vars
<1>2. /\ clock' \in 1 .. MaxClock
      /\ bundle' = bundle \/ (bundle' \in Bundle /\ Honest(bundle'))
  <2>1. CASE Tick
    BY <2>1 DEF Tick, AllInv, CommandInv, CommandTypeOK
  <2>2. CASE TeammateShares
    <3>1. PICK body \in Menu[menu].others, cap \in {{}, {1}, {TIER_USE_ONLY}} :
             bundle' = seal(body, file.dk, cap)
      BY <2>2 DEF TeammateShares
    <3>2. body \in Body /\ clock' = clock
      BY <2>2, <3>1 DEF AllInv, CommandInv, CommandTypeOK, TeammateShares
    <3>3. file.dk \in Nat
      BY <2>2 DEF AllInv, TypeInv, TypeOK, TeammateShares, Contents
    <3>4. cap \in Option(1 .. TIER_MAX)
      BY DEF Option, TIER_MAX, TIER_USE_ONLY
    <3>5. QED
      BY <3>1, <3>2, <3>3, <3>4, SealIsHonest DEF AllInv, CommandInv, CommandTypeOK
  <2>3. CASE UNCHANGED cmdVars
    BY <2>3 DEF cmdVars, AllInv, CommandInv, CommandTypeOK
  <2>4. QED
    BY <2>1, <2>2, <2>3
<1>3. TypeInv' /\ MutexInv' /\ [ClientNext]_vars
  BY <1>1, TypeNext, MutexNext DEF AllInv
<1>4. CommandTypeOK' /\ BundleInv'
  BY <1>1, <1>2 DEF AllInv, CommandInv, CommandTypeOK, BundleInv, Running
<1>5. ASSUME NEW p \in Process
      PROVE  OwnOK(p)'
  <2>1. OwnOK(p)
    BY DEF AllInv, CommandInv, OwnOK, CallInv, FreshInv, ChangeInv, AchievedInv
  <2>2. /\ Running(p)' = Running(p) /\ Line_(p)' = Line_(p) /\ Op(p)' = Op(p)
        /\ Label(p)' = Label(p) /\ Live(p)' = Live(p)
        /\ \A l : At(p, l)' = At(p, l)
        /\ \A l : Did(p, l)' = Did(p, l)
    BY <1>1, Stayed
  <2>3. /\ store' = store /\ pc' = pc /\ file' = file /\ cmd' = cmd
    BY <1>1 DEF vars
  <2>4. /\ Open(p)' = Open(p) /\ Creating(p)' = Creating(p) /\ Holds(p)' = Holds(p)
        /\ Idle(p)' = Idle(p)
        /\ Applied(p)' = Applied(p) /\ Untouched(p)' = Untouched(p) /\ Achieved(p)' = Achieved(p)
    BY <2>2, <2>3 DEF Open, Creating, Holds, Idle, Applied, Untouched, Achieved
  <2>5. QED
    BY <2>1, <2>2, <2>3, <2>4 DEF OwnOK, CallOK, FreshOK, ChangeOK, AchievedOK
<1>6. QED
  BY <1>3, <1>4, <1>5 DEF AllInv, CommandInv, OwnOK, CallInv, FreshInv, ChangeInv, AchievedInv

LEMMA CommandsNextInv == AllInv /\ [CommandsNext]_cmdVars => AllInv' /\ [ClientNext]_vars
  BY OwnStepInv, EnvStepInv DEF CommandsNext, OwnStep

LEMMA CommandsAlways == CommandsSpec => []AllInv
  BY CommandsInitInv, CommandsNextInv, PTL DEF CommandsSpec

\* The program is a client of its store: every command of main.rs, however the
\* processes interleave, are killed, time out or fail at the disk, goes through
\* the methods of VaultStore and edits an open store between two of them.  So
\* what is proved of every client is true of the commands.
THEOREM CommandsAreClients == CommandsSpec => ClientSpec
<1>1. CommandsInit => Init
  BY DEF CommandsInit
<1>2. QED
  BY <1>1, CommandsAlways, CommandsNextInv, PTL DEF CommandsSpec, ClientSpec

\* What is proved of every client of the store, of the commands: the lock, the
\* credentials of the file and of every snapshot, and no lost update hold through
\* every command line, snapshot, timeout, kill and failing disk.
THEOREM CommandsKeepTheStore ==
  CommandsSpec => [](LockInv /\ WriteIsCurrent /\ WrapsOpenBody) /\ NoLostUpdate /\ DataKeyIsStable
<1>1. MutexInv => LockInv /\ WriteIsCurrent
  BY DEF MutexInv
<1>2. KeysInv => WrapsOpenBody
  BY DEF KeysInv
<1>3. QED
  BY <1>1, <1>2, CommandsAreClients, MutexAlways, KeysAlways, ClientsKeepUpdates,
     ClientsKeepTheDataKey, PTL

\* The whole program implements the register of AtomicVault.
THEOREM CommandsImplementAtomicVault == CommandsSpec => Implements
  BY CommandsAreClients, ClientsImplement

-----------------------------------------------------------------------------
(* What a commit does.  The change of a command is the edit of the version  *)
(* that its save replaces, so each property of commits is one of the edits. *)

LEMMA Committed ==
  ASSUME AllInv, [CommandsNext]_cmdVars, NEW p \in Process, Commits(p)
  PROVE  /\ cmd[p] \in Command /\ Line_(p) \in CommandLine /\ Op(p) = Line_(p).op
         /\ file \in Contents /\ store[p] \in Store /\ store[p].fp = file
         /\ Applied(p)
         /\ file'.body = store[p].body /\ file'.pass = store[p].pass /\ file'.rec = store[p].rec
<1>1. /\ Running(p) /\ pc[p] = "write" /\ file # NoFile /\ file' # file
      /\ TypeInv /\ MutexInv /\ CommandTypeOK /\ CallInv /\ ChangeInv
  BY DEF Commits, AllInv, CommandInv
<1>2. /\ Open(p) /\ store[p].fp = file /\ ~Creating(p)
  BY <1>1 DEF TypeInv, ShapeInv, MutexInv, WriteIsCurrent, Creating
<1>3. At(p, "save")
  BY <1>1, <1>2 DEF CallInv, CallOK
<1>4. Applied(p)
  BY <1>1, <1>2, <1>3, LiveAt DEF ChangeInv, ChangeOK
<1>5. file' = Sealed(store[p])
  <2>1. [ClientNext]_vars
    BY CommandsNextInv
  <2>2. PICK q \in Process : ClientStep(q)
    BY <1>1, <2>1 DEF ClientNext, vars
  <2>3. \/ pc[q] = "write" /\ file' = Sealed(store[q])
        \/ pc[q] = "replace"
    BY <1>1, <2>2, OnlySaveAndRestoreWrite
  <2>4. q = p
    BY <1>1, <2>3, OneHolder DEF LockedPc, MutexInv
  <2>5. QED
    BY <1>1, <2>3, <2>4
<1>6. file \in Contents /\ store[p] \in Store
  BY <1>1, <1>2 DEF TypeInv, TypeOK, Open
<1>7. QED
  BY <1>1, <1>2, <1>4, <1>5, <1>6, Commanded DEF Sealed

LEMMA EditedElsewhere ==
  ASSUME NEW b \in Body, NEW line \in CommandLine, line.op \in BodyOps, CanEdit(b, line),
         NEW k \in Key, k # line.key, line.op = "rename" => k # line.to
  PROVE  Edited(b, line)[k] = b[k]
<1>1. line.key \in Key
  BY LineFields
<1>2. CASE line.op = "set"
  BY <1>2, AfterSetType DEF Edited
<1>3. CASE line.op = "delete"
  BY <1>1, <1>3 DEF Edited, Delete, Body
<1>4. CASE line.op = "rename"
  BY <1>1, <1>4, LineFields DEF Edited, Rename, Body
<1>5. CASE line.op = "retier"
  BY <1>1, <1>5, LineFields DEF Edited, Retier, Body
<1>6. QED
  BY <1>2, <1>3, <1>4, <1>5 DEF BodyOps

\* A commit changes the command's own part of the version it replaces, whoever
\* wrote that version: no entry, passphrase or recovery phrase that another process
\* committed after this one opened the vault is taken back.
THEOREM CommitsAreLocal == CommandsSpec => CommitsTouchOnlyTheirPart
<1> DEFINE Local(p) ==
             /\ \A k \in Key \ Touched(p) : file'.body[k] = file.body[k]
             /\ Op(p) # "change-passphrase" => file'.pass = file.pass
             /\ Op(p) \notin {"new-recovery-key", "recover", "init"} => file'.rec = file.rec
<1>1. ASSUME AllInv, [CommandsNext]_cmdVars, NEW p \in Process, Commits(p)
      PROVE  Local(p)
  <2>1. /\ cmd[p] \in Command /\ Line_(p) \in CommandLine /\ Op(p) = Line_(p).op
        /\ file \in Contents /\ store[p] \in Store /\ store[p].fp = file
        /\ Applied(p)
        /\ file'.body = store[p].body /\ file'.pass = store[p].pass /\ file'.rec = store[p].rec
    BY <1>1, Committed
  <2>2. Op(p) # "change-passphrase" => file'.pass = file.pass
    BY <2>1 DEF Applied
  <2>3. Op(p) \notin {"new-recovery-key", "recover", "init"} => file'.rec = file.rec
    BY <2>1 DEF Applied
  <2>4. ASSUME NEW k \in Key, k \notin Touched(p)
        PROVE  file'.body[k] = file.body[k]
    <3>1. file.body \in Body
      BY <2>1 DEF Contents
    <3>2. CASE Op(p) \in BodyOps
      <4>1. CanEdit(file.body, Line_(p)) /\ file'.body = Edited(file.body, Line_(p))
        BY <2>1, <3>2 DEF Applied
      <4>2. k # Line_(p).key /\ (Line_(p).op = "rename" => k # Line_(p).to)
        BY <2>1, <2>4, <3>2 DEF Touched, BodyOps
      <4>3. QED
        BY <2>1, <3>1, <3>2, <4>1, <4>2, EditedElsewhere
    <3>3. CASE Op(p) = "receive"
      <4>1. PICK b \in cmd[p].read :
               ReceivedOver(file.body, file'.body, Line_(p), b, cmd[p].saved)
        BY <2>1, <3>3 DEF Applied
      <4>2. Touched(p) = {x.key : x \in cmd[p].saved}
        BY <2>1, <3>3 DEF Touched
      <4>3. \A v : [key |-> k, value |-> v] \notin cmd[p].saved
        BY <2>4, <4>2
      <4>4. QED
        BY <4>1, <4>3 DEF ReceivedOver
    <3>4. CASE Op(p) \notin BodyOps \cup {"receive"}
      BY <2>1, <3>4 DEF Applied
    <3>5. QED
      BY <3>2, <3>3, <3>4
  <2>5. QED
    BY <2>2, <2>3, <2>4
<1>2. AllInv /\ [CommandsNext]_cmdVars => [\A p \in Process : Commits(p) => Local(p)]_cmdVars
  BY <1>1
<1>3. QED
  BY <1>2, CommandsAlways, PTL DEF CommandsSpec, CommitsTouchOnlyTheirPart

\* `set` without --tier commits the tier that the key has in the version it replaces,
\* and without --rotate its policy: rotating a secret does not retier it, also when
\* another process moved the key after this one opened the vault.
THEOREM SetKeepsTierAndPolicy == CommandsSpec => RotationKeepsTier
<1> DEFINE Kept(p) ==
             LET k   == Line_(p).key
                 old == file.body[k]
                 new == file'.body[k]
             IN  /\ Line_(p).tier = {} /\ old # NoEntry => new.tier = old.tier
                 /\ Line_(p).rotate = {} =>
                        new.rotate = IF old = NoEntry THEN FALSE ELSE old.rotate
<1>1. ASSUME AllInv, [CommandsNext]_cmdVars, NEW p \in Process, Commits(p), Op(p) = "set"
      PROVE  Kept(p)
  <2> DEFINE line == Line_(p)
             b    == file.body
  <2>1. /\ line \in CommandLine /\ line.op = "set" /\ file \in Contents
        /\ file'.body = store[p].body /\ store[p].fp = file /\ Applied(p)
    BY <1>1, Committed
  <2>2. CanEdit(b, line) /\ file'.body = Edited(b, line)
    BY <1>1, <2>1 DEF Applied, BodyOps
  <2>3. file'.body = AfterSet(b, line)
    BY <2>1, <2>2 DEF Edited
  <2>4. b \in Body /\ line.key \in Key
    BY <2>1, LineFields DEF Contents, BodyOps
  <2>5. /\ file'.body[line.key].tier = TierToSet(b, line)
        /\ line.rotate = {} => file'.body[line.key].rotate
                                  = (Has(b, line.key) /\ b[line.key].rotate)
    BY <2>1, <2>2, <2>3, <2>4, AfterSetType
  <2>6. line.tier = {} /\ Has(b, line.key) => TierToSet(b, line) = b[line.key].tier
    BY DEF TierToSet
  <2>7. Has(b, line.key) => b[line.key].rotate \in BOOLEAN
    BY <2>4 DEF Has, Body, BodyEntry
  <2>8. Has(b, line.key) <=> b[line.key] # NoEntry
    BY DEF Has
  <2> HIDE DEF line, b
  <2>9. /\ line.tier = {} /\ b[line.key] # NoEntry => file'.body[line.key].tier = b[line.key].tier
        /\ line.rotate = {} => file'.body[line.key].rotate
               = IF b[line.key] = NoEntry THEN FALSE ELSE b[line.key].rotate
    BY <2>5, <2>6, <2>7, <2>8
  <2>10. QED
    BY <2>9 DEF line, b
<1>2. AllInv /\ [CommandsNext]_cmdVars =>
          [\A p \in Process : Commits(p) /\ Op(p) = "set" => Kept(p)]_cmdVars
  BY <1>1
<1>3. QED
  BY <1>2, CommandsAlways, PTL DEF CommandsSpec, RotationKeepsTier

-----------------------------------------------------------------------------
(* Tier 4.                                                                  *)

LEMMA ReachableBy ==
  ASSUME NEW b, NEW v
  PROVE  v \in Reachable(b) <=>
            \E k \in Key : Has(b, k) /\ b[k].tier < TIER_SIGN_ONLY /\ b[k].value = v
  BY DEF Reachable

LEMMA DeleteReaches ==
  ASSUME NEW b \in Body, NEW k \in Key
  PROVE  Reachable(Delete(b, k)) \subseteq Reachable(b)
<1>1. \A j \in Key : Delete(b, k)[j] = IF j = k THEN NoEntry ELSE b[j]
  BY DEF Delete, Body
<1>2. QED
  BY <1>1, ReachableBy DEF Has

LEMMA RenameReaches ==
  ASSUME NEW b \in Body, NEW k \in Key, NEW l \in Key, CanRename(b, k, l)
  PROVE  Reachable(Rename(b, k, l)) \subseteq Reachable(b)
<1>1. CASE k = l
  BY <1>1 DEF Rename
<1>2. CASE k # l
  <2>1. \A j \in Key : Rename(b, k, l)[j] = IF j = l THEN b[k]
                                             ELSE IF j = k THEN NoEntry ELSE b[j]
    BY <1>2 DEF Rename, Body
  <2>2. QED
    BY <2>1, ReachableBy DEF Has
<1>3. QED
  BY <1>1, <1>2

\* A value moves below tier 4 only from below tier 4.
LEMMA RetierReaches ==
  ASSUME NEW b \in Body, NEW line \in CommandLine, line.op = "retier", MayRetier(b, line)
  PROVE  Reachable(Retier(b, line.key, line.tier)) \subseteq Reachable(b)
<1> DEFINE k   == line.key
           new == Retier(b, k, line.tier)
<1>1. k \in Key /\ line.tier \in Nat
  BY LineFields DEF BodyOps
<1>2. b[k] \in BodyEntry /\ b[k] # NoEntry
  BY <1>1 DEF MayRetier, CanRetier, Has, Body
<1>3. /\ \A j \in Key \ {k} : new[j] = b[j]
      /\ new[k] = [b[k] EXCEPT !.tier = line.tier]
  BY <1>1 DEF Retier, Body
<1>4. new[k].value = b[k].value /\ new[k].tier = line.tier
  BY <1>2, <1>3 DEF BodyEntry
<1>5. line.tier < TIER_SIGN_ONLY => b[k].tier < TIER_SIGN_ONLY
  BY <1>1, <1>2 DEF MayRetier, TIER_SIGN_ONLY, BodyEntry, Tier, TIER_MAX
<1> HIDE DEF new
<1>6. ASSUME NEW v \in Reachable(new)
      PROVE  v \in Reachable(b)
  <2>1. PICK j \in Key : Has(new, j) /\ new[j].tier < TIER_SIGN_ONLY /\ new[j].value = v
    BY ReachableBy
  <2>2. CASE j = k
    BY <1>1, <1>2, <1>4, <1>5, <2>1, <2>2, ReachableBy DEF Has
  <2>3. CASE j # k
    BY <1>3, <2>1, <2>3, ReachableBy DEF Has
  <2>4. QED
    BY <2>2, <2>3
<1>7. QED
  BY <1>6 DEF new

\* No command, and no interleaving of commands, brings a value below tier 4 that
\* was not there before, unless somebody typed it in again or received it: the
\* check of `retier` is made on the version that its save replaces.
THEOREM TierFourStaysShut == CommandsSpec => TierFourIsOneWay
<1> DEFINE Given(p) == CASE Op(p) = "set"     -> {Line_(p).value}
                         [] Op(p) = "receive" -> {x.value : x \in cmd[p].saved}
                         [] OTHER -> {}
<1>1. ASSUME AllInv, [CommandsNext]_cmdVars, NEW p \in Process, Commits(p)
      PROVE  Reachable(file'.body) \subseteq Reachable(file.body) \cup Given(p)
  <2> DEFINE line == Line_(p)
             b    == file.body
             new  == file'.body
  <2>1. /\ line \in CommandLine /\ Op(p) = line.op /\ file \in Contents
        /\ new = store[p].body /\ store[p].fp = file /\ Applied(p)
    BY <1>1, Committed
  <2>2. b \in Body
    BY <2>1 DEF Contents
  <2>3. Op(p) \in BodyOps => CanEdit(b, line) /\ new = Edited(b, line)
    BY <2>1 DEF Applied
  <2>4. Op(p) \in BodyOps => line.key \in Key /\ (Op(p) = "rename" => line.to \in Key)
    BY <2>1, LineFields
  <2>5. CASE Op(p) = "set"
    <3>1. Given(p) = {line.value}
      BY <2>5
    <3>2. line.op = "set" /\ CanEdit(b, line) /\ new = AfterSet(b, line)
      BY <2>1, <2>3, <2>5 DEF Edited, BodyOps
    <3> HIDE DEF Given, new, b, line
    <3>3. /\ \A j \in Key \ {line.key} : new[j] = b[j]
          /\ new[line.key].value = line.value
      BY <2>1, <2>2, <3>2, AfterSetType
    <3>4. Reachable(new) \subseteq Reachable(b) \cup Given(p)
      BY <3>1, <3>3, ReachableBy DEF Has
    <3>5. QED
      BY <3>4 DEF new, b
  <2>6. CASE Op(p) = "receive"
    <3>1. PICK x \in cmd[p].read : ReceivedOver(b, new, line, x, cmd[p].saved)
      BY <2>1, <2>6 DEF Applied
    <3>2. Given(p) = {y.value : y \in cmd[p].saved}
      BY <2>6
    <3>3. ASSUME NEW v \in Reachable(new)
          PROVE  v \in Reachable(b) \cup Given(p)
      <4>1. PICK j \in Key : Has(new, j) /\ new[j].tier < TIER_SIGN_ONLY /\ new[j].value = v
        BY ReachableBy
      <4>2. CASE new[j] = b[j]
        BY <4>1, <4>2, ReachableBy DEF Has
      <4>3. CASE new[j] # b[j]
        <5>1. [key |-> j, value |-> v] \in cmd[p].saved
          BY <3>1, <4>1, <4>3 DEF ReceivedOver
        <5>2. v \in {y.value : y \in cmd[p].saved}
          BY <5>1
        <5> HIDE DEF Given
        <5>3. QED
          BY <3>2, <5>2
      <4>4. QED
        BY <4>2, <4>3
    <3>4. QED
      BY <3>3
  <2>7. CASE Op(p) = "delete"
    BY <2>1, <2>2, <2>3, <2>4, <2>7, DeleteReaches DEF Edited, BodyOps
  <2>8. CASE Op(p) = "rename"
    BY <2>1, <2>2, <2>3, <2>4, <2>8, RenameReaches DEF Edited, CanEdit, BodyOps
  <2>9. CASE Op(p) = "retier"
    BY <2>1, <2>2, <2>3, <2>9, RetierReaches DEF Edited, CanEdit, BodyOps
  <2>10. CASE Op(p) \notin BodyOps \cup {"receive"}
    BY <2>1, <2>10 DEF Applied
  <2>11. QED
    BY <2>5, <2>6, <2>7, <2>8, <2>9, <2>10 DEF BodyOps
<1>2. AllInv /\ [CommandsNext]_cmdVars =>
         [\A p \in Process : Commits(p) =>
             Reachable(file'.body) \subseteq Reachable(file.body) \cup Given(p)]_cmdVars
  BY <1>1, Zenon
<1>3. QED
  BY <1>2, CommandsAlways, PTL DEF CommandsSpec, TierFourIsOneWay

\* What `receive` commits, whatever happened between the two vaults and between its
\* open and its save, was in the sender's vault, not sign-only and not stricter.
THEOREM SharesStayTight == CommandsSpec => SharingNeverLoosens
<1> DEFINE Tight(p) ==
             \A k \in Key : file'.body[k] # file.body[k] =>
                 \E b \in cmd[p].read : \E j \in Key :
                     /\ Has(b.from, j) /\ b.from[j].value = file'.body[k].value
                     /\ b.from[j].tier < TIER_SIGN_ONLY
                     /\ b.from[j].tier <= file'.body[k].tier
<1>1. ASSUME AllInv, [CommandsNext]_cmdVars, NEW p \in Process, Commits(p), Op(p) = "receive"
      PROVE  Tight(p)
  <2>1. /\ file'.body = store[p].body /\ store[p].fp = file /\ Applied(p)
        /\ Running(p) /\ BundleInv
    BY <1>1, Committed DEF Commits, AllInv, CommandInv
  <2>2. PICK b \in cmd[p].read :
           ReceivedOver(file.body, file'.body, Line_(p), b, cmd[p].saved)
    BY <1>1, <2>1 DEF Applied
  <2>3. Honest(b)
    BY <2>1, <2>2 DEF BundleInv
  <2>4. ASSUME NEW k \in Key, file'.body[k] # file.body[k]
        PROVE  \E j \in Key :
                  /\ Has(b.from, j) /\ b.from[j].value = file'.body[k].value
                  /\ b.from[j].tier < TIER_SIGN_ONLY
                  /\ b.from[j].tier <= file'.body[k].tier
    <3>1. PICK j \in Shares(b) : /\ file'.body[k].value = b.items[j].value
                                 /\ file'.body[k].tier = b.items[j].tier
      BY <2>2, <2>4 DEF ReceivedOver
    <3>2. j \in Key
      BY DEF Shares
    <3>3. QED
      BY <2>3, <3>1, <3>2 DEF Honest
  <2>5. QED
    BY <2>2, <2>4
<1>2. AllInv /\ [CommandsNext]_cmdVars =>
         [\A p \in Process : Commits(p) /\ Op(p) = "receive" => Tight(p)]_cmdVars
  BY <1>1
<1>3. QED
  BY <1>2, CommandsAlways, PTL DEF CommandsSpec, SharingNeverLoosens

-----------------------------------------------------------------------------
(* Reports.                                                                 *)

LEMMA DoneIsStored ==
  ASSUME AllInv, NEW p \in Process, At(p, "done"), Op(p) \in LockedOps
  PROVE  /\ file # NoFile /\ Live(p)
         /\ Op(p) # "receive" =>
               /\ Achieved(p)
               /\ store[p].body = file.body /\ store[p].pass = file.pass
               /\ store[p].rec = file.rec
         /\ Op(p) = "receive" => store[p].fp = file
<1>1. CommandTypeOK /\ CallInv /\ FreshInv /\ ChangeInv /\ AchievedInv
  BY DEF AllInv, CommandInv
<1>2. Live(p) /\ Label(p) = "done" /\ ~At(p, "save")
  BY <1>1, LiveAt, AtIsLabel
<1>3. Did(p, "refresh") /\ (Op(p) # "receive" => Did(p, "save"))
  BY <1>1, <1>2, Placed
<1>4. Open(p) /\ ~Creating(p) /\ store[p].fp = file
  BY <1>1, <1>2, <1>3 DEF FreshInv, FreshOK, Holds
<1>5. Untouched(p)
  BY <1>1, <1>2, <1>4 DEF ChangeInv, ChangeOK
<1>6. Op(p) # "receive" => Achieved(p)
  BY <1>1, <1>2, <1>3 DEF AchievedInv, AchievedOK
<1>7. QED
  BY <1>2, <1>4, <1>5, <1>6 DEF Creating, Untouched, LockedOps, BodyOps

LEMMA ReportsHold == AllInv /\ KeysInv => ReportIsTrue
<1> SUFFICES ASSUME AllInv, KeysInv, NEW p \in Process, At(p, "done")
             PROVE
        LET line == Line_(p) IN
        /\ Op(p) = "set" => /\ Has(file.body, line.key)
                            /\ file.body[line.key].value = line.value
        /\ Op(p) = "receive" => \A x \in cmd[p].saved : /\ Has(file.body, x.key)
                                                        /\ file.body[x.key].value = x.value
        /\ Op(p) = "delete" => ~Has(file.body, line.key)
        /\ Op(p) = "rename" /\ line.key # line.to => Has(file.body, line.to)
        /\ Op(p) = "retier" => file.body[line.key].tier = line.tier
        /\ Op(p) = "change-passphrase" => file.pass.cred = line.pass
        /\ Op(p) \in {"new-recovery-key", "recover"} =>
               Unwraps(file.rec, store[p].rec.cred, file)
  BY DEF ReportIsTrue
<1>1. Op(p) \in LockedOps =>
        /\ file # NoFile /\ Live(p)
        /\ Op(p) # "receive" =>
              /\ Achieved(p)
              /\ store[p].body = file.body /\ store[p].pass = file.pass
              /\ store[p].rec = file.rec
        /\ Op(p) = "receive" => store[p].fp = file
  BY DoneIsStored
<1>2. CASE Op(p) \in BodyOps
  BY <1>1, <1>2 DEF Achieved, LockedOps, BodyOps
<1>3. CASE Op(p) = "receive"
  <2>1. Live(p) /\ store[p].fp = file
    BY <1>1, <1>3 DEF LockedOps
  <2>2. \A x \in cmd[p].saved : /\ Has(store[p].fp.body, x.key)
                                /\ store[p].fp.body[x.key].value = x.value
    BY <1>3, <2>1 DEF AllInv, CommandInv, AchievedInv, AchievedOK
  <2>3. QED
    BY <1>3, <2>1, <2>2
<1>4. CASE Op(p) = "change-passphrase"
  BY <1>1, <1>4 DEF Achieved, LockedOps
<1>5. CASE Op(p) \in {"new-recovery-key", "recover"}
  <2>1. /\ file # NoFile /\ store[p].rec # NoWrap /\ file.rec = store[p].rec
    BY <1>1, <1>5 DEF Achieved, LockedOps
  <2>2. file.rec.dk = file.dk
    BY <2>1 DEF KeysInv, WrapsOpenBody, Coherent
  <2>3. Unwraps(file.rec, store[p].rec.cred, file)
    BY <2>1, <2>2 DEF Unwraps
  <2>4. QED
    BY <1>5, <2>3
<1>6. QED
  BY <1>2, <1>3, <1>4, <1>5 DEF BodyOps

\* What a command reports is in the file at that moment, whatever other processes
\* did between its steps: the value `set` and `receive` stored, the entry `delete`
\* removed, the new name, tier and passphrase, the recovery phrase that opens.
THEOREM ReportsAreTrue == CommandsSpec => []ReportIsTrue
  BY ReportsHold, CommandsAlways, CommandsAreClients, KeysAlways, PTL

-----------------------------------------------------------------------------
(* The snapshot of `delete`.  The name of a snapshot is looked up before it *)
(* is written, and `backup` and `restore` do both without a lock: they may  *)
(* take the name that a `delete` has looked up.  Where these two do not run *)
(* beside it, every snapshot is taken under the lock.                       *)

OnlyDeletesCopy ==
    \A m \in DOMAIN Menu : \A line, other \in Menu[m].lines :
        line.op = "delete" => other.op \notin {"backup", "restore"}

LinesInv == \A p \in Process : Running(p) => Line_(p) \in Menu[menu].lines

SnapshotOK(p) ==
    Live(p) /\ Op(p) = "delete" =>
        /\ pc[p] = "snap" => arg[p].bytes = store[p].fp
        /\ cmd[p].saved # {} => Did(p, "backup")
        /\ \A n \in cmd[p].saved : n \in Name /\ (Did(p, "save") \/ snapshot[n] = store[p].fp)

SnapshotInv == \A p \in Process : SnapshotOK(p)

LEMMA DeletePlaced ==
  ASSUME CommandTypeOK, CallInv, NEW p \in Process, Live(p), Op(p) = "delete"
  PROVE  /\ Label(p) = "backup" => Did(p, "refresh") /\ ~Did(p, "backup")
         /\ Did(p, "backup") => Did(p, "refresh")
<1> DEFINE P == Program(Line_(p))
           i == cmd[p].at
<1>1. ProgramOf("delete", P) /\ i \in 1 .. Len(P) /\ Len(P) \in Nat
  BY Placed, Commanded DEF Live
<1>2. \A j \in 1 .. Len(P) : P[j] = "backup" =>
         Earlier(P, "refresh", j) /\ \A k \in 1 .. Len(P) : P[k] = "backup" => k = j
  BY <1>1 DEF ProgramOf
<1> HIDE DEF P, i
<1>3. P[i] = "backup" => Earlier(P, "refresh", i) /\ ~Earlier(P, "backup", i)
  BY <1>1, <1>2 DEF Earlier
<1>4. Earlier(P, "backup", i) => Earlier(P, "refresh", i)
  BY <1>1, <1>2 DEF Earlier
<1>5. QED
  BY <1>3, <1>4 DEF Label, Did, P, i

LEMMA SnapshotsChange ==
  ASSUME TypeInv, NEW p \in Process, ClientStep(p) \/ UNCHANGED vars, snapshot' # snapshot
  PROVE  pc[p] = "snap" /\ pc'[p] = "idle"
<1>1. ~ UNCHANGED vars
  BY DEF vars
<1>2. ~ ClientOpenStep(p)
  BY DEF ClientOpenStep, OpenAtWithPassphrase, load_v2, CreateLock, CreateYields, create_new, MintStore,
         OpenAtWithMnemonic
<1>3. ~ (EditStep(p) \/ Drop(p) \/ Crash(p))
  BY DEF EditStep, Drop, Crash
<1>4. ~ SaveStep(p)
  BY DEF SaveStep, lock_and_refresh, RefreshRead, save, SaveCheck, SaveRefused,
         SaveWrite, SaveFails, SaveFailsLate
<1>5. BackupWrite(p) \/ BackupFails(p)
  BY <1>1, <1>2, <1>3, <1>4 DEF ClientStep, CopyStep, BackupRead, RestoreRead, RestoreLock,
         RestoreWrite, RestoreFails, RestoreReturns
<1>6. QED
  BY <1>5 DEF BackupWrite, BackupFails, Goto, TypeInv, TypeOK

\* A snapshot of the command's own.
LEMMA OwnSnapshot ==
  ASSUME AllInv, SnapshotInv, NEW p \in Process, Effect(p), ClientStep(p) \/ UNCHANGED vars
  PROVE  SnapshotOK(p)'
<1>1. TypeInv /\ CommandTypeOK /\ CallInv /\ FreshInv /\ SnapshotOK(p) /\ CallOK(p) /\ FreshOK(p)
  BY DEF AllInv, CommandInv, CallInv, FreshInv, SnapshotInv
<1>2. snapshot' # snapshot => pc[p] = "snap" /\ pc'[p] = "idle"
  BY <1>1, SnapshotsChange
<1>3. Live(p) /\ Op(p) = "delete" /\ Label(p) \in {"open", "unlock", "refresh"} => cmd[p].saved = {}
  BY <1>1, DeletePlaced, Placed DEF SnapshotOK
<1>4. CASE Begins(p)
  <2>1. PICK line \in CommandLine :
           cmd' = [cmd EXCEPT ![p] = [line |-> line, at |-> 1, saved |-> {}, read |-> {}]]
    BY <1>4 DEF Begins
  <2>2. cmd'[p].saved = {} /\ pc'[p] = "idle"
    BY <1>1, <1>4, <2>1 DEF Begins, CommandTypeOK, CallOK, Idle, vars
  <2>3. QED
    BY <2>2 DEF SnapshotOK
<1>5. CASE Finishes(p)
  BY <1>1, <1>5 DEF Finishes, CommandTypeOK, SnapshotOK, Live, Running
<1>6. CASE Fails(p)
  BY <1>1, <1>6 DEF Fails, CommandTypeOK, SnapshotOK, Live
<1>7. CASE Enters(p)
  <2>1. /\ cmd' = cmd /\ (At(p, "replace") \/ file' = file) /\ snapshot' = snapshot
        /\ Live(p) /\ pc'[p] # "idle"
    BY <1>2, <1>7 DEF Enters
  <2>2. /\ Line_(p)' = Line_(p) /\ Op(p)' = Op(p) /\ Live(p)' = Live(p)
        /\ \A l : Did(p, l)' = Did(p, l)
    BY <2>1, Stayed
  <2> SUFFICES ASSUME Op(p) = "delete"
               PROVE  SnapshotOK(p)'
    BY <2>2 DEF SnapshotOK
  <2>3. CASE Label(p) \in {"open", "refresh"}
    <3>1. pc'[p] # "snap"
      BY <1>7, <2>3, AtIsLabel DEF Enters
    <3>2. QED
      BY <1>3, <2>1, <2>3, <3>1 DEF SnapshotOK
  <2>4. CASE Label(p) = "save"
    <3>1. pc'[p] # "snap" /\ store'[p] = store[p]
      BY <1>7, <2>4, AtIsLabel DEF Enters
    <3>2. QED
      BY <1>1, <2>1, <2>2, <3>1 DEF SnapshotOK
  <2>5. CASE Label(p) = "backup"
    <3>1. arg'[p].bytes = file /\ store'[p] = store[p]
      BY <1>7, <2>5, AtIsLabel DEF Enters
    <3>2. Did(p, "refresh") /\ ~Did(p, "backup")
      BY <1>1, <2>1, <2>5, DeletePlaced
    <3>3. store[p].fp = file /\ cmd[p].saved = {}
      BY <1>1, <2>1, <3>2 DEF FreshOK, SnapshotOK
    <3>4. QED
      BY <2>1, <3>1, <3>3 DEF SnapshotOK
  <2>6. Label(p) # "replace"
    BY <1>1, <2>1, Placed
  <2>7. QED
    BY <1>7, <2>3, <2>4, <2>5, <2>6, AtIsLabel DEF Enters
<1>8. CASE Passes(p)
  <2>1. PICK c \in Command :
           /\ c.line = cmd[p].line /\ c.at = cmd[p].at + 1
           /\ cmd' = [cmd EXCEPT ![p] = c]
           /\ \/ c.saved = cmd[p].saved
              \/ /\ Label(p) = "backup" /\ pc[p] = "snap" /\ c.saved = {arg[p].name}
                 /\ snapshot' = WithCopy(p)
    BY <1>8 DEF Passes
  <2>2. Live(p) /\ Label(p) # "done" /\ store'[p] = store[p] /\ pc'[p] = "idle"
    BY <1>8 DEF Passes
  <2>3. /\ cmd'[p] = c /\ Op(p)' = Op(p)
        /\ \A l : Did(p, l)' <=> (Did(p, l) \/ Label(p) = l)
    BY <1>1, <2>1, <2>2, Advanced
  <2> SUFFICES ASSUME Op(p) = "delete"
               PROVE  SnapshotOK(p)'
    BY <2>3 DEF SnapshotOK
  <2>4. CASE c.saved = cmd[p].saved
    <3>1. snapshot' # snapshot => cmd[p].saved = {}
      <4> SUFFICES ASSUME snapshot' # snapshot
                   PROVE  cmd[p].saved = {}
        OBVIOUS
      <4>1. Running(p) /\ At(p, "backup")
        BY <1>1, <1>2, <2>2 DEF CallOK, Live
      <4>2. ~Did(p, "backup")
        BY <1>1, <2>2, <4>1, AtIsLabel, DeletePlaced
      <4>3. QED
        BY <1>1, <2>2, <4>2 DEF SnapshotOK
    <3>2. QED
      BY <1>1, <2>2, <2>3, <2>4, <3>1 DEF SnapshotOK
  <2>5. CASE /\ Label(p) = "backup" /\ pc[p] = "snap" /\ c.saved = {arg[p].name}
             /\ snapshot' = WithCopy(p)
    <3>1. arg[p] \in CopyOf /\ snapshot \in [Name -> Contents \cup {NoFile}]
      BY <1>1, <2>5 DEF TypeInv, TypeOK, ShapeInv
    <3>2. arg[p].name \in Name
      BY <3>1 DEF CopyOf
    <3>3. snapshot'[arg[p].name] = arg[p].bytes
      BY <2>5, <3>1, <3>2 DEF WithCopy
    <3>4. arg[p].bytes = store[p].fp
      BY <1>1, <2>2, <2>5 DEF SnapshotOK
    <3>5. QED
      BY <2>2, <2>3, <2>5, <3>2, <3>3, <3>4 DEF SnapshotOK
  <2>6. QED
    BY <2>1, <2>4, <2>5
<1>9. CASE Opens(p) \/ Refreshes(p)
  <2>1. Live(p) /\ Label(p) \in {"open", "unlock", "refresh"} /\ pc'[p] = "idle"
    BY <1>9 DEF Opens, Refreshes
  <2>2. PICK c \in Command : /\ c.line = cmd[p].line /\ c.at = cmd[p].at + 1
                             /\ c.saved = cmd[p].saved /\ cmd' = [cmd EXCEPT ![p] = c]
    BY <1>9 DEF Opens, Refreshes, Goes
  <2>3. cmd'[p].saved = cmd[p].saved /\ Op(p)' = Op(p)
    BY <1>1, <2>1, <2>2, Advanced
  <2>4. QED
    BY <1>3, <2>1, <2>3 DEF SnapshotOK
<1>10. CASE EditsIt(p)
  <2> SUFFICES ASSUME Op(p)' = "delete"
               PROVE  SnapshotOK(p)'
    BY DEF SnapshotOK
  <2>1. Live(p) /\ Label(p) = "edit" /\ pc'[p] = "idle" /\ snapshot' = snapshot
    BY <1>2, <1>10 DEF EditsIt, Idle
  <2>2. PICK c \in Command :
           /\ c.line = cmd[p].line /\ cmd' = [cmd EXCEPT ![p] = c]
           /\ \/ /\ c.at = cmd[p].at + 1
                 /\ Op(p) # "receive" => c.saved = cmd[p].saved
                 /\ \E s \in Store : store'[p] = s /\ EditedTo(p, s, c)
              \/ Op(p) = "receive"
    BY <1>10 DEF EditsIt
  <2>3. Op(p) = "delete"
    BY <1>1, <2>1, <2>2, Moved DEF Live
  <2>4. store'[p].fp = store[p].fp /\ c.saved = cmd[p].saved /\ c.at = cmd[p].at + 1
    BY <2>2, <2>3 DEF EditedTo
  <2>5. /\ cmd'[p] = c
        /\ \A l : Did(p, l)' <=> (Did(p, l) \/ Label(p) = l)
    BY <1>1, <2>1, <2>2, <2>4, Advanced
  <2>6. QED
    BY <1>1, <2>1, <2>3, <2>4, <2>5 DEF SnapshotOK
<1>11. CASE Saves(p)
  <2>1. Live(p) /\ Label(p) \in {"save", "open"} /\ pc'[p] = "idle" /\ pc[p] = "write"
    BY <1>11 DEF Saves
  <2>2. PICK c \in Command : /\ c.line = cmd[p].line /\ c.at = cmd[p].at + 1
                             /\ c.saved = cmd[p].saved /\ cmd' = [cmd EXCEPT ![p] = c]
    BY <1>11 DEF Saves, Goes
  <2>3. /\ cmd'[p] = c /\ Op(p)' = Op(p)
        /\ \A l : Did(p, l)' <=> (Did(p, l) \/ Label(p) = l)
    BY <1>1, <2>1, <2>2, Advanced
  <2>4. QED
    BY <1>1, <1>3, <2>1, <2>2, <2>3 DEF SnapshotOK
<1>12. QED
  BY <1>4, <1>5, <1>6, <1>7, <1>8, <1>9, <1>10, <1>11 DEF Effect

\* The snapshot of another command.
LEMMA OtherSnapshots ==
  ASSUME OnlyDeletesCopy, AllInv, SnapshotInv, LinesInv, NEW p \in Process, Effect(p),
         ClientStep(p) \/ UNCHANGED vars, NEW q \in Process, q # p
  PROVE  SnapshotOK(q)'
<1>1. TypeInv /\ LockInv /\ CommandTypeOK /\ CallInv /\ FreshInv /\ SnapshotOK(q)
  BY DEF AllInv, MutexInv, CommandInv, SnapshotInv
<1>2. cmd'[q] = cmd[q] /\ store'[q] = store[q] /\ pc'[q] = pc[q] /\ arg'[q] = arg[q]
  BY <1>1, EffectFrame, ClientFrame
<1>3. /\ Op(q)' = Op(q) /\ Live(q)' = Live(q)
      /\ \A l : Did(q, l)' = Did(q, l)
  BY <1>2, Stayed
<1>4. ASSUME snapshot' # snapshot, Live(q), Op(q) = "delete"
      PROVE  cmd[q].saved = {}
  <2>1. pc[p] = "snap"
    BY <1>1, <1>4, SnapshotsChange
  <2>2. Running(p) /\ At(p, "backup") /\ Live(p) /\ Label(p) = "backup"
    BY <1>1, <2>1, LiveAt DEF CallInv, CallOK, Idle
  <2>3. Op(p) \in {"delete", "backup", "restore"}
    BY <1>1, <2>2, Placed
  <2>4. Op(p) = "delete"
    BY <1>1, <1>4, <2>2, <2>3 DEF OnlyDeletesCopy, LinesInv, CommandTypeOK, Live, Op, Line_
  <2>5. Holds(p)
    BY <1>1, <2>2, <2>4, DeletePlaced DEF FreshInv, FreshOK
  <2>6. ~Holds(q)
    BY <1>1, <2>5, OneHolder
  <2>7. ~Did(q, "backup")
    BY <1>1, <1>4, <2>6, DeletePlaced DEF FreshInv, FreshOK
  <2>8. QED
    BY <1>1, <1>4, <2>7 DEF SnapshotOK
<1>5. QED
  BY <1>1, <1>2, <1>3, <1>4 DEF SnapshotOK

LEMMA LinesKept ==
  ASSUME AllInv, LinesInv, [CommandsNext]_cmdVars
  PROVE  LinesInv'
<1>1. CommandTypeOK
  BY DEF AllInv, CommandInv
<1>2. CASE \E p \in Process : OwnStep(p)
  <2>1. PICK p \in Process : OwnStep(p)
    BY <1>2
  <2>2. menu' = menu /\ Effect(p)
    BY <2>1, EnvStep, Effects DEF AllInv, CommandInv
  <2>3. \A q \in Process \ {p} : cmd'[q] = cmd[q]
    BY <1>1, <2>2, EffectFrame
  <2>4. Running(p)' => Line_(p)' \in Menu[menu].lines
    <3>1. CASE Begins(p)
      <4>1. PICK line \in Menu[menu].lines :
               cmd' = [cmd EXCEPT ![p] = [line |-> line, at |-> 1, saved |-> {}, read |-> {}]]
        BY <3>1 DEF Begins
      <4>2. cmd'[p].line = line
        BY <1>1, <4>1 DEF CommandTypeOK
      <4>3. QED
        BY <4>2 DEF Line_
    <3>2. CASE Finishes(p)
      BY <1>1, <3>2 DEF Finishes, CommandTypeOK, Running
    <3>3. CASE Enters(p)
      BY <3>3 DEF Enters, Live, LinesInv, Line_, Running
    <3>4. CASE Fails(p) \/ Passes(p) \/ Opens(p) \/ Refreshes(p) \/ EditsIt(p) \/ Saves(p)
      <4>1. PICK c \in Command : c.line = cmd[p].line /\ cmd' = [cmd EXCEPT ![p] = c]
        BY <3>4 DEF Fails, Passes, Opens, Refreshes, EditsIt, Saves, Goes
      <4>2. Running(p)
        BY <3>4 DEF Fails, Passes, Opens, Refreshes, EditsIt, Saves, Live
      <4>3. cmd'[p] = c
        BY <1>1, <4>1 DEF CommandTypeOK
      <4>4. QED
        BY <4>1, <4>2, <4>3 DEF LinesInv, Line_
    <3>5. QED
      BY <2>2, <3>1, <3>2, <3>3, <3>4 DEF Effect
  <2>5. QED
    BY <2>2, <2>3, <2>4 DEF LinesInv, Running, Line_
<1>3. CASE Tick \/ TeammateShares \/ UNCHANGED cmdVars
  BY <1>3 DEF Tick, TeammateShares, cmdVars, LinesInv, Running, Line_
<1>4. QED
  BY <1>2, <1>3 DEF CommandsNext, OwnStep

LEMMA SnapshotsKept ==
  ASSUME OnlyDeletesCopy, AllInv, SnapshotInv, LinesInv, [CommandsNext]_cmdVars
  PROVE  SnapshotInv' /\ LinesInv'
<1>1. CASE \E p \in Process : OwnStep(p)
  <2>1. PICK p \in Process : OwnStep(p)
    BY <1>1
  <2>2. Effect(p) /\ (ClientStep(p) \/ UNCHANGED vars)
    BY <2>1, Effects, OwnStepIsClient DEF AllInv, CommandInv
  <2>3. \A q \in Process : SnapshotOK(q)'
    BY <2>2, OwnSnapshot, OtherSnapshots
  <2>4. QED
    BY <2>3, LinesKept DEF SnapshotInv
<1>2. CASE Tick \/ TeammateShares \/ UNCHANGED cmdVars
  <2>1. UNCHANGED <<vars, cmd>>
    BY <1>2 DEF Tick, TeammateShares, cmdVars, vars
  <2>2. ASSUME NEW p \in Process
        PROVE  SnapshotOK(p)'
    <3>1. SnapshotOK(p)
      BY DEF SnapshotInv
    <3>2. /\ Op(p)' = Op(p) /\ Live(p)' = Live(p)
          /\ \A l : Did(p, l)' = Did(p, l)
      BY <2>1, Stayed
    <3>3. QED
      BY <2>1, <3>1, <3>2 DEF SnapshotOK, vars
  <2>3. QED
    BY <2>2, LinesKept DEF SnapshotInv
<1>3. QED
  BY <1>1, <1>2 DEF CommandsNext, OwnStep

\* Where `backup` and `restore` do not run beside a `delete`, every snapshot that a
\* `delete` reports holds the entry it removes, whatever was stored since it opened
\* the vault: it is taken after the refresh, under the lock.  (Beside them it need
\* not: they take the name of a snapshot without the lock.)
THEOREM DeletedEntriesAreCopied ==
  ASSUME OnlyDeletesCopy
  PROVE  CommandsSpec => ReportedSnapshotHoldsEntry
<1> DEFINE Copied(p) == \A n \in cmd[p].saved :
                            snapshot[n].body[Line_(p).key] = file.body[Line_(p).key]
           Inv == AllInv /\ SnapshotInv /\ LinesInv
<1>1. CommandsInit => SnapshotInv /\ LinesInv
  BY DEF CommandsInit, SnapshotInv, SnapshotOK, LinesInv, Live, Running
<1>2. Inv /\ [CommandsNext]_cmdVars => Inv'
  BY CommandsNextInv, SnapshotsKept
<1>3. ASSUME Inv, [CommandsNext]_cmdVars, NEW p \in Process, Commits(p), Op(p) = "delete"
      PROVE  Copied(p)
  <2>1. /\ Running(p) /\ pc[p] = "write" /\ file # NoFile
        /\ TypeInv /\ MutexInv /\ CommandTypeOK /\ CallInv
    BY <1>3 DEF Commits, AllInv, CommandInv
  <2>2. store[p].fp = file /\ ~Creating(p)
    BY <2>1 DEF MutexInv, WriteIsCurrent, Creating
  <2>3. At(p, "save")
    BY <2>1, <2>2 DEF CallInv, CallOK
  <2>4. Live(p) /\ ~Did(p, "save")
    BY <1>3, <2>1, <2>3, LiveAt, Placed
  <2>5. \A n \in cmd[p].saved : snapshot[n] = store[p].fp
    BY <1>3, <2>4 DEF SnapshotInv, SnapshotOK
  <2>6. QED
    BY <2>2, <2>5
<1>4. Inv /\ [CommandsNext]_cmdVars =>
         [\A p \in Process : Commits(p) /\ Op(p) = "delete" => Copied(p)]_cmdVars
  BY <1>3
<1>5. QED
  BY <1>1, <1>2, <1>4, CommandsInitInv, PTL DEF CommandsSpec, ReportedSnapshotHoldsEntry
=============================================================================
