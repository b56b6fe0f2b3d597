------------------------- MODULE VaultMigrationProofs -------------------------
(***************************************************************************)
(* Theorems about VaultMigration, for every number of processes and of     *)
(* power failures, on Unix and on Windows.                                 *)
(***************************************************************************)
EXTENDS VaultMigration, TLAPS

-----------------------------------------------------------------------------
(* The invariants.                                                         *)

\* The program of a write and its length.
Calls(how) == IF how = "plain" THEN 2 ELSE 5

Fresh(p) == [ver |-> 2, dk |-> p, entries |-> {}]

\* A write is the one that its process is at, of what it has in memory.
WriteOK(p) ==
    LET w == writing[p] IN
    /\ w.at \in 1 .. Calls(w.how)
    /\ \/ pc[p] = "bak" /\ w.how = "plain" /\ w.path = V1Bak /\ w.bytes = view[p]
       \/ /\ pc[p] = "rewrite" /\ w.how = "plain" /\ w.path = PathOf(p)
          /\ w.bytes = [view[p] EXCEPT !.ver = 2, !.dk = p]
       \/ /\ pc[p] = "create" /\ w.how = "private" /\ w.path = PathOf(p)
          /\ w.bytes = view[p] /\ view[p] = Fresh(p)
       \/ /\ pc[p] = "save" /\ w.how = "private" /\ w.path = PathOf(p)
          /\ w.bytes = [view[p] EXCEPT !.entries = @ \cup {p}]

\* The places of each command, and what it has in memory there.
ShapeOK(p) ==
    /\ ~Running(p) => writing[p] = NoWrite
    /\ Running(p) => job[p] \in Job
    /\ Running(p) /\ job[p].kind = "migrate" =>
          PathOf(p) = Legacy /\ pc[p] \in {"read", "bak", "rewrite", "done"}
    /\ pc[p] \in {"refresh", "save"} => job[p].kind = "vault"
    /\ pc[p] = "done" => job[p].kind \in {"vault", "migrate"}
    /\ pc[p] = "unsynced" => job[p].kind = "vault"
    /\ pc[p] \in {"bak", "rewrite"} => V1(view[p])
    /\ pc[p] \in {"use", "refresh", "save"} => V2(view[p])
    /\ writing[p] # NoWrite => WriteOK(p)

\* What is to be renamed is there.
TempOK(p) ==
    LET w == writing[p] IN
    w # NoWrite /\ w.how = "private" /\ (w.at \in {3, 4} \/ (w.at = 5 /\ os # "unix")) =>
        disk[p] # NoFile

TypeInv == TypeOK /\ \A p \in Process : ShapeOK(p) /\ TempOK(p)

\* From its second look at the file on, a command has the vault to itself: it holds
\* the lock, or is a `migrate` that nobody runs a command beside.
Guarded == {"reprobe", "read", "bak", "rewrite", "create", "refresh", "save", "done",
            "unsynced"}

MutexInv ==
    /\ \A p \in Process : pc[p] \in Guarded /\ job[p].kind # "migrate" => lock[PathOf(p)] = p
    /\ \A p, q \in Process :
          p # q /\ Running(p) /\ Running(q) /\ PathOf(p) = PathOf(q) => job[p].kind # "migrate"

\* Whatever is of version 1 is the legacy vault, in its place or in the copy.
VersionOK(f, contents) == \A c \in contents : V1(c) => c = VaultV1 /\ f \in {Legacy, V1Bak}

ViewOK(p) ==
    /\ pc[p] \in {"bak", "rewrite"} => PathOf(p) = Legacy /\ view[p] = VaultV1
    /\ writing[p] # NoWrite => \A c \in writing[p].data : ~V1(c)

VersionInv == (\A f \in Place : VersionOK(f, stable[f])) /\ \A p \in Process : ViewOK(p)

\* How far a migration is.
MigrateOK(p) ==
    LET w == writing[p] IN
    /\ pc[p] = "bak" => disk[Legacy] = VaultV1
    /\ pc[p] = "rewrite" =>
          /\ disk[V1Bak] = VaultV1
          /\ w = NoWrite \/ w.at = 1 => disk[Legacy] = VaultV1
          /\ w # NoWrite /\ w.at = 2 => disk[Legacy] = Torn

\* How far a write_private is, with its temporary file.
PrivateOK(p) ==
    LET w == writing[p]
        f == PathOf(p)
    IN  IF w # NoWrite /\ w.how = "private"
        THEN /\ w.at = 1 => disk[p] = NoFile
             /\ w.at = 2 => disk[p] = Torn
             /\ w.at <= 4 => disk[f] = IF pc[p] = "create" THEN NoFile ELSE view[p]
             /\ w.at \in {3, 4} => disk[p] = w.bytes
             /\ w.at = 4 /\ os = "unix" => stable[p] = {NoFile, w.bytes}
             /\ w.at = 5 => IF os = "unix"
                            THEN disk[p] = NoFile /\ disk[f] = w.bytes /\ w.data = {w.bytes}
                            ELSE disk[p] = w.bytes /\ disk[f] = NoFile
        ELSE pc[p] # "ended" => disk[p] = NoFile

\* What a command that has the vault open knows of it, and what it knows at its end.
OpenOK(p) ==
    /\ os = "unix" /\ pc[p] \in {"use", "refresh", "save"} =>
          V2(disk[PathOf(p)]) /\ disk[PathOf(p)].dk = view[p].dk
    /\ pc[p] \in {"done", "unsynced"} /\ job[p].kind = "vault" =>
          /\ HeldAt(PathOf(p), p)
          /\ os = "unix" /\ pc[p] = "done" =>
                \A c \in stable[PathOf(p)] : c \in Whole /\ p \in c.entries

FilesInv == \A p \in Process : MigrateOK(p) /\ PrivateOK(p) /\ OpenOK(p)

\* The copy of the v1 file has nothing else.
CopyInv == stable[V1Bak] \subseteq {NoFile, Torn, VaultV1}

AckInv == \A x \in acked : x[2] \in Process => pc[x[2]] = "ended"

\* default_path never changes: either there was a legacy vault, and no other is
\* made in its place, or there was none, and none is made.
AtLegacy ==
    /\ NoFile \notin stable[Legacy] /\ stable["platform"] = {NoFile}
    /\ \A p \in Process : Running(p) => PathOf(p) # "platform"

AtPlatform ==
    /\ stable[Legacy] = {NoFile}
    /\ \A p \in Process : Running(p) => PathOf(p) # Legacy

HomeOK(p) == Running(p) /\ job[p].kind # "migrate" => (PathOf(p) = "custom" <=> job[p].home)

DefaultInv ==
    os = "unix" =>
        (\A p \in Process : HomeOK(p)) /\ (AtLegacy \/ AtPlatform) /\ parent[Legacy] = "kept"

\* What is found as long as there is power, and what after a power failure too.
ReportInv ==
    os = "unix" => \A x \in acked : x[2] \in Process =>
        /\ power = 0 => HeldAt(default_path(x[1]), x[2])
        /\ x[3] => /\ parent[default_path(x[1])] = "kept"
                   /\ \A c \in stable[default_path(x[1])] : c \in Whole /\ x[2] \in c.entries

-----------------------------------------------------------------------------
(* The calls of a write. *)

USE FileAssumption, MigrationAssumption

LEMMA Paths ==
  /\ VaultPath = {Legacy, "platform", "custom"} /\ Path = VaultPath \cup {V1Bak}
  /\ V1Bak \notin VaultPath /\ Legacy # "platform" /\ Legacy # "custom"
  /\ \A p \in Process : p \in Place /\ p \notin Path
  /\ \A f \in Path : f \in Place
  BY DEF VaultPath, V1Bak, Legacy, Place

LEMMA WriteCalls ==
  ASSUME TypeInv, NEW p \in Process, writing[p] # NoWrite
  PROVE  LET w == writing[p] IN
         /\ w \in Write /\ WriteOK(p) /\ Len(WriteProgram(w.how)) = Calls(w.how)
         /\ Doing(p, "truncate") <=> (w.how = "plain" /\ w.at = 1)
         /\ Doing(p, "fill") <=> (w.how = "plain" /\ w.at = 2)
         /\ Doing(p, "create") <=> (w.how = "private" /\ w.at = 1)
         /\ Doing(p, "write") <=> (w.how = "private" /\ w.at = 2)
         /\ Doing(p, "sync") <=> (w.how = "private" /\ w.at = 3)
         /\ Doing(p, "remove") <=> (w.how = "private" /\ w.at = 4 /\ os # "unix")
         /\ Doing(p, "rename") <=> (w.how = "private" /\ w.at = IF os = "unix" THEN 4 ELSE 5)
         /\ Doing(p, "sync_dir") <=> (w.how = "private" /\ w.at = 5 /\ os = "unix")
<1> DEFINE w == writing[p]
<1>1. w \in Write /\ WriteOK(p)
  BY DEF TypeInv, TypeOK, FilesTypeOK, ShapeOK
<1>2. w.how \in {"plain", "private"} /\ w.at \in 1 .. Calls(w.how)
  BY <1>1 DEF Write, WriteOK
<1>3. CASE w.how = "plain"
  <2>1. WriteProgram(w.how) = <<"truncate", "fill">> /\ w.at \in 1 .. 2
    BY <1>2, <1>3 DEF WriteProgram, Calls
  <2>2. CASE w.at = 1
    BY <1>1, <1>3, <2>1, <2>2 DEF Doing, Calls
  <2>3. CASE w.at = 2
    BY <1>1, <1>3, <2>1, <2>3 DEF Doing, Calls
  <2>4. QED
    BY <2>1, <2>2, <2>3
<1>4. CASE w.how = "private" /\ os = "unix"
  <2>1. /\ WriteProgram(w.how) = <<"create", "write", "sync", "rename", "sync_dir">>
        /\ w.at \in 1 .. 5
    BY <1>2, <1>4 DEF WriteProgram, Calls
  <2>2. CASE w.at = 1
    BY <1>1, <1>4, <2>1, <2>2 DEF Doing, Calls
  <2>3. CASE w.at = 2
    BY <1>1, <1>4, <2>1, <2>3 DEF Doing, Calls
  <2>4. CASE w.at = 3
    BY <1>1, <1>4, <2>1, <2>4 DEF Doing, Calls
  <2>5. CASE w.at = 4
    BY <1>1, <1>4, <2>1, <2>5 DEF Doing, Calls
  <2>6. CASE w.at = 5
    BY <1>1, <1>4, <2>1, <2>6 DEF Doing, Calls
  <2>7. QED
    BY <2>1, <2>2, <2>3, <2>4, <2>5, <2>6
<1>5. CASE w.how = "private" /\ os # "unix"
  <2>1. /\ WriteProgram(w.how) = <<"create", "write", "sync", "remove", "rename">>
        /\ w.at \in 1 .. 5
    BY <1>2, <1>5 DEF WriteProgram, Calls
  <2>2. CASE w.at = 1
    BY <1>1, <1>5, <2>1, <2>2 DEF Doing, Calls
  <2>3. CASE w.at = 2
    BY <1>1, <1>5, <2>1, <2>3 DEF Doing, Calls
  <2>4. CASE w.at = 3
    BY <1>1, <1>5, <2>1, <2>4 DEF Doing, Calls
  <2>5. CASE w.at = 4
    BY <1>1, <1>5, <2>1, <2>5 DEF Doing, Calls
  <2>6. CASE w.at = 5
    BY <1>1, <1>5, <2>1, <2>6 DEF Doing, Calls
  <2>7. QED
    BY <2>1, <2>2, <2>3, <2>4, <2>5, <2>6
<1>6. QED
  BY <1>2, <1>3, <1>4, <1>5

-----------------------------------------------------------------------------
(* What a step of one process leaves to the others. *)

OwnStep(p) == RunVaultCommand(p) \/ cmd_migrate(p) \/ Step(p) \/ Kill(p)

\* A call of a write that does not fail.
CallStep(p) == WriteStep(p) \/ SkipDirSync(p)

\* A step without a call of a write.
QuietStep(p) ==
    \/ RunVaultCommand(p) \/ cmd_migrate(p)
    \/ Probe(p) \/ LockOld(p) \/ Reprobe(p) \/ Load(p) \/ LockNew(p) \/ CreateYields(p)
    \/ create_new(p) \/ MigrateRead(p) \/ MigrateBackup(p) \/ MigrateRewrite(p)
    \/ Use(p) \/ Refresh(p) \/ Save(p) \/ Report(p) \/ Kill(p)

LEMMA Steps == \A p \in Process : OwnStep(p) => QuietStep(p) \/ WriteContinues(p) \/ WriteError(p)
  BY DEF OwnStep, QuietStep, Step

LEMMA QuietFiles ==
  ASSUME NEW p \in Process, QuietStep(p)
  PROVE  UNCHANGED <<os, disk, stable, power>>
<1>1. CASE RunVaultCommand(p) \/ cmd_migrate(p)
  BY <1>1 DEF RunVaultCommand, cmd_migrate, Start, fileVars
<1>2. CASE Probe(p) \/ LockOld(p) \/ Reprobe(p) \/ Load(p) \/ LockNew(p) \/ CreateYields(p)
  BY <1>2 DEF Probe, LockOld, Reprobe, Load, LockNew, CreateYields, fileVars, Keep
<1>3. CASE create_new(p) \/ MigrateBackup(p) \/ MigrateRewrite(p)
  BY <1>3 DEF create_new, MigrateBackup, MigrateRewrite, StartWrite, Keep
<1>4. CASE MigrateRead(p) \/ Use(p) \/ Refresh(p) \/ Report(p)
  BY <1>4 DEF MigrateRead, Use, Refresh, Report, fileVars, Keep
<1>5. CASE Save(p)
  BY <1>5 DEF Save, StartWrite, fileVars, Keep
<1>6. CASE Kill(p)
  BY <1>6 DEF Kill, WriterDies, Keep
<1>7. QED
  BY <1>1, <1>2, <1>3, <1>4, <1>5, <1>6 DEF QuietStep

LEMMA CallSaved ==
  ASSUME NEW p \in Process, WriteContinues(p)
  PROVE  \E saved \in {"done", "unsynced"} :
           /\ CallStep(p) /\ Called(p, saved) /\ (saved = "done" => WriteStep(p))
           /\ view' = view /\ UNCHANGED <<parent, acked, careful, power>>
           /\ UNCHANGED <<job, pc, lock>> \/ AfterWrite(p, saved)
  BY DEF WriteContinues, CallStep, Called, Keep

\* A call of a write touches the temporary file and the path of the write.
LEMMA CallFiles ==
  ASSUME TypeInv, NEW p \in Process, WriteContinues(p) \/ WriteError(p)
  PROVE  /\ UNCHANGED <<os, power, acked, careful, parent>> /\ writing[p] # NoWrite
         /\ \A f \in Place : f # p /\ f # writing[p].path =>
               disk'[f] = disk[f] /\ stable'[f] = stable[f]
<1> USE DEF TypeInv, TypeOK, FilesTypeOK
<1>1. CASE WriteError(p)
  BY <1>1 DEF WriteError, WriteFails, Keep
<1>2. CASE WriteContinues(p)
  <2>1. CallStep(p) /\ UNCHANGED <<power, acked, careful, parent>>
    BY <1>2, CallSaved
  <2>2. CASE Create(p) \/ WriteAll(p)
    BY <2>1, <2>2 DEF Create, WriteAll, Doing, Put
  <2>3. CASE SyncAll(p) \/ SyncDir(p) \/ SkipDirSync(p)
    BY <2>1, <2>3 DEF SyncAll, SyncDir, SkipDirSync, Doing
  <2>4. CASE RemoveDestination(p) \/ Truncate(p) \/ Fill(p)
    BY <2>1, <2>4 DEF RemoveDestination, Truncate, Fill, Doing, Put
  <2>5. CASE RenameOver(p)
    BY <2>1, <2>5 DEF RenameOver, Doing
  <2>6. QED
    BY <2>1, <2>2, <2>3, <2>4, <2>5 DEF WriteStep, CallStep
<1>3. QED
  BY <1>1, <1>2

LEMMA WriterPlace ==
  ASSUME TypeInv, NEW p \in Process, writing[p] # NoWrite
  PROVE  pc[p] \in {"bak", "rewrite", "create", "save"} /\ Running(p) /\ job[p] \in Job
<1>1. ShapeOK(p)
  BY DEF TypeInv
<1>2. Running(p) /\ job[p] \in Job
  BY <1>1 DEF ShapeOK
<1>3. QED
  BY <1>1, <1>2 DEF ShapeOK, WriteOK

\* Where the process goes when its write is done.
LEMMA WriteReturns ==
  ASSUME TypeInv, NEW p \in Process, writing[p] # NoWrite,
         NEW saved \in {"done", "unsynced"}, AfterWrite(p, saved)
  PROVE  \E label \in {"rewrite", "done", "unsynced", "load", "use"} :
           /\ pc' = [pc EXCEPT ![p] = label] /\ job' = job
           /\ \/ pc[p] = "bak" /\ label = "rewrite" /\ lock' = lock
              \/ /\ pc[p] = "rewrite" /\ Release(p)
                 /\ label = IF job[p].kind = "migrate" THEN "done" ELSE "load"
              \/ pc[p] = "create" /\ label = "use" /\ Release(p)
              \/ pc[p] = "save" /\ label = saved /\ lock' = lock
<1>1. CASE pc[p] = "bak"
  BY <1>1 DEF AfterWrite, Goto
<1>2. CASE pc[p] = "rewrite"
  BY <1>2 DEF AfterWrite, Goto
<1>3. CASE pc[p] = "create"
  BY <1>3 DEF AfterWrite, Goto
<1>4. CASE pc[p] = "save"
  BY <1>4 DEF AfterWrite, Goto
<1>5. QED
  BY <1>1, <1>2, <1>3, <1>4, WriterPlace

LEMMA OwnFrame ==
  ASSUME TypeInv, NEW p \in Process, OwnStep(p), NEW q \in Process, q # p
  PROVE  /\ pc'[q] = pc[q] /\ job'[q] = job[q] /\ view'[q] = view[q]
         /\ writing'[q] = writing[q] /\ os' = os
<1> USE DEF TypeInv, TypeOK, FilesTypeOK, Goto, End, Keep, fileVars
<1>1. CASE RunVaultCommand(p) \/ cmd_migrate(p)
  BY <1>1 DEF RunVaultCommand, cmd_migrate, Start
<1>2. CASE Probe(p) \/ LockOld(p) \/ Reprobe(p) \/ Load(p) \/ LockNew(p) \/ CreateYields(p)
  BY <1>2 DEF Probe, LockOld, Reprobe, Load, LockNew, CreateYields
<1>3. CASE create_new(p) \/ MigrateBackup(p) \/ MigrateRewrite(p)
  BY <1>3 DEF create_new, MigrateBackup, MigrateRewrite, StartWrite
<1>4. CASE MigrateRead(p) \/ Use(p) \/ Refresh(p) \/ Report(p)
  BY <1>4 DEF MigrateRead, Use, Refresh, Report
<1>5. CASE Save(p)
  BY <1>5 DEF Save, StartWrite
<1>6. CASE Kill(p)
  BY <1>6 DEF Kill, WriterDies
<1>7. CASE WriteError(p)
  BY <1>7 DEF WriteError, WriteFails
<1>8. CASE WriteContinues(p)
  <2>1. PICK saved \in {"done", "unsynced"} :
           /\ CallStep(p) /\ view' = view
           /\ UNCHANGED <<job, pc, lock>> \/ AfterWrite(p, saved)
    BY <1>8, CallSaved
  <2>2. os' = os /\ \E d : Advance(p, d)
    BY <2>1 DEF CallStep, WriteStep, Create, WriteAll, SyncAll, RemoveDestination, RenameOver,
                SyncDir, SkipDirSync, Truncate, Fill
  <2>3. writing'[q] = writing[q]
    BY <2>2 DEF Advance
  <2>4. pc'[q] = pc[q] /\ job'[q] = job[q]
    BY <1>8, <2>1, WriteReturns, CallFiles
  <2>5. QED
    BY <2>1, <2>2, <2>3, <2>4
<1>9. QED
  BY <1>1, <1>2, <1>3, <1>4, <1>5, <1>6, <1>7, <1>8, Steps DEF QuietStep

-----------------------------------------------------------------------------
(* Type correctness. *)

LEMMA TempFiles ==
  ASSUME TypeInv, NEW p \in Process, OwnStep(p), NEW q \in Process, q # p
  PROVE  disk'[q] = disk[q] /\ stable'[q] = stable[q]
<1>1. CASE QuietStep(p)
  BY <1>1, QuietFiles
<1>2. CASE WriteContinues(p) \/ WriteError(p)
  <2>1. writing[p] \in Write
    BY <1>2, CallFiles, WriteCalls
  <2>2. q # writing[p].path /\ q \in Place
    BY <2>1, Paths DEF Write
  <2>3. QED
    BY <1>2, <2>2, CallFiles
<1>3. QED
  BY <1>1, <1>2, Steps

LEMMA TypeFrame ==
  ASSUME TypeInv, NEW p \in Process, OwnStep(p), TypeOK', ShapeOK(p)',
         writing'[p] = NoWrite \/ writing'[p].at = 1 \/ TempOK(p)'
  PROVE  TypeInv'
<1>1. ASSUME NEW q \in Process, q # p
      PROVE  ShapeOK(q)' /\ TempOK(q)'
  <2>1. /\ pc'[q] = pc[q] /\ job'[q] = job[q] /\ view'[q] = view[q]
        /\ writing'[q] = writing[q] /\ os' = os /\ disk'[q] = disk[q]
    BY <1>1, OwnFrame, TempFiles
  <2>2. ShapeOK(q) /\ TempOK(q)
    BY DEF TypeInv
  <2>3. ShapeOK(q)'
    BY <2>1, <2>2 DEF ShapeOK, WriteOK, Running, PathOf
  <2>4. TempOK(q)'
    BY <2>1, <2>2 DEF TempOK
  <2>5. QED
    BY <2>3, <2>4
<1>2. TempOK(p)'
  BY DEF TempOK
<1>3. QED
  BY <1>1, <1>2 DEF TypeInv

LEMMA TypeInit == MigrationInit => TypeInv
<1> SUFFICES ASSUME MigrationInit
             PROVE  TypeInv
  OBVIOUS
<1>1. PICK f \in SUBSET {Legacy} :
         /\ FilesInit([g \in Path |-> IF g \in f THEN VaultV1 ELSE NoFile])
         /\ acked = {FALSE} \X (IF f = {} THEN {} ELSE {Old}) \X {TRUE}
  BY DEF MigrationInit
<1>2. VaultV1 \in Whole
  BY DEF VaultV1, Vault, Entry
<1>3. FilesTypeOK
  BY <1>1, <1>2 DEF FilesInit, FilesTypeOK, Contents, Place
<1>4. acked \subseteq BOOLEAN \X Entry \X BOOLEAN /\ careful \in BOOLEAN
      /\ parent \in [VaultPath -> {"none", "made", "kept"}]
  BY <1>1 DEF Entry, MigrationInit
<1>5. TypeOK
  <2>1. power \in 0 .. MaxPower
    BY DEF MigrationInit
  <2>2. lock \in [VaultPath -> Process \cup {Free}] /\ view \in [Process -> Contents]
    BY DEF MigrationInit, Contents
  <2>3. QED
    BY <1>3, <1>4, <2>1, <2>2 DEF MigrationInit, TypeOK
<1>6. ASSUME NEW p \in Process
      PROVE  ShapeOK(p) /\ TempOK(p)
  BY <1>1 DEF MigrationInit, FilesInit, ShapeOK, TempOK, Running
<1>7. QED
  BY <1>5, <1>6 DEF TypeInv

LEMMA Views ==
  /\ NoFile \in Contents /\ Whole \subseteq Contents /\ VaultV1 \in Whole
  /\ \A c \in Whole : c \notin {NoFile, Torn} /\ c.ver \in {1, 2}
  /\ \A c \in Whole, p \in Process :
        /\ [c EXCEPT !.ver = 2, !.dk = p] \in Whole
        /\ [c EXCEPT !.entries = @ \cup {p}] \in Whole
  BY DEF Contents, VaultV1, Vault, Entry

LEMMA FreshType == \A p \in Process : Fresh(p) \in Whole /\ Fresh(p).ver = 2
  BY DEF Fresh, Vault, Entry

\* The directories and the history.
LEMMA HistoryType ==
  ASSUME TypeInv, NEW p \in Process, OwnStep(p)
  PROVE  /\ careful' \in BOOLEAN /\ parent' \in [VaultPath -> {"none", "made", "kept"}]
         /\ UNCHANGED parent \/ LockNew(p)
         /\ careful' => careful
<1>1. careful \in BOOLEAN /\ parent \in [VaultPath -> {"none", "made", "kept"}]
  BY DEF TypeInv, TypeOK
<1>2. CASE RunVaultCommand(p) \/ cmd_migrate(p)
  BY <1>1, <1>2 DEF RunVaultCommand, cmd_migrate, Start
<1>3. CASE Probe(p) \/ LockOld(p) \/ Reprobe(p) \/ Load(p) \/ CreateYields(p)
  BY <1>1, <1>3 DEF Probe, LockOld, Reprobe, Load, CreateYields, Keep
<1>4. CASE LockNew(p)
  BY <1>1, <1>4 DEF LockNew
<1>5. CASE create_new(p) \/ MigrateRead(p) \/ MigrateBackup(p) \/ MigrateRewrite(p)
  BY <1>1, <1>5 DEF create_new, MigrateRead, MigrateBackup, MigrateRewrite, Keep
<1>6. CASE Use(p) \/ Refresh(p) \/ Save(p) \/ Report(p) \/ Kill(p)
  BY <1>1, <1>6 DEF Use, Refresh, Save, Report, Kill, Keep
<1>7. CASE WriteContinues(p) \/ WriteError(p)
  BY <1>1, <1>7, CallFiles
<1>8. QED
  BY <1>2, <1>3, <1>4, <1>5, <1>6, <1>7, Steps DEF QuietStep

LEMMA TypeRun ==
  ASSUME TypeInv, NEW p \in Process, RunVaultCommand(p) \/ cmd_migrate(p)
  PROVE  TypeInv'
<1> USE DEF TypeInv, TypeOK
<1>1. PICK kind \in {"vault", "migrate"}, home \in BOOLEAN, path \in VaultPath,
           label \in {"probe", "read"} :
         /\ Start(p, kind, home, path, label)
         /\ kind = "migrate" => path = Legacy /\ label = "read"
  <2>1. \A home \in BOOLEAN : default_path(home) \in VaultPath
    BY DEF default_path, VaultPath
  <2>2. Legacy \in VaultPath
    BY DEF VaultPath
  <2>3. QED
    BY <2>1, <2>2 DEF RunVaultCommand, cmd_migrate
<1> DEFINE j == [kind |-> kind, home |-> home, path |-> path]
<1>2. /\ j \in Job /\ j.kind = kind /\ j.path = path
  BY DEF Job
<1>3. /\ pc[p] = "idle" /\ pc' = [pc EXCEPT ![p] = label] /\ job' = [job EXCEPT ![p] = j]
      /\ UNCHANGED <<os, disk, stable, writing, view, lock, acked, power>>
  BY <1>1 DEF Start, fileVars
<1> HIDE DEF j
<1>4. TypeOK'
  BY <1>2, <1>3, HistoryType DEF FilesTypeOK, OwnStep
<1>5. writing[p] = NoWrite
  BY <1>3 DEF ShapeOK, Running
<1>6. ShapeOK(p)' /\ writing'[p] = NoWrite
  BY <1>1, <1>2, <1>3, <1>5 DEF ShapeOK, Running, PathOf
<1>7. QED
  BY <1>4, <1>6, TypeFrame DEF OwnStep

LEMMA LockType ==
  ASSUME TypeOK, NEW p \in Process
  PROVE  /\ Take(p) /\ PathOf(p) \in VaultPath => lock' \in [VaultPath -> Process \cup {Free}]
         /\ Release(p) => lock' \in [VaultPath -> Process \cup {Free}]
  BY DEF TypeOK, Take, Release

LEMMA TypeEnd ==
  ASSUME TypeInv, NEW p \in Process, OwnStep(p), End(p), FilesTypeOK', writing'[p] = NoWrite,
         acked' \subseteq BOOLEAN \X Entry \X BOOLEAN, UNCHANGED power
  PROVE  TypeInv'
<1>1. TypeOK'
  BY LockType, Views, HistoryType DEF TypeInv, TypeOK, End
<1>2. ShapeOK(p)'
  BY DEF TypeInv, TypeOK, End, ShapeOK, Running
<1>3. QED
  BY <1>1, <1>2, TypeFrame

\* A step that only moves its process and its lock.
LEMMA TypeGoto ==
  ASSUME TypeInv, NEW p \in Process, OwnStep(p), Running(p), writing[p] = NoWrite,
         UNCHANGED <<os, disk, stable, writing, acked, power>>,
         NEW label \in {"reprobe", "read", "bak", "load", "lock_old", "lock_new", "create", "use",
                        "refresh", "save"},
         Goto(p, label),
         lock' = lock \/ Take(p) \/ Release(p),
         NEW v \in Contents, view' = [view EXCEPT ![p] = v],
         job[p].kind = "migrate" => label \in {"read", "bak"},
         label \in {"refresh", "save"} => job[p].kind = "vault",
         label = "bak" => V1(v), label \in {"use", "refresh", "save"} => V2(v)
  PROVE  TypeInv'
<1>1. job[p] \in Job /\ PathOf(p) \in VaultPath /\ ShapeOK(p)
  BY DEF TypeInv, ShapeOK, Job, PathOf
<1>2. TypeOK'
  BY <1>1, LockType, HistoryType DEF TypeInv, TypeOK, FilesTypeOK, Goto
<1>3. pc'[p] = label /\ job'[p] = job[p] /\ view'[p] = v /\ writing'[p] = NoWrite
  BY DEF TypeInv, TypeOK, Goto
<1>4. ShapeOK(p)'
  BY <1>1, <1>3 DEF ShapeOK, Running, PathOf
<1>5. QED
  BY <1>2, <1>3, <1>4, TypeFrame

LEMMA TypeStart ==
  ASSUME TypeInv, NEW p \in Process, OwnStep(p), pc[p] \in {"bak", "rewrite", "create", "save"},
         UNCHANGED <<pc, job, lock, acked, power>>,
         NEW v \in Contents, view' = [view EXCEPT ![p] = v],
         NEW how \in {"plain", "private"}, NEW path \in Path, NEW bytes \in Whole,
         StartWrite(p, how, path, bytes),
         \/ pc[p] = "bak" /\ how = "plain" /\ path = V1Bak /\ bytes = v /\ v = view[p]
         \/ /\ pc[p] = "rewrite" /\ how = "plain" /\ path = PathOf(p) /\ v = view[p]
            /\ bytes = [v EXCEPT !.ver = 2, !.dk = p]
         \/ pc[p] = "create" /\ how = "private" /\ path = PathOf(p) /\ bytes = v /\ v = Fresh(p)
         \/ /\ pc[p] = "save" /\ how = "private" /\ path = PathOf(p) /\ v = view[p]
            /\ bytes = [v EXCEPT !.entries = @ \cup {p}]
  PROVE  TypeInv'
<1> DEFINE w == [how |-> how, path |-> path, bytes |-> bytes, at |-> 1, data |-> {}]
<1>1. /\ w \in Write /\ w.how = how /\ w.path = path /\ w.bytes = bytes /\ w.at = 1
  BY DEF Write
<1>2. writing' = [writing EXCEPT ![p] = w] /\ UNCHANGED <<os, disk, stable>>
  BY DEF StartWrite
<1> HIDE DEF w
<1>3. TypeOK'
  BY <1>1, <1>2, HistoryType DEF TypeInv, TypeOK, FilesTypeOK
<1>4. /\ pc'[p] = pc[p] /\ job'[p] = job[p] /\ view'[p] = v /\ writing'[p] = w /\ ShapeOK(p)
  BY <1>2 DEF TypeInv, TypeOK, FilesTypeOK
<1>5. WriteOK(p)'
  <2>1. PathOf(p)' = PathOf(p)
    BY <1>4 DEF PathOf
  <2>2. w.at \in 1 .. Calls(w.how)
    BY <1>1 DEF Calls
  <2>3. CASE pc[p] = "bak"
    BY <1>1, <1>4, <2>1, <2>2, <2>3 DEF WriteOK
  <2>4. CASE pc[p] = "rewrite"
    BY <1>1, <1>4, <2>1, <2>2, <2>4 DEF WriteOK
  <2>5. CASE pc[p] = "create"
    BY <1>1, <1>4, <2>1, <2>2, <2>5 DEF WriteOK
  <2>6. CASE pc[p] = "save"
    BY <1>1, <1>4, <2>1, <2>2, <2>6 DEF WriteOK
  <2>7. QED
    BY <2>3, <2>4, <2>5, <2>6
<1>6. ShapeOK(p)'
  BY <1>1, <1>4, <1>5 DEF ShapeOK, Running, PathOf
<1>7. QED
  BY <1>1, <1>3, <1>4, <1>6, TypeFrame

LEMMA TypeOpen ==
  ASSUME TypeInv, NEW p \in Process,
         \/ Probe(p) \/ LockOld(p) \/ Reprobe(p) \/ Load(p) \/ LockNew(p) \/ CreateYields(p)
         \/ MigrateRead(p) \/ Use(p) \/ Refresh(p)
  PROVE  TypeInv'
<1>1. /\ OwnStep(p) /\ Running(p) /\ writing[p] = NoWrite
      /\ UNCHANGED <<os, disk, stable, writing, acked, power>>
  <2>1. CASE CreateYields(p)
    BY <2>1 DEF CreateYields, OwnStep, Step, fileVars, Keep, Running
  <2>2. CASE Probe(p) \/ LockOld(p) \/ Reprobe(p) \/ Load(p) \/ LockNew(p)
    BY <2>2, WriterPlace DEF Probe, LockOld, Reprobe, Load, LockNew, OwnStep, Step, fileVars, Keep,
       Running
  <2>3. CASE MigrateRead(p) \/ Use(p) \/ Refresh(p)
    BY <2>3, WriterPlace DEF MigrateRead, Use, Refresh, OwnStep, Step, fileVars, Keep, Running
  <2>4. QED
    BY <2>1, <2>2, <2>3
<1>2. ShapeOK(p) /\ view[p] \in Contents /\ view = [view EXCEPT ![p] = view[p]]
      /\ \A f \in VaultPath : disk[f] \in Contents
  BY Paths DEF TypeInv, TypeOK, FilesTypeOK
<1>3. CASE End(p)
  BY <1>1, <1>3, TypeEnd DEF TypeInv, TypeOK, FilesTypeOK
<1>4. CASE Probe(p) /\ ~End(p)
  <2>1. PICK label \in {"lock_new", "lock_old", "load"} : Goto(p, label) /\ UNCHANGED <<view, lock>>
    BY <1>4 DEF Probe, AfterProbe
  <2>2. job[p].kind # "migrate"
    BY <1>1, <1>2, <1>4 DEF Probe, ShapeOK
  <2>3. QED
    BY <1>1, <1>2, <2>1, <2>2, TypeGoto
<1>5. CASE LockOld(p) \/ LockNew(p)
  <2>1. PICK label \in {"reprobe", "create"} : Goto(p, label) /\ view' = view /\ Take(p)
    BY <1>5 DEF LockOld, LockNew
  <2>2. job[p].kind # "migrate"
    BY <1>1, <1>2, <1>5 DEF LockOld, LockNew, ShapeOK
  <2>3. QED
    BY <1>1, <1>2, <2>1, <2>2, TypeGoto
<1>6. CASE Reprobe(p) /\ ~End(p)
  <2>1. PICK label \in {"read", "load"} :
           Goto(p, label) /\ view' = view /\ (lock' = lock \/ Release(p))
    BY <1>6 DEF Reprobe, AfterReprobe
  <2>2. job[p].kind # "migrate"
    BY <1>1, <1>2, <1>6 DEF Reprobe, ShapeOK
  <2>3. QED
    BY <1>1, <1>2, <2>1, <2>2, TypeGoto
<1>7. CASE Load(p) /\ ~End(p)
  <2>1. /\ Goto(p, "use") /\ view' = [view EXCEPT ![p] = disk[PathOf(p)]] /\ lock' = lock
        /\ V2(disk[PathOf(p)])
    BY <1>7 DEF Load
  <2>2. job[p].kind # "migrate" /\ disk[PathOf(p)] \in Contents
    BY <1>1, <1>2, <1>7 DEF Load, ShapeOK, Job, PathOf
  <2>3. QED
    BY <1>1, <2>1, <2>2, TypeGoto
<1>8. CASE CreateYields(p)
  <2>1. Goto(p, "load") /\ view' = view /\ Release(p)
    BY <1>8 DEF CreateYields
  <2>2. job[p].kind # "migrate"
    BY <1>1, <1>2, <1>8 DEF CreateYields, ShapeOK
  <2>3. QED
    BY <1>1, <1>2, <2>1, <2>2, TypeGoto
<1>9. CASE MigrateRead(p) /\ ~End(p)
  <2>1. /\ Goto(p, "bak") /\ view' = [view EXCEPT ![p] = disk[PathOf(p)]] /\ lock' = lock
        /\ V1(disk[PathOf(p)])
    BY <1>9 DEF MigrateRead, FirstWrite
  <2>2. disk[PathOf(p)] \in Contents
    BY <1>1, <1>2 DEF ShapeOK, Job, PathOf
  <2>3. QED
    BY <1>1, <2>1, <2>2, TypeGoto
<1>10. CASE Use(p) /\ ~End(p)
  <2>1. Goto(p, "refresh") /\ view' = view /\ Take(p) /\ job[p].kind = "vault" /\ V2(view[p])
    BY <1>2, <1>10 DEF Use, ShapeOK, Running, Job
  <2>2. QED
    BY <1>1, <1>2, <2>1, TypeGoto
<1>11. CASE Refresh(p) /\ ~End(p)
  <2>1. /\ Goto(p, "save") /\ view' = [view EXCEPT ![p] = disk[PathOf(p)]] /\ lock' = lock
        /\ V2(disk[PathOf(p)]) /\ job[p].kind = "vault"
    BY <1>2, <1>11 DEF Refresh, ShapeOK
  <2>2. disk[PathOf(p)] \in Contents
    BY <1>1, <1>2 DEF ShapeOK, Job, PathOf
  <2>3. QED
    BY <1>1, <2>1, <2>2, TypeGoto
<1>12. QED
  BY <1>3, <1>4, <1>5, <1>6, <1>7, <1>8, <1>9, <1>10, <1>11

LEMMA TypeWriters ==
  ASSUME TypeInv, NEW p \in Process,
         create_new(p) \/ MigrateBackup(p) \/ MigrateRewrite(p) \/ Save(p)
  PROVE  TypeInv'
<1>1. OwnStep(p) /\ Running(p) /\ ShapeOK(p) /\ view[p] \in Contents
      /\ view = [view EXCEPT ![p] = view[p]]
  BY DEF TypeInv, TypeOK, OwnStep, Step, create_new, MigrateBackup, MigrateRewrite, Save, Running
<1>2. PathOf(p) \in Path /\ V1Bak \in Path
  BY <1>1, Paths DEF ShapeOK, Job, PathOf
<1>3. CASE create_new(p)
  <2>1. /\ StartWrite(p, "private", PathOf(p), Fresh(p)) /\ pc[p] = "create"
        /\ view' = [view EXCEPT ![p] = Fresh(p)] /\ UNCHANGED <<job, pc, lock, acked, power>>
    BY <1>3 DEF create_new, Fresh, Keep
  <2>2. QED
    BY <1>1, <1>2, <2>1, Views, FreshType, TypeStart
<1>4. CASE MigrateBackup(p)
  <2>1. /\ StartWrite(p, "plain", V1Bak, view[p]) /\ pc[p] = "bak"
        /\ view' = view /\ UNCHANGED <<job, pc, lock, acked, power>>
    BY <1>4 DEF MigrateBackup, Keep
  <2>2. view[p] \in Whole
    BY <1>1, <2>1 DEF ShapeOK, V1
  <2>3. QED
    BY <1>1, <1>2, <2>1, <2>2, TypeStart
<1>5. CASE MigrateRewrite(p)
  <2> DEFINE b == [view[p] EXCEPT !.ver = 2, !.dk = p]
  <2>1. /\ StartWrite(p, "plain", PathOf(p), b) /\ pc[p] = "rewrite"
        /\ view' = view /\ UNCHANGED <<job, pc, lock, acked, power>>
    BY <1>5 DEF MigrateRewrite, Keep
  <2>2. b \in Whole
    BY <1>1, <2>1, Views DEF ShapeOK, V1
  <2>3. QED
    BY <1>1, <1>2, <2>1, <2>2, TypeStart
<1>6. CASE Save(p) /\ ~End(p)
  <2> DEFINE b == [view[p] EXCEPT !.entries = @ \cup {p}]
  <2>1. /\ StartWrite(p, "private", PathOf(p), b) /\ pc[p] = "save"
        /\ view' = view /\ UNCHANGED <<job, pc, lock, acked, power>>
    BY <1>6 DEF Save, Keep
  <2>2. b \in Whole
    BY <1>1, <2>1, Views DEF ShapeOK, V2
  <2>3. QED
    BY <1>1, <1>2, <2>1, <2>2, TypeStart
<1>7. CASE Save(p) /\ End(p)
  <2>1. writing[p] = NoWrite /\ UNCHANGED <<os, disk, stable, writing, acked, power>>
    <3>1. pc'[p] = "ended" /\ pc[p] = "save"
      BY <1>7 DEF Save, End, TypeInv, TypeOK
    <3>2. pc' # pc
      BY <3>1
    <3>3. QED
      BY <1>7, <3>2 DEF Save, Keep, fileVars
  <2>2. QED
    BY <1>1, <1>7, <2>1, TypeEnd DEF TypeInv, TypeOK, FilesTypeOK
<1>8. QED
  BY <1>3, <1>4, <1>5, <1>6, <1>7

LEMMA TypeReport ==
  ASSUME TypeInv, NEW p \in Process, Report(p) \/ Kill(p)
  PROVE  TypeInv'
<1>1. OwnStep(p) /\ End(p) /\ UNCHANGED <<os, disk, stable, power>>
  BY DEF Report, Kill, WriterDies, OwnStep, Step, fileVars, Keep
<1>2. CASE Report(p)
  <2>1. /\ writing' = writing /\ pc[p] \in {"done", "unsynced"} /\ job[p] \in Job
        /\ \E d \in BOOLEAN : acked' =
              acked \cup (IF job[p].kind = "vault" THEN {<<job[p].home, p, d>>} ELSE {})
    BY <1>2 DEF Report, fileVars, TypeInv, ShapeOK, Running
  <2>2. job[p].home \in BOOLEAN /\ p \in Entry
    BY <2>1 DEF Job, Entry
  <2>3. acked' \subseteq BOOLEAN \X Entry \X BOOLEAN
    BY <2>1, <2>2 DEF TypeInv, TypeOK
  <2>4. writing'[p] = NoWrite
    BY <2>1, WriterPlace
  <2>5. QED
    BY <1>1, <2>1, <2>3, <2>4, TypeEnd DEF TypeInv, TypeOK, FilesTypeOK
<1>3. CASE Kill(p)
  <2>1. writing' = [writing EXCEPT ![p] = NoWrite] /\ acked' = acked
    BY <1>3 DEF Kill, WriterDies, Keep
  <2>2. QED
    BY <1>1, <2>1, TypeEnd DEF TypeInv, TypeOK, FilesTypeOK
<1>4. QED
  BY <1>2, <1>3

\* What a call leaves of its write: nothing after the last, the next call otherwise.
LEMMA Advanced ==
  ASSUME TypeInv, NEW p \in Process, writing[p] # NoWrite, NEW data \in SUBSET Contents,
         Advance(p, data)
  PROVE  \/ /\ writing[p].at = Calls(writing[p].how)
            /\ writing' = [writing EXCEPT ![p] = NoWrite]
         \/ /\ writing[p].at < Calls(writing[p].how)
            /\ \E v \in Write : /\ v.how = writing[p].how /\ v.path = writing[p].path
                                /\ v.bytes = writing[p].bytes
                                /\ v.at = writing[p].at + 1 /\ v.data = data
                                /\ writing' = [writing EXCEPT ![p] = v]
<1> DEFINE w == writing[p]
           v == [w EXCEPT !.at = @ + 1, !.data = data]
<1>1. /\ w \in Write /\ w.at \in 1 .. Calls(w.how) /\ Len(WriteProgram(w.how)) = Calls(w.how)
      /\ Calls(w.how) \in {2, 5}
  BY WriteCalls DEF WriteOK, Calls
<1>2. CASE w.at = Calls(w.how)
  BY <1>1, <1>2 DEF Advance
<1>3. CASE w.at # Calls(w.how)
  <2>1. w.at < Calls(w.how) /\ w.at + 1 \in 1 .. 5
    BY <1>1, <1>3
  <2>2. v \in Write /\ v.how = w.how /\ v.path = w.path /\ v.bytes = w.bytes
        /\ v.at = w.at + 1 /\ v.data = data
    BY <1>1, <2>1 DEF Write
  <2>3. writing' = [writing EXCEPT ![p] = v]
    BY <1>1, <1>3 DEF Advance
  <2> HIDE DEF v
  <2>4. QED
    BY <2>1, <2>2, <2>3
<1>4. QED
  BY <1>2, <1>3

\* The calls as changes of the files.
LEMMA Calling ==
  ASSUME TypeInv, NEW p \in Process, CallStep(p)
  PROVE  LET w == writing[p] IN
         /\ os' = os /\ w # NoWrite /\ w \in Write /\ WriteOK(p)
         /\ \/ /\ Advance(p, {})
               /\ \/ w.how = "plain" /\ w.at = 1 /\ Put(w.path, Torn)
                  \/ w.how = "plain" /\ w.at = 2 /\ Put(w.path, w.bytes)
                  \/ w.how = "private" /\ w.at = 1 /\ Put(p, Torn)
                  \/ w.how = "private" /\ w.at = 2 /\ Put(p, w.bytes)
                  \/ /\ w.how = "private" /\ w.at = 3 /\ disk' = disk
                     /\ stable' = [stable EXCEPT ![p] = {NoFile, disk[p]}]
                  \/ w.how = "private" /\ w.at = 4 /\ os # "unix" /\ Put(w.path, NoFile)
                  \/ /\ w.how = "private" /\ w.at = 5 /\ os = "unix" /\ disk' = disk
                     /\ \/ stable' = [stable EXCEPT ![w.path] = w.data \cup {disk[w.path]}]
                        \/ ~WriteStep(p) /\ stable' = stable
            \/ /\ w.how = "private" /\ w.at = (IF os = "unix" THEN 4 ELSE 5)
               /\ Advance(p, stable[p] \ {NoFile})
               /\ disk' = [disk EXCEPT ![w.path] = disk[p], ![p] = NoFile]
               /\ stable' = [stable EXCEPT ![w.path] = @ \cup (stable[p] \ {NoFile}),
                                           ![p] = {NoFile}]
<1>1. writing[p] # NoWrite
  BY DEF CallStep, WriteStep, Create, WriteAll, SyncAll, RemoveDestination, RenameOver, SyncDir,
         SkipDirSync, Truncate, Fill, Doing
<1>2. writing[p] \in Write /\ WriteOK(p)
  BY <1>1, WriteCalls
<1>3. CASE Create(p) \/ WriteAll(p)
  BY <1>1, <1>2, <1>3, WriteCalls DEF Create, WriteAll
<1>4. CASE SyncAll(p) \/ SyncDir(p)
  BY <1>1, <1>2, <1>4, WriteCalls DEF SyncAll, SyncDir
<1>5. CASE RemoveDestination(p)
  BY <1>1, <1>2, <1>5, WriteCalls DEF RemoveDestination
<1>6. CASE Truncate(p) \/ Fill(p)
  BY <1>1, <1>2, <1>6, WriteCalls DEF Truncate, Fill
<1>7. CASE RenameOver(p)
  BY <1>1, <1>2, <1>7, WriteCalls DEF RenameOver
<1>8. CASE SkipDirSync(p) /\ ~WriteStep(p)
  BY <1>1, <1>2, <1>8, WriteCalls DEF SkipDirSync
<1>9. QED
  BY <1>3, <1>4, <1>5, <1>6, <1>7, <1>8 DEF CallStep, WriteStep

LEMMA CallAt ==
  ASSUME TypeInv, NEW p \in Process, CallStep(p)
  PROVE  LET w == writing[p] IN
         /\ os' = os /\ w # NoWrite /\ w \in Write /\ WriteOK(p) /\ ShapeOK(p) /\ TempOK(p)
         /\ w.path \in Path /\ w.path \in Place /\ w.bytes \in Whole /\ p \in Place /\ p # w.path
         /\ w.how \in {"plain", "private"} /\ w.at \in 1 .. Calls(w.how)
         /\ w.how = "plain" /\ w.at = 1 => Put(w.path, Torn)
         /\ w.how = "plain" /\ w.at = 2 => Put(w.path, w.bytes)
         /\ w.how = "private" /\ w.at = 1 => Put(p, Torn)
         /\ w.how = "private" /\ w.at = 2 => Put(p, w.bytes)
         /\ w.how = "private" /\ w.at = 3 =>
               disk' = disk /\ stable' = [stable EXCEPT ![p] = {NoFile, disk[p]}]
         /\ w.how = "private" /\ w.at = 4 /\ os # "unix" => Put(w.path, NoFile)
         /\ w.how = "private" /\ w.at = 5 /\ os = "unix" =>
               /\ disk' = disk
               /\ \/ stable' = [stable EXCEPT ![w.path] = w.data \cup {disk[w.path]}]
                  \/ ~WriteStep(p) /\ stable' = stable
         /\ w.how = "private" /\ w.at = (IF os = "unix" THEN 4 ELSE 5) =>
               /\ disk' = [disk EXCEPT ![w.path] = disk[p], ![p] = NoFile]
               /\ stable' = [stable EXCEPT ![w.path] = @ \cup (stable[p] \ {NoFile}),
                                           ![p] = {NoFile}]
               /\ Advance(p, stable[p] \ {NoFile})
         /\ ~ (w.how = "private" /\ w.at = (IF os = "unix" THEN 4 ELSE 5)) => Advance(p, {})
<1> DEFINE w == writing[p]
<1>1. w # NoWrite /\ w \in Write /\ WriteOK(p) /\ os' = os
  BY Calling
<1>2. /\ w.path \in Path /\ w.path \in Place /\ w.bytes \in Whole /\ p \in Place /\ p # w.path
      /\ w.how \in {"plain", "private"}
  BY <1>1, Paths DEF Write
<1>3. w.at \in 1 .. Calls(w.how) /\ (w.how = "plain" => w.at \in {1, 2})
      /\ (w.how = "private" => w.at \in {1, 2, 3, 4, 5})
  BY <1>1 DEF WriteOK, Calls
<1>4. ShapeOK(p) /\ TempOK(p)
  BY DEF TypeInv
<1> DEFINE rename == w.how = "private" /\ w.at = (IF os = "unix" THEN 4 ELSE 5)
<1>5. CASE rename
  <2>2. w.how # "plain" /\ w.at \notin {1, 2, 3}
        /\ ~ (w.at = 4 /\ os # "unix") /\ ~ (w.at = 5 /\ os = "unix")
    BY <1>5
  <2>1. /\ disk' = [disk EXCEPT ![w.path] = disk[p], ![p] = NoFile]
        /\ stable' = [stable EXCEPT ![w.path] = @ \cup (stable[p] \ {NoFile}), ![p] = {NoFile}]
        /\ Advance(p, stable[p] \ {NoFile})
    BY <2>2, Calling, ZenonT(30)
  <2>3. QED
    BY <1>1, <1>2, <1>3, <1>4, <1>5, <2>1, <2>2
<1>6. CASE ~rename
  BY <1>1, <1>2, <1>3, <1>4, <1>6, Calling
<1>7. QED
  BY <1>5, <1>6

LEMMA PutType ==
  ASSUME TypeInv, NEW f \in Place, NEW c \in Contents, Put(f, c)
  PROVE  /\ disk' \in [Place -> Contents] /\ stable' \in [Place -> SUBSET Contents]
         /\ \A g \in Place : disk'[g] \in stable'[g]
<1>1. disk \in [Place -> Contents] /\ stable \in [Place -> SUBSET Contents]
      /\ \A g \in Place : disk[g] \in stable[g]
  BY DEF TypeInv, TypeOK, FilesTypeOK
<1>2. QED
  BY <1>1 DEF Put

LEMMA CallTypes ==
  ASSUME TypeInv, NEW p \in Process, CallStep(p)
  PROVE  /\ os' = os
         /\ disk' \in [Place -> Contents] /\ stable' \in [Place -> SUBSET Contents]
         /\ \A g \in Place : disk'[g] \in stable'[g]
<1> DEFINE w == writing[p]
<1>1. disk \in [Place -> Contents] /\ stable \in [Place -> SUBSET Contents]
      /\ \A g \in Place : disk[g] \in stable[g]
  BY DEF TypeInv, TypeOK, FilesTypeOK
<1>2. /\ os' = os /\ w \in Write /\ w.path \in Place /\ w.bytes \in Contents /\ w.data \subseteq Contents
      /\ p \in Place /\ p # w.path
  <2>1. os' = os /\ w \in Write
    BY Calling
  <2>2. w.path \in Path /\ w.bytes \in Whole /\ w.data \subseteq Contents
    BY <2>1 DEF Write
  <2>3. QED
    BY <2>1, <2>2, Paths, Views
<1>3. NoFile \in Contents /\ Torn \in Contents
  BY DEF Contents
<1>4. CASE \E f \in Place, c \in Contents : Put(f, c)
  BY <1>2, <1>4, PutType
<1>5. CASE disk' = disk /\ stable' = [stable EXCEPT ![p] = {NoFile, disk[p]}]
  BY <1>1, <1>2, <1>3, <1>5
<1>6. CASE /\ disk' = disk
           /\ \/ stable' = [stable EXCEPT ![w.path] = w.data \cup {disk[w.path]}]
              \/ stable' = stable
  BY <1>1, <1>2, <1>6
<1>7. CASE /\ w.how = "private" /\ w.at = (IF os = "unix" THEN 4 ELSE 5)
           /\ disk' = [disk EXCEPT ![w.path] = disk[p], ![p] = NoFile]
           /\ stable' = [stable EXCEPT ![w.path] = @ \cup (stable[p] \ {NoFile}), ![p] = {NoFile}]
  <2>1. disk' \in [Place -> Contents]
    BY <1>1, <1>2, <1>3, <1>7
  <2>2. stable[w.path] \cup (stable[p] \ {NoFile}) \in SUBSET Contents /\ {NoFile} \in SUBSET Contents
    BY <1>1, <1>2, <1>3
  <2>3. stable' \in [Place -> SUBSET Contents]
    BY <1>1, <1>2, <1>7, <2>2
  <2>4. ASSUME NEW g \in Place
        PROVE  disk'[g] \in stable'[g]
    <3>1. CASE g = p
      BY <1>1, <1>2, <1>7, <3>1
    <3>2. CASE g = w.path
      <4>1. disk[p] # NoFile /\ disk[p] \in stable[p]
        <5>1. w # NoWrite /\ TempOK(p)
          BY Calling DEF TypeInv
        <5>2. QED
          BY <1>1, <1>2, <1>7, <5>1 DEF TempOK
      <4>2. QED
        BY <1>1, <1>2, <1>7, <3>2, <4>1
    <3>3. CASE g # p /\ g # w.path
      BY <1>1, <1>2, <1>7, <3>3
    <3>4. QED
      BY <3>1, <3>2, <3>3
  <2>5. QED
    BY <1>2, <2>1, <2>3, <2>4
<1>8. QED
  BY <1>2, <1>3, <1>4, <1>5, <1>6, <1>7, Calling

LEMMA TypeCall ==
  ASSUME TypeInv, NEW p \in Process, WriteContinues(p)
  PROVE  TypeInv'
<1> DEFINE w == writing[p]
<1>0. PICK saved \in {"done", "unsynced"} : CallStep(p) /\ Called(p, saved)
  BY CallSaved
<1>1. /\ OwnStep(p) /\ CallStep(p) /\ w # NoWrite /\ w \in Write /\ WriteOK(p) /\ ShapeOK(p)
      /\ view' = view /\ UNCHANGED <<acked, power>>
      /\ IF writing'[p] = NoWrite THEN AfterWrite(p, saved) ELSE UNCHANGED <<job, pc, lock>>
      /\ careful' \in BOOLEAN /\ parent' \in [VaultPath -> {"none", "made", "kept"}]
  BY <1>0, Calling, HistoryType DEF Called, OwnStep, Step, Keep, TypeInv
<1>2. /\ os' = os
      /\ disk' \in [Place -> Contents] /\ stable' \in [Place -> SUBSET Contents]
      /\ \A g \in Place : disk'[g] \in stable'[g]
  BY <1>1, CallTypes
<1>3. PICK data \in SUBSET Contents : Advance(p, data)
  <2>1. stable[p] \ {NoFile} \in SUBSET Contents
    BY Paths DEF TypeInv, TypeOK, FilesTypeOK
  <2>2. QED
    BY <1>1, <2>1, Calling
<1>4. CASE w.at < Calls(w.how)
  <2>1. PICK v \in Write : /\ v.how = w.how /\ v.path = w.path /\ v.bytes = w.bytes
                           /\ v.at = w.at + 1
                           /\ writing' = [writing EXCEPT ![p] = v]
    <3>1. w.at # Calls(w.how)
      BY <1>4 DEF Calls
    <3>2. QED
      BY <1>1, <1>3, <3>1, Advanced
  <2>2. /\ writing'[p] = v /\ v # NoWrite /\ writing' \in [Process -> Write \cup {NoWrite}]
    BY <2>1 DEF TypeInv, TypeOK, FilesTypeOK
  <2>3. UNCHANGED <<job, pc, lock>>
    BY <1>1, <2>2
  <2>4. v.at \in 1 .. Calls(v.how)
    BY <1>1, <1>4, <2>1 DEF WriteOK, Calls
  <2>5. WriteOK(p)'
    BY <1>1, <2>1, <2>2, <2>3, <2>4 DEF WriteOK, PathOf
  <2>6. ShapeOK(p)'
    BY <1>1, <2>2, <2>3, <2>5 DEF ShapeOK, Running, PathOf
  <2>7. TypeOK'
    BY <1>1, <1>2, <2>2, <2>3 DEF TypeInv, TypeOK, FilesTypeOK
  <2>8. TempOK(p)'
    <3>1. CASE w.at = 2 /\ w.how = "private"
      <4>1. Put(p, w.bytes) /\ p \in Place /\ w.bytes \in Whole
        BY <1>1, <3>1, CallAt
      <4>2. disk'[p] = w.bytes
        BY <4>1 DEF Put, TypeInv, TypeOK, FilesTypeOK
      <4>3. QED
        BY <4>1, <4>2 DEF TempOK
    <3>2. CASE w.at = 3 /\ w.how = "private"
      <4>1. disk' = disk /\ disk[p] # NoFile
        BY <1>1, <3>2, CallAt DEF TempOK
      <4>2. QED
        BY <4>1 DEF TempOK
    <3>3. CASE w.at = 4 /\ w.how = "private" /\ os # "unix"
      <4>1. Put(w.path, NoFile) /\ disk[p] # NoFile
        BY <1>1, <3>3, CallAt DEF TempOK
      <4>2. w.path # p /\ w.path \in Place
        BY <1>1, Paths DEF Write
      <4>3. disk'[p] = disk[p]
        BY <4>1, <4>2 DEF Put
      <4>4. QED
        BY <4>1, <4>3 DEF TempOK
    <3>4. CASE w.how = "plain" \/ w.at = 1 \/ (w.at = 4 /\ os = "unix")
      BY <1>2, <2>1, <2>2, <3>4 DEF TempOK
    <3>5. QED
      BY <1>1, <1>4, <2>1, <2>4, <3>1, <3>2, <3>3, <3>4 DEF Write, WriteOK, Calls
  <2>9. QED
    BY <1>1, <2>6, <2>7, <2>8, TypeFrame
<1>5. CASE ~ (w.at < Calls(w.how))
  <2>1. writing' = [writing EXCEPT ![p] = NoWrite]
    BY <1>1, <1>3, <1>5, Advanced
  <2>2. writing'[p] = NoWrite /\ writing' \in [Process -> Write \cup {NoWrite}]
    BY <2>1 DEF TypeInv, TypeOK, FilesTypeOK
  <2>3. PICK label \in {"rewrite", "done", "unsynced", "load", "use"} :
           /\ pc' = [pc EXCEPT ![p] = label] /\ job' = job
           /\ \/ pc[p] = "bak" /\ label = "rewrite" /\ lock' = lock
              \/ /\ pc[p] = "rewrite" /\ Release(p)
                 /\ label = IF job[p].kind = "migrate" THEN "done" ELSE "load"
              \/ pc[p] = "create" /\ label = "use" /\ Release(p)
              \/ pc[p] = "save" /\ label = saved /\ lock' = lock
    BY <1>1, <2>2, WriteReturns
  <2>4. TypeOK'
    BY <1>1, <1>2, <2>2, <2>3, LockType DEF TypeInv, TypeOK, FilesTypeOK
  <2>5. pc[p] = "create" => V2(view[p])
    <3>1. pc[p] = "create" => view[p] = Fresh(p)
      BY <1>1 DEF WriteOK
    <3>2. QED
      BY <3>1, FreshType DEF V2
  <2>6. pc'[p] = label /\ job'[p] = job[p] /\ view'[p] = view[p]
    BY <1>1, <2>3 DEF TypeInv, TypeOK
  <2>7. ShapeOK(p)'
    BY <1>1, <2>2, <2>3, <2>5, <2>6 DEF ShapeOK, Running, PathOf
  <2>8. QED
    BY <1>1, <2>2, <2>4, <2>7, TypeFrame
<1>6. QED
  BY <1>4, <1>5

LEMMA TypeError ==
  ASSUME TypeInv, NEW p \in Process, WriteError(p)
  PROVE  TypeInv'
<1>1. /\ OwnStep(p) /\ End(p) /\ WriteFails(p) /\ UNCHANGED <<acked, power>>
  BY DEF WriteError, OwnStep, Step, Keep
<1>2. FilesTypeOK' /\ writing'[p] = NoWrite
  BY <1>1, Paths DEF WriteFails, TypeInv, TypeOK, FilesTypeOK, Contents
<1>3. QED
  BY <1>1, <1>2, TypeEnd DEF TypeInv, TypeOK

\* What comes back after a power failure.
LEMMA PowerFiles ==
  ASSUME TypeInv, PowerLoss
  PROVE  /\ \A p \in Process : disk'[p] = NoFile
         /\ \A f \in Path : disk'[f] \in stable[f] \/ (disk'[f] = NoFile /\ parent[f] = "made")
         /\ \A f \in Place : stable'[f] = {disk'[f]}
         /\ \A f \in VaultPath : parent[f] = "kept" => parent'[f] = "kept"
         /\ disk' = [f \in Place |-> disk'[f]]
         /\ UNCHANGED <<os, careful, acked>>
         /\ parent' \in [VaultPath -> {"none", "made", "kept"}]
<1>1. PICK gone \in SUBSET {f \in VaultPath : parent[f] = "made"} :
         /\ LosePower(gone)
         /\ parent' = [f \in VaultPath |-> IF f \in gone THEN "none"
                                          ELSE IF parent[f] = "made" THEN "kept" ELSE parent[f]]
  BY DEF PowerLoss
<1> DEFINE open == {f \in Path \ gone : stable[f] # {disk[f]}}
<1>2. PICK after \in [open -> UNION {stable[f] : f \in open}] :
         /\ \A f \in open : after[f] \in stable[f]
         /\ disk' = [f \in Place |-> IF f \in gone \cup Process THEN NoFile
                                     ELSE IF f \in open THEN after[f] ELSE disk[f]]
  BY <1>1 DEF LosePower
<1> HIDE DEF open
<1>3. parent \in [VaultPath -> {"none", "made", "kept"}] /\ \A f \in Place : disk[f] \in stable[f]
  BY DEF TypeInv, TypeOK, FilesTypeOK
<1>4. stable' = [f \in Place |-> {disk'[f]}] /\ UNCHANGED <<os, careful, acked>>
  BY <1>1 DEF LosePower, PowerLoss
<1>5. \A p \in Process : disk'[p] = NoFile
  BY <1>2, Paths
<1>6. ASSUME NEW f \in Path
      PROVE  disk'[f] \in stable[f] \/ (disk'[f] = NoFile /\ parent[f] = "made")
  <2>1. f \in Place /\ f \notin Process
    BY Paths DEF Place
  <2>0. disk'[f] = IF f \in gone \cup Process THEN NoFile
                   ELSE IF f \in open THEN after[f] ELSE disk[f]
    <3>1. disk' = [g \in Place |-> IF g \in gone \cup Process THEN NoFile
                                  ELSE IF g \in open THEN after[g] ELSE disk[g]]
      BY <1>2
    <3>2. QED
      BY <2>1, <3>1
  <2>2. CASE f \in gone
    <3>1. disk'[f] = NoFile /\ parent[f] = "made"
      BY <1>1, <2>0, <2>1, <2>2
    <3>2. QED
      BY <3>1
  <2>3. CASE f \notin gone /\ f \in open
    <3>1. disk'[f] = after[f]
      BY <2>0, <2>1, <2>3
    <3>2. QED
      BY <1>2, <2>3, <3>1
  <2>4. CASE f \notin gone /\ f \notin open
    <3>1. disk'[f] = disk[f]
      BY <2>0, <2>1, <2>4
    <3>2. QED
      BY <1>3, <2>1, <3>1
  <2>5. QED
    BY <2>2, <2>3, <2>4
<1>7. QED
  BY <1>1, <1>2, <1>3, <1>4, <1>5, <1>6

LEMMA TypePower ==
  ASSUME TypeInv, PowerLoss
  PROVE  TypeInv'
<1>1. \A f \in Place : disk'[f] \in stable[f] \cup {NoFile}
  BY PowerFiles DEF Place
<1>2. \A f \in Place : disk'[f] \in Contents
  BY <1>1, Paths, Views DEF TypeInv, TypeOK, FilesTypeOK
<1>3. FilesTypeOK'
  BY <1>1, <1>2 DEF PowerLoss, LosePower, TypeInv, TypeOK, FilesTypeOK
<1>4. power' \in 0 .. MaxPower
  BY DEF PowerLoss, TypeInv, TypeOK
<1>5. TypeOK'
  BY <1>3, <1>4, Views, PowerFiles DEF PowerLoss, TypeInv, TypeOK
<1>6. ASSUME NEW p \in Process
      PROVE  ShapeOK(p)' /\ TempOK(p)'
  BY DEF PowerLoss, LosePower, TypeInv, TypeOK, ShapeOK, TempOK, Running
<1>7. QED
  BY <1>5, <1>6 DEF TypeInv

LEMMA TypeNext == TypeInv /\ [MigrationNext]_migrationVars => TypeInv'
<1>1. CASE UNCHANGED migrationVars
  <2>1. UNCHANGED <<os, disk, stable, writing, job, pc, view, lock, parent, acked, careful, power>>
    BY <1>1 DEF migrationVars, fileVars
  <2>2. TypeInv => TypeOK'
    BY <2>1 DEF TypeInv, TypeOK, FilesTypeOK
  <2>3. ASSUME TypeInv, NEW p \in Process
        PROVE  ShapeOK(p)' /\ TempOK(p)'
    BY <2>1, <2>3 DEF TypeInv, ShapeOK, TempOK, WriteOK, Running, PathOf
  <2>4. QED
    BY <2>2, <2>3 DEF TypeInv
<1>2. QED
  BY <1>1, TypeRun, TypeOpen, TypeWriters, TypeReport, TypeCall, TypeError, TypePower
     DEF MigrationNext, Step

\* Every reachable state has its types: no command saves a version that it did not
\* read, a write is always at one of its calls, and what is at a path is among what
\* may be there after a power failure.
THEOREM TypeCorrect == MigrationSpec => []TypeOK
<1>1. TypeInv => TypeOK
  BY DEF TypeInv
<1>2. QED
  BY <1>1, TypeInit, TypeNext, PTL DEF MigrationSpec

-----------------------------------------------------------------------------
(* Who has a vault to itself. *)

LEMMA LockFrame ==
  ASSUME TypeInv, NEW p \in Process, OwnStep(p)
  PROVE  lock' = lock \/ Take(p) \/ Release(p)
<1>1. CASE RunVaultCommand(p) \/ cmd_migrate(p)
  BY <1>1 DEF RunVaultCommand, cmd_migrate, Start
<1>2. CASE Probe(p) \/ LockOld(p) \/ Reprobe(p) \/ Load(p) \/ LockNew(p) \/ CreateYields(p)
  BY <1>2 DEF Probe, LockOld, Reprobe, Load, LockNew, CreateYields, End
<1>3. CASE create_new(p) \/ MigrateBackup(p) \/ MigrateRewrite(p)
  BY <1>3 DEF create_new, MigrateBackup, MigrateRewrite
<1>4. CASE MigrateRead(p) \/ Use(p) \/ Refresh(p) \/ Report(p) \/ Save(p) \/ Kill(p) \/ WriteError(p)
  BY <1>4 DEF MigrateRead, Use, Refresh, Report, Save, Kill, WriteError, End
<1>5. CASE WriteContinues(p)
  <2>1. \E saved \in {"done", "unsynced"} : UNCHANGED <<job, pc, lock>> \/ AfterWrite(p, saved)
    BY <1>5, CallSaved
  <2>2. writing[p] # NoWrite
    BY <1>5, CallFiles
  <2>3. QED
    BY <2>1, <2>2, WriteReturns
<1>6. QED
  BY <1>1, <1>2, <1>3, <1>4, <1>5, Steps DEF QuietStep

\* Only the start of a command makes a process run.
LEMMA JobFrame ==
  ASSUME TypeInv, NEW p \in Process, OwnStep(p), ~ (RunVaultCommand(p) \/ cmd_migrate(p)),
         Running(p)'
  PROVE  Running(p) /\ job'[p] = job[p]
<1> USE DEF TypeInv, TypeOK, Goto, End, Running
<1>2. CASE Probe(p) \/ LockOld(p) \/ Reprobe(p) \/ Load(p) \/ LockNew(p) \/ CreateYields(p)
  BY <1>2 DEF Probe, LockOld, Reprobe, Load, LockNew, CreateYields
<1>3. CASE create_new(p) \/ MigrateBackup(p) \/ MigrateRewrite(p)
  BY <1>3 DEF create_new, MigrateBackup, MigrateRewrite
<1>4. CASE MigrateRead(p) \/ Use(p) \/ Refresh(p) \/ Report(p) \/ Save(p) \/ Kill(p) \/ WriteError(p)
  BY <1>4 DEF MigrateRead, Use, Refresh, Report, Save, Kill, WriteError
<1>5. CASE WriteContinues(p)
  <2>1. \E saved \in {"done", "unsynced"} : UNCHANGED <<job, pc, lock>> \/ AfterWrite(p, saved)
    BY <1>5, CallSaved
  <2>2. writing[p] # NoWrite
    BY <1>5, CallFiles
  <2>3. Running(p)
    BY <2>2, WriterPlace
  <2>4. job' = job
    BY <2>1, <2>2, WriteReturns
  <2>5. QED
    BY <2>3, <2>4
<1>6. QED
  BY <1>2, <1>3, <1>4, <1>5, Steps DEF QuietStep

LockOK(p) == pc[p] \in Guarded /\ job[p].kind # "migrate" => lock[PathOf(p)] = p

\* What the step does for the process itself.
LEMMA OwnLock ==
  ASSUME TypeInv, TypeInv', NEW p \in Process, OwnStep(p), LockOK(p)
  PROVE  LockOK(p)'
<1> SUFFICES ASSUME pc'[p] \in Guarded, job'[p].kind # "migrate"
             PROVE  lock'[job'[p].path] = p
  BY DEF LockOK, PathOf
<1> USE DEF TypeInv, TypeOK, Goto, Guarded
<1>1. PathOf(p) \in VaultPath \/ ~Running(p)
  BY DEF ShapeOK, Job, PathOf
<1>2. CASE RunVaultCommand(p)
  <2>1. PICK home \in BOOLEAN : Start(p, "vault", home, default_path(home), "probe")
    BY <1>2 DEF RunVaultCommand
  <2>2. pc'[p] = "probe"
    BY <2>1 DEF Start
  <2>3. QED
    BY <2>2
<1>3. CASE cmd_migrate(p)
  <2>1. PICK home \in BOOLEAN : Start(p, "migrate", home, Legacy, "read")
    BY <1>3 DEF cmd_migrate
  <2>2. job'[p].kind = "migrate"
    BY <2>1 DEF Start
  <2>3. QED
    BY <2>2
<1>4. CASE pc'[p] = "ended"
  BY <1>4
<1>5. CASE Probe(p) \/ Load(p) \/ CreateYields(p)
  BY <1>5 DEF Probe, AfterProbe, Load, CreateYields, End
<1>6. CASE LockOld(p) \/ LockNew(p)
  BY <1>1, <1>6 DEF LockOld, LockNew, Take, PathOf, Running
<1>7. CASE Use(p)
  <2>1. CASE End(p)
    BY <2>1 DEF End
  <2>2. CASE ~End(p)
    BY <1>1, <1>7, <2>2 DEF Use, Take, PathOf, Running
  <2>3. QED
    BY <2>1, <2>2
<1>8. CASE Reprobe(p)
  <2>1. CASE End(p)
    BY <2>1 DEF End
  <2>2. CASE ~End(p)
    BY <1>8, <2>2 DEF Reprobe, AfterReprobe, LockOK, PathOf
  <2>3. QED
    BY <2>1, <2>2
<1>9. CASE MigrateRead(p) \/ Refresh(p) \/ Save(p)
  <2>1. CASE End(p)
    BY <2>1 DEF End
  <2>2. CASE ~End(p)
    BY <1>9, <2>2 DEF MigrateRead, FirstWrite, Refresh, Save, LockOK, PathOf
  <2>3. QED
    BY <2>1, <2>2
<1>10. CASE create_new(p) \/ MigrateBackup(p) \/ MigrateRewrite(p)
  BY <1>10 DEF create_new, MigrateBackup, MigrateRewrite, LockOK, PathOf
<1>11. CASE Report(p) \/ Kill(p) \/ WriteError(p)
  BY <1>11 DEF Report, Kill, WriteError, End
<1>12. CASE WriteContinues(p)
  <2>1. writing[p] # NoWrite
    BY <1>12, CallFiles
  <2>2. pc[p] \in Guarded
    BY <2>1, WriterPlace
  <2>3. CASE \E saved \in {"done", "unsynced"} : AfterWrite(p, saved)
    BY <2>1, <2>2, <2>3, WriteReturns DEF LockOK, PathOf
  <2>4. CASE UNCHANGED <<job, pc, lock>>
    BY <2>2, <2>4 DEF LockOK, PathOf
  <2>5. QED
    BY <1>12, <2>3, <2>4, CallSaved
<1>13. QED
  BY <1>2, <1>3, <1>5, <1>6, <1>7, <1>8, <1>9, <1>10, <1>11, <1>12, Steps DEF QuietStep

AloneOK(p, q) ==
    Running(p) /\ Running(q) /\ PathOf(p) = PathOf(q) =>
        job[p].kind # "migrate" /\ job[q].kind # "migrate"

LEMMA MutexParts ==
  MutexInv <=> /\ \A p \in Process : LockOK(p)
               /\ \A p, q \in Process : p # q => AloneOK(p, q)
  BY DEF MutexInv, LockOK, AloneOK

LEMMA MutexInit == MigrationInit => MutexInv
  BY DEF MigrationInit, MutexInv, Guarded, Running

LEMMA OwnAlone ==
  ASSUME careful', TypeInv, MutexInv, NEW p \in Process, OwnStep(p), NEW q \in Process, q # p
  PROVE  AloneOK(p, q)' /\ AloneOK(q, p)'
<1>1. /\ pc'[q] = pc[q] /\ job'[q] = job[q] /\ Running(q)' = Running(q) /\ PathOf(q)' = PathOf(q)
  BY OwnFrame DEF Running, PathOf
<1>2. CASE RunVaultCommand(p) \/ cmd_migrate(p)
  <2>1. PICK kind, home, path, label : Start(p, kind, home, path, label)
    BY <1>2 DEF RunVaultCommand, cmd_migrate
  <2>2. job'[p].kind = kind /\ job'[p].path = path
    BY <2>1 DEF Start, TypeInv, TypeOK
  <2>3. Running(q) /\ PathOf(q) = path => kind # "migrate" /\ job[q].kind # "migrate"
    BY <2>1 DEF Start, MayStart
  <2>4. QED
    BY <1>1, <2>2, <2>3 DEF AloneOK, PathOf
<1>3. CASE ~ (RunVaultCommand(p) \/ cmd_migrate(p))
  <2>1. Running(p)' => Running(p) /\ job'[p] = job[p]
    BY <1>3, JobFrame
  <2>2. AloneOK(p, q) /\ AloneOK(q, p)
    BY MutexParts
  <2>3. QED
    BY <1>1, <2>1, <2>2 DEF AloneOK, PathOf
<1>4. QED
  BY <1>2, <1>3

LEMMA MutexOwn ==
  ASSUME careful', TypeInv, TypeInv', MutexInv, NEW p \in Process, OwnStep(p)
  PROVE  MutexInv'
<1>1. ASSUME NEW q \in Process
      PROVE  LockOK(q)'
  <2>1. CASE q = p
    BY <2>1, OwnLock, MutexParts
  <2>2. CASE q # p
    <3>1. pc'[q] = pc[q] /\ job'[q] = job[q] /\ LockOK(q)
      BY <2>2, OwnFrame, MutexParts
    <3>2. ASSUME pc[q] \in Guarded
          PROVE  PathOf(q) \in VaultPath
      <4>1. Running(q) /\ ShapeOK(q)
        BY <3>2 DEF Guarded, Running, TypeInv
      <4>2. QED
        BY <4>1 DEF ShapeOK, Job, PathOf
    <3>3. ASSUME NEW f \in VaultPath, lock[f] = q
          PROVE  lock'[f] = q
      <4>1. lock \in [VaultPath -> Process \cup {Free}] /\ q # Free
        BY DEF TypeInv, TypeOK
      <4>2. CASE lock' = lock
        BY <3>3, <4>2
      <4>3. CASE Take(p)
        BY <3>3, <4>1, <4>3 DEF Take
      <4>4. CASE Release(p)
        BY <2>2, <3>3, <4>1, <4>4 DEF Release
      <4>5. QED
        BY <4>2, <4>3, <4>4, LockFrame
    <3>4. QED
      BY <3>1, <3>2, <3>3 DEF LockOK, PathOf
  <2>3. QED
    BY <2>1, <2>2
<1>2. ASSUME NEW q \in Process, NEW r \in Process, q # r
      PROVE  AloneOK(q, r)'
  <2>1. CASE q = p \/ r = p
    BY <1>2, <2>1, OwnAlone
  <2>2. CASE q # p /\ r # p
    <3>1. /\ pc'[q] = pc[q] /\ job'[q] = job[q] /\ pc'[r] = pc[r] /\ job'[r] = job[r]
      BY <2>2, OwnFrame
    <3>2. AloneOK(q, r)
      BY <1>2, MutexParts
    <3>3. QED
      BY <3>1, <3>2 DEF AloneOK, Running, PathOf
  <2>3. QED
    BY <2>1, <2>2
<1>3. (\A q \in Process : LockOK(q)') /\ \A q, r \in Process : q # r => AloneOK(q, r)'
  BY <1>1, <1>2
<1>4. QED
  BY <1>3 DEF MutexInv, LockOK, AloneOK

LEMMA AfterPower ==
  ASSUME TypeInv, PowerLoss, NEW p \in Process
  PROVE  /\ pc'[p] \in {"idle", "ended"} /\ writing'[p] = NoWrite /\ disk'[p] = NoFile
         /\ stable'[p] = {NoFile} /\ ~Running(p)'
<1>1. pc'[p] \in {"idle", "ended"}
  BY DEF PowerLoss, TypeInv, TypeOK, Running
<1>2. QED
  BY <1>1, Paths, PowerFiles DEF PowerLoss, LosePower, Running

LEMMA MutexNext ==
  ASSUME careful', TypeInv, TypeInv', MutexInv, [MigrationNext]_migrationVars
  PROVE  MutexInv'
<1>1. CASE UNCHANGED migrationVars
  BY <1>1 DEF migrationVars, MutexInv, Running, PathOf
<1>2. CASE PowerLoss
  <2>1. \A p \in Process : pc'[p] \notin Guarded /\ ~Running(p)'
    BY <1>2, AfterPower DEF Guarded
  <2>2. QED
    BY <2>1 DEF MutexInv
<1>3. CASE \E p \in Process : OwnStep(p)
  BY <1>3, MutexOwn
<1>4. QED
  BY <1>1, <1>2, <1>3 DEF MigrationNext, OwnStep

\* Nobody else is at a place from which the vault is written.
LEMMA OneWriter ==
  ASSUME TypeInv, MutexInv, NEW p \in Process, NEW q \in Process, q # p,
         pc[p] \in Guarded, pc[q] \in Guarded
  PROVE  PathOf(p) # PathOf(q)
<1>1. Running(p) /\ Running(q)
  BY DEF Guarded, Running
<1>2. SUFFICES ASSUME PathOf(p) = PathOf(q)
               PROVE  FALSE
  OBVIOUS
<1>3. job[p].kind # "migrate" /\ job[q].kind # "migrate"
  BY <1>1, <1>2 DEF MutexInv
<1>4. QED
  BY <1>2, <1>3 DEF MutexInv

-----------------------------------------------------------------------------
(* The legacy vault is the only one of version 1. *)

LEMMA VersionInit == MigrationInit => VersionInv
<1> SUFFICES ASSUME MigrationInit
             PROVE  VersionInv
  OBVIOUS
<1>1. PICK f \in SUBSET {Legacy} :
         FilesInit([g \in Path |-> IF g \in f THEN VaultV1 ELSE NoFile])
  BY DEF MigrationInit
<1>2. ASSUME NEW g \in Place
      PROVE  VersionOK(g, stable[g])
  <2>1. stable[g] = {disk[g]} /\ (disk[g] = NoFile \/ (disk[g] = VaultV1 /\ g = Legacy))
    BY <1>1 DEF FilesInit
  <2>2. QED
    BY <2>1 DEF VersionOK, V1
<1>3. ASSUME NEW p \in Process
      PROVE  ViewOK(p)
  BY <1>1 DEF MigrationInit, FilesInit, ViewOK
<1>4. QED
  BY <1>2, <1>3 DEF VersionInv

\* What p writes.
LEMMA WrittenVersion ==
  ASSUME TypeInv, NEW p \in Process, ViewOK(p), writing[p] # NoWrite
  PROVE  /\ VersionOK(writing[p].path, {writing[p].bytes})
         /\ writing[p].how = "private" => ~V1(writing[p].bytes)
<1> DEFINE w == writing[p]
<1>1. WriteOK(p) /\ ShapeOK(p)
  BY WriteCalls DEF TypeInv
<1>2. CASE pc[p] = "bak"
  BY <1>1, <1>2 DEF WriteOK, ViewOK, VersionOK
<1>3. CASE pc[p] = "rewrite"
  <2>1. w.how = "plain" /\ w.bytes = [view[p] EXCEPT !.ver = 2, !.dk = p] /\ view[p] \in Whole
    BY <1>1, <1>3 DEF WriteOK, ShapeOK, V1
  <2>2. w.bytes.ver = 2
    BY <2>1 DEF Vault
  <2>3. QED
    BY <2>1, <2>2 DEF VersionOK, V1
<1>4. CASE pc[p] = "create"
  <2>1. w.bytes = Fresh(p)
    BY <1>1, <1>4 DEF WriteOK
  <2>2. w.bytes.ver = 2
    BY <2>1, FreshType
  <2>3. QED
    BY <2>2 DEF VersionOK, V1
<1>5. CASE pc[p] = "save"
  <2>1. w.bytes = [view[p] EXCEPT !.entries = @ \cup {p}] /\ view[p] \in Whole /\ view[p].ver = 2
    BY <1>1, <1>5 DEF WriteOK, ShapeOK, V2
  <2>2. w.bytes.ver = 2
    BY <2>1 DEF Vault
  <2>3. QED
    BY <2>2 DEF VersionOK, V1
<1>6. QED
  BY <1>2, <1>3, <1>4, <1>5, WriterPlace

LEMMA ViewQuiet ==
  ASSUME TypeInv, VersionInv, NEW p \in Process, QuietStep(p)
  PROVE  ViewOK(p)'
<1> USE DEF TypeInv, TypeOK, FilesTypeOK, Goto
<1>1. ViewOK(p) /\ ShapeOK(p)
  BY DEF VersionInv
<1>2. CASE End(p) /\ (writing' = writing \/ writing'[p] = NoWrite)
  BY <1>1, <1>2 DEF End, ViewOK
<1>3. CASE RunVaultCommand(p) \/ cmd_migrate(p)
  <2>1. PICK kind, home, path, label :
           Start(p, kind, home, path, label) /\ label \in {"probe", "read"}
    BY <1>3 DEF RunVaultCommand, cmd_migrate
  <2>2. pc'[p] \notin {"bak", "rewrite"} /\ writing' = writing
    BY <2>1 DEF Start, fileVars
  <2>3. QED
    BY <1>1, <2>2 DEF ViewOK
<1>4. CASE \/ LockOld(p) \/ LockNew(p) \/ CreateYields(p)
           \/ ~End(p) /\ (Probe(p) \/ Reprobe(p) \/ Load(p) \/ Use(p) \/ Refresh(p))
  <2>1. pc'[p] \notin {"bak", "rewrite"} /\ writing' = writing
    BY <1>4 DEF Probe, AfterProbe, LockOld, Reprobe, AfterReprobe, Load, LockNew, CreateYields,
                Use, Refresh, fileVars
  <2>2. QED
    BY <1>1, <2>1 DEF ViewOK
<1>5. CASE ~End(p) /\ MigrateRead(p)
  <2>1. /\ V1(disk[PathOf(p)]) /\ view'[p] = disk[PathOf(p)] /\ job' = job /\ writing' = writing
        /\ pc[p] = "read"
    BY <1>5 DEF MigrateRead, fileVars
  <2>2. PathOf(p) \in VaultPath
    BY <1>1, <2>1 DEF ShapeOK, Job, PathOf, Running
  <2>3. PathOf(p) = Legacy /\ disk[PathOf(p)] = VaultV1
    BY <2>1, <2>2, Paths DEF VersionInv, VersionOK
  <2>4. QED
    BY <1>1, <2>1, <2>3 DEF ViewOK, PathOf
<1>6. CASE create_new(p) \/ MigrateBackup(p) \/ MigrateRewrite(p) \/ (Save(p) /\ ~End(p))
  <2>1. /\ pc' = pc /\ job' = job /\ (view' = view \/ pc[p] = "create")
        /\ \E how, path, bytes : StartWrite(p, how, path, bytes)
    BY <1>6 DEF create_new, MigrateBackup, MigrateRewrite, Save
  <2>2. writing'[p].data = {}
    BY <2>1 DEF StartWrite
  <2>3. QED
    BY <1>1, <2>1, <2>2 DEF ViewOK, PathOf
<1>7. CASE Save(p) /\ End(p)
  <2>1. pc'[p] = "ended" /\ pc[p] = "save"
    BY <1>7 DEF Save, End
  <2>2. writing' = writing
    BY <1>7, <2>1 DEF Save, fileVars
  <2>3. QED
    BY <1>2, <1>7, <2>2
<1>8. CASE End(p) /\ (Probe(p) \/ Reprobe(p) \/ Load(p) \/ MigrateRead(p) \/ Use(p) \/ Refresh(p))
  <2>1. writing' = writing
    BY <1>8 DEF Probe, Reprobe, Load, MigrateRead, Use, Refresh, fileVars
  <2>2. QED
    BY <1>2, <1>8, <2>1
<1>9. CASE (Report(p) \/ Kill(p))
  <2>1. End(p) /\ (writing' = writing \/ writing'[p] = NoWrite)
    BY <1>9 DEF Report, Kill, WriterDies, fileVars
  <2>2. QED
    BY <1>2, <2>1
<1>10. QED
  BY <1>3, <1>4, <1>5, <1>6, <1>7, <1>8, <1>9 DEF QuietStep

LEMMA VersionPut ==
  ASSUME TypeInv, VersionInv, NEW f \in Place, NEW c, Put(f, c), VersionOK(f, {c})
  PROVE  \A g \in Place : VersionOK(g, stable'[g])
<1>1. stable' = [stable EXCEPT ![f] = @ \cup {c}]
  BY DEF Put
<1>2. QED
  BY <1>1 DEF VersionInv, VersionOK, TypeInv, TypeOK, FilesTypeOK

LEMMA VersionCall ==
  ASSUME TypeInv, VersionInv, NEW p \in Process, CallStep(p)
  PROVE  /\ \A g \in Place : VersionOK(g, stable'[g])
         /\ writing'[p] # NoWrite => \A c \in writing'[p].data : ~V1(c)
<1> DEFINE w == writing[p]
<1>1. /\ w # NoWrite /\ w.path \in Place /\ p \in Place /\ p # w.path /\ p \notin {Legacy, V1Bak}
      /\ w.how \in {"plain", "private"} /\ w.at \in 1 .. Calls(w.how)
  BY CallAt, Paths
<1>2. VersionOK(w.path, {w.bytes}) /\ (w.how = "private" => ~V1(w.bytes)) /\ ViewOK(p)
  BY <1>1, WrittenVersion DEF VersionInv
<1>3. ~V1(Torn) /\ ~V1(NoFile)
  BY DEF V1
<1>4. \A c \in stable[p] : ~V1(c)
  BY <1>1 DEF VersionInv, VersionOK
<1>5. stable \in [Place -> SUBSET Contents] /\ \A f \in Place : disk[f] \in stable[f]
  BY DEF TypeInv, TypeOK, FilesTypeOK
<1>6. \A g \in Place : VersionOK(g, stable[g])
  BY DEF VersionInv
<1>7. \A g \in Place : VersionOK(g, stable'[g])
  <2>1. CASE w.how = "plain"
    <3>1. w.at \in {1, 2}
      BY <1>1, <2>1 DEF Calls
    <3>2. Put(w.path, Torn) \/ Put(w.path, w.bytes)
      BY <2>1, <3>1, CallAt
    <3>3. VersionOK(w.path, {Torn})
      BY <1>3 DEF VersionOK
    <3>4. QED
      BY <1>1, <1>2, <3>2, <3>3, VersionPut
  <2>2. CASE w.how = "private" /\ w.at \in {1, 2}
    <3>1. Put(p, Torn) \/ Put(p, w.bytes)
      BY <2>2, CallAt
    <3>2. VersionOK(p, {Torn}) /\ VersionOK(p, {w.bytes})
      BY <1>2, <1>3, <2>2 DEF VersionOK
    <3>3. QED
      BY <1>1, <3>1, <3>2, VersionPut
  <2>3. CASE w.how = "private" /\ w.at = 3
    <3>1. stable' = [stable EXCEPT ![p] = {NoFile, disk[p]}]
      BY <2>3, CallAt
    <3>2. ~V1(disk[p])
      BY <1>1, <1>4, <1>5
    <3>3. QED
      BY <1>1, <1>3, <1>5, <1>6, <3>1, <3>2 DEF VersionOK
  <2>4. CASE w.how = "private" /\ w.at = 4 /\ os # "unix"
    <3>1. Put(w.path, NoFile)
      BY <2>4, CallAt
    <3>2. VersionOK(w.path, {NoFile})
      BY <1>3 DEF VersionOK
    <3>3. QED
      BY <1>1, <3>1, <3>2, VersionPut
  <2>5. CASE w.how = "private" /\ w.at = 5 /\ os = "unix"
    <3>1. \/ stable' = [stable EXCEPT ![w.path] = w.data \cup {disk[w.path]}]
          \/ stable' = stable
      BY <2>5, CallAt
    <3>2. VersionOK(w.path, w.data \cup {disk[w.path]})
      BY <1>1, <1>2, <1>5, <1>6 DEF ViewOK, VersionOK
    <3>3. QED
      BY <1>1, <1>5, <1>6, <3>1, <3>2
  <2>6. CASE w.how = "private" /\ w.at = IF os = "unix" THEN 4 ELSE 5
    <3>1. stable' = [stable EXCEPT ![w.path] = @ \cup (stable[p] \ {NoFile}), ![p] = {NoFile}]
      BY <2>6, CallAt
    <3>2. VersionOK(w.path, stable[w.path] \cup (stable[p] \ {NoFile})) /\ VersionOK(p, {NoFile})
      BY <1>1, <1>3, <1>4, <1>6 DEF VersionOK
    <3>3. QED
      BY <1>1, <1>5, <1>6, <3>1, <3>2
  <2>7. w.how = "private" => w.at \in {1, 2, 3, 4, 5}
    BY <1>1 DEF Calls
  <2>8. QED
    BY <1>1, <2>1, <2>2, <2>3, <2>4, <2>5, <2>6, <2>7
<1>8. ASSUME writing'[p] # NoWrite
      PROVE  \A c \in writing'[p].data : ~V1(c)
  <2>1. PICK data \in {{}, stable[p] \ {NoFile}} : Advance(p, data)
    BY CallAt
  <2>2. data \in SUBSET Contents
    BY <1>1, <1>5, <2>1
  <2>3. \A c \in data : ~V1(c)
    BY <1>4, <2>1
  <2>4. writing \in [Process -> Write \cup {NoWrite}]
    BY DEF TypeInv, TypeOK, FilesTypeOK
  <2>5. writing'[p].data = data
    BY <1>1, <1>8, <2>1, <2>2, <2>4, Advanced
  <2>6. QED
    BY <2>3, <2>5
<1>9. QED
  BY <1>7, <1>8

LEMMA VersionOwn ==
  ASSUME TypeInv, VersionInv, NEW p \in Process, OwnStep(p)
  PROVE  VersionInv'
<1>1. ASSUME NEW q \in Process, q # p
      PROVE  ViewOK(q)'
  <2>1. /\ pc'[q] = pc[q] /\ job'[q] = job[q] /\ view'[q] = view[q] /\ writing'[q] = writing[q]
    BY <1>1, OwnFrame
  <2>2. ViewOK(q)
    BY DEF VersionInv
  <2>3. QED
    BY <2>1, <2>2 DEF ViewOK, PathOf
<1>2. CASE QuietStep(p)
  <2>1. \A g \in Place : VersionOK(g, stable'[g])
    BY <1>2, QuietFiles DEF VersionInv
  <2>2. QED
    BY <1>1, <1>2, <2>1, ViewQuiet DEF VersionInv
<1>3. CASE WriteContinues(p)
  <2>1. PICK saved \in {"done", "unsynced"} :
           /\ CallStep(p) /\ view' = view
           /\ UNCHANGED <<job, pc, lock>> \/ AfterWrite(p, saved)
    BY <1>3, CallSaved
  <2>2. writing[p] # NoWrite /\ ViewOK(p)
    BY <1>3, CallFiles DEF VersionInv
  <2>3. pc'[p] \in {"bak", "rewrite"} => pc[p] \in {"bak", "rewrite"} /\ job'[p] = job[p]
    <3>1. CASE AfterWrite(p, saved)
      BY <2>2, <3>1, WriteReturns DEF TypeInv, TypeOK
    <3>2. CASE UNCHANGED <<job, pc, lock>>
      BY <3>2
    <3>3. QED
      BY <2>1, <3>1, <3>2
  <2>4. ViewOK(p)'
    BY <2>1, <2>2, <2>3, VersionCall DEF ViewOK, PathOf
  <2>5. QED
    BY <1>1, <2>1, <2>4, VersionCall DEF VersionInv
<1>4. CASE WriteError(p)
  <2>1. /\ pc'[p] = "ended" /\ writing'[p] = NoWrite
        /\ stable' = stable \/ stable' = [stable EXCEPT ![p] = {NoFile}]
    BY <1>4 DEF WriteError, WriteFails, End, TypeInv, TypeOK, FilesTypeOK
  <2>2. ViewOK(p)'
    BY <2>1 DEF ViewOK
  <2>3. \A g \in Place : VersionOK(g, stable'[g])
    BY <2>1 DEF VersionInv, VersionOK, V1, TypeInv, TypeOK, FilesTypeOK
  <2>4. QED
    BY <1>1, <2>2, <2>3 DEF VersionInv
<1>5. QED
  BY <1>2, <1>3, <1>4, Steps

LEMMA VersionNext ==
  ASSUME TypeInv, VersionInv, [MigrationNext]_migrationVars
  PROVE  VersionInv'
<1>1. CASE UNCHANGED migrationVars
  BY <1>1 DEF migrationVars, fileVars, VersionInv, VersionOK, ViewOK, PathOf
<1>2. CASE PowerLoss
  <2>1. \A p \in Process : ViewOK(p)'
    BY <1>2, AfterPower DEF ViewOK
  <2>2. ASSUME NEW f \in Place
        PROVE  VersionOK(f, stable'[f])
    <3>1. stable'[f] = {disk'[f]} /\ (disk'[f] \in stable[f] \/ disk'[f] = NoFile)
      BY <1>2, PowerFiles, Paths DEF Place
    <3>2. QED
      BY <3>1 DEF VersionInv, VersionOK, V1
  <2>3. QED
    BY <2>1, <2>2 DEF VersionInv
<1>3. QED
  BY <1>1, <1>2, VersionOwn DEF MigrationNext, OwnStep

-----------------------------------------------------------------------------
(* The files that a command replaces. *)

\* What is left of a write after a call that returned.
LEMMA CallResult ==
  ASSUME TypeInv, NEW p \in Process, WriteContinues(p)
  PROVE  LET w == writing[p]
             v == writing'[p]
         IN  /\ CallStep(p) /\ w # NoWrite /\ w.at \in 1 .. Calls(w.how)
             /\ view' = view /\ job' = job /\ acked' = acked /\ power' = power
             /\ \/ /\ w.at < Calls(w.how) /\ pc' = pc /\ lock' = lock /\ v # NoWrite
                   /\ v.how = w.how /\ v.path = w.path /\ v.bytes = w.bytes /\ v.at = w.at + 1
                   /\ v.data = IF w.how = "private" /\ w.at = (IF os = "unix" THEN 4 ELSE 5)
                               THEN stable[p] \ {NoFile} ELSE {}
                \/ /\ w.at = Calls(w.how) /\ v = NoWrite
                   /\ \/ pc[p] = "bak" /\ pc'[p] = "rewrite"
                      \/ pc[p] = "rewrite" /\ job[p].kind = "migrate" /\ pc'[p] = "done"
                      \/ pc[p] = "rewrite" /\ job[p].kind # "migrate" /\ pc'[p] = "load"
                      \/ pc[p] = "create" /\ pc'[p] = "use"
                      \/ /\ pc[p] = "save" /\ pc'[p] \in {"done", "unsynced"}
                         /\ pc'[p] = "done" => WriteStep(p)
<1> DEFINE w == writing[p]
           rename == w.how = "private" /\ w.at = (IF os = "unix" THEN 4 ELSE 5)
           data == IF rename THEN stable[p] \ {NoFile} ELSE {}
<1>0. PICK saved \in {"done", "unsynced"} :
         CallStep(p) /\ Called(p, saved) /\ (saved = "done" => WriteStep(p))
  BY CallSaved
<1>1. /\ CallStep(p) /\ view' = view /\ acked' = acked /\ power' = power
      /\ IF writing'[p] = NoWrite THEN AfterWrite(p, saved) ELSE UNCHANGED <<job, pc, lock>>
  BY <1>0 DEF Called, Keep
<1>2. w # NoWrite /\ w.at \in 1 .. Calls(w.how) /\ p \in Place
  BY <1>1, CallAt
<1>3. Advance(p, data)
  BY <1>1, CallAt
<1>4. data \in SUBSET Contents /\ p \in DOMAIN pc /\ writing \in [Process -> Write \cup {NoWrite}]
  <2>1. stable[p] \in SUBSET Contents
    BY <1>2 DEF TypeInv, TypeOK, FilesTypeOK
  <2>2. QED
    BY <2>1 DEF TypeInv, TypeOK, FilesTypeOK
<1> HIDE DEF data
<1>5. CASE w.at < Calls(w.how)
  <2>1. \E v \in Write : /\ v.how = w.how /\ v.path = w.path /\ v.bytes = w.bytes
                         /\ v.at = w.at + 1 /\ v.data = data
                         /\ writing' = [writing EXCEPT ![p] = v]
    <3>1. w.at # Calls(w.how)
      BY <1>5 DEF Calls
    <3>2. QED
      BY <1>2, <1>3, <1>4, <3>1, Advanced
  <2>2. PICK v \in Write : /\ v.how = w.how /\ v.path = w.path /\ v.bytes = w.bytes
                           /\ v.at = w.at + 1 /\ v.data = data
                           /\ writing' = [writing EXCEPT ![p] = v]
    BY <2>1
  <2>3. writing'[p] = v /\ writing'[p] # NoWrite
    BY <1>4, <2>2
  <2>4. UNCHANGED <<job, pc, lock>>
    BY <1>1, <2>3
  <2>5. QED
    BY <1>1, <1>2, <1>5, <2>2, <2>3, <2>4 DEF data
<1>6. CASE ~ (w.at < Calls(w.how))
  <2>1. w.at = Calls(w.how) /\ writing'[p] = NoWrite
    BY <1>2, <1>3, <1>4, <1>6, Advanced
  <2>2. AfterWrite(p, saved)
    BY <1>1, <2>1
  <2>3. /\ job' = job
        /\ \/ pc[p] = "bak" /\ pc'[p] = "rewrite"
           \/ pc[p] = "rewrite" /\ job[p].kind = "migrate" /\ pc'[p] = "done"
           \/ pc[p] = "rewrite" /\ job[p].kind # "migrate" /\ pc'[p] = "load"
           \/ pc[p] = "create" /\ pc'[p] = "use"
           \/ pc[p] = "save" /\ pc'[p] = saved
    BY <1>2, <1>4, <2>2, WriteReturns
  <2>4. QED
    BY <1>0, <1>1, <1>2, <2>1, <2>3
<1>7. QED
  BY <1>5, <1>6

\* The path of a write is that of the command, or the copy.
LEMMA WritePath ==
  ASSUME TypeInv, NEW p \in Process, writing[p] # NoWrite
  PROVE  /\ PathOf(p) \in VaultPath /\ PathOf(p) \in Place /\ PathOf(p) # V1Bak /\ PathOf(p) # p
         /\ V1Bak \in Place /\ V1Bak # p
         /\ writing[p].path = IF pc[p] = "bak" THEN V1Bak ELSE PathOf(p)
<1>1. job[p] \in Job /\ WriteOK(p)
  BY WriterPlace, WriteCalls
<1>2. PathOf(p) \in VaultPath
  BY <1>1 DEF Job, PathOf
<1>3. QED
  BY <1>1, <1>2, Paths DEF WriteOK

LEMMA WriteKind ==
  ASSUME TypeInv, NEW p \in Process, writing[p] # NoWrite
  PROVE  LET w == writing[p] IN
         \/ w.how = "plain" /\ w.at \in {1, 2} /\ pc[p] \in {"bak", "rewrite"}
         \/ w.how = "private" /\ w.at \in {1, 2, 3, 4, 5} /\ pc[p] \in {"create", "save"}
<1>1. WriteOK(p)
  BY WriteCalls
<1>2. QED
  BY <1>1 DEF WriteOK, Calls

LEMMA Kinds ==
  /\ VaultV1 \in Whole /\ VaultV1.ver = 1 /\ VaultV1.entries = {Old}
  /\ NoFile \notin Whole /\ Torn \notin Whole
  BY DEF VaultV1, Vault, Entry

\* The contents that `set` and a migration write.
LEMMA Saved ==
  ASSUME NEW c \in Whole, NEW p \in Process
  PROVE  LET s == [c EXCEPT !.entries = @ \cup {p}] IN
         s \in Whole /\ s.ver = c.ver /\ s.dk = c.dk /\ s.entries = c.entries \cup {p}
  BY DEF Vault, Entry

LEMMA Migrated ==
  ASSUME NEW c \in Whole, NEW p \in Process
  PROVE  LET m == [c EXCEPT !.ver = 2, !.dk = p] IN
         m \in Whole /\ m.ver = 2 /\ m.entries = c.entries
  BY DEF Vault, Entry

\* On Unix a vault file is only ever replaced by one under its data key and with its
\* entries.
LEMMA VaultGrows ==
  ASSUME TypeInv, VersionInv, NEW p \in Process, MigrateOK(p), PrivateOK(p), os = "unix",
         OwnStep(p), NEW f \in VaultPath, V2(disk[f])
  PROVE  V2(disk'[f]) /\ disk'[f].dk = disk[f].dk /\ disk[f].entries \subseteq disk'[f].entries
<1>1. f \in Place /\ f # p
  BY Paths
<1>2. CASE QuietStep(p)
  BY <1>2, QuietFiles
<1>3. CASE WriteError(p)
  <2>1. disk' = disk \/ disk' = [disk EXCEPT ![p] = NoFile]
    BY <1>3 DEF WriteError, WriteFails
  <2>2. QED
    BY <1>1, <2>1 DEF TypeInv, TypeOK, FilesTypeOK
<1>4. CASE WriteContinues(p)
  <2> DEFINE w == writing[p]
  <2>1. CallStep(p) /\ w # NoWrite
    BY <1>4, CallResult
  <2>2. CASE w.path # f
    BY <1>1, <1>4, <2>2, CallFiles
  <2>3. CASE w.path = f
    <3>1. pc[p] # "bak" /\ PathOf(p) = f
      BY <2>1, <2>3, WritePath, Paths
    <3>2. w.how = "plain" => FALSE
      <4>1. SUFFICES ASSUME w.how = "plain"
                     PROVE  FALSE
        OBVIOUS
      <4>2. pc[p] = "rewrite" /\ w.at \in {1, 2}
        BY <2>1, <3>1, <4>1, WriteKind
      <4>3. f = Legacy
        BY <3>1, <4>2 DEF VersionInv, ViewOK
      <4>4. disk[f] = VaultV1 \/ disk[f] = Torn
        BY <2>1, <4>2, <4>3 DEF MigrateOK
      <4>5. QED
        BY <4>4, Kinds DEF V2
    <3>3. /\ w.how = "private" /\ w.at \in {1, 2, 3, 4, 5} /\ pc[p] \in {"create", "save"}
          /\ WriteOK(p) /\ p \in Place
      BY <2>1, <3>2, CallAt, WriteKind
    <3>8. disk \in [Place -> Contents]
      BY DEF TypeInv, TypeOK, FilesTypeOK
    <3>4. CASE w.at = 4
      <4>1. disk' = [disk EXCEPT ![f] = disk[p], ![p] = NoFile]
        BY <2>1, <2>3, <3>3, <3>4, CallAt
      <4>2. disk[p] = w.bytes /\ disk[f] = IF pc[p] = "create" THEN NoFile ELSE view[p]
        BY <2>1, <3>1, <3>3, <3>4 DEF PrivateOK
      <4>3. pc[p] = "save" /\ disk[f] = view[p]
        BY <3>3, <4>2, Kinds DEF V2
      <4>4. w.bytes = [view[p] EXCEPT !.entries = @ \cup {p}] /\ view[p] \in Whole
        BY <3>3, <4>3 DEF WriteOK, V2
      <4>5. disk'[f] = w.bytes
        BY <1>1, <3>3, <3>8, <4>1, <4>2
      <4>6. w.bytes \in Whole /\ w.bytes.ver = view[p].ver /\ w.bytes.dk = view[p].dk
            /\ view[p].entries \subseteq w.bytes.entries
        BY <4>4, Saved
      <4>7. QED
        BY <4>3, <4>5, <4>6 DEF V2
    <3>5. CASE w.at \in {1, 2}
      <4>1. Put(p, Torn) \/ Put(p, w.bytes)
        BY <2>1, <3>3, <3>5, CallAt
      <4>2. disk'[f] = disk[f]
        BY <1>1, <3>3, <3>8, <4>1 DEF Put
      <4>3. QED
        BY <4>2
    <3>6. CASE w.at \in {3, 5}
      <4>1. disk' = disk
        BY <2>1, <3>3, <3>6, CallAt
      <4>2. QED
        BY <4>1
    <3>7. QED
      BY <3>3, <3>4, <3>5, <3>6
  <2>4. QED
    BY <2>2, <2>3
<1>5. QED
  BY <1>2, <1>3, <1>4, Steps

\* While a command has a vault to itself, nobody changes the file.
LEMMA Untouched ==
  ASSUME TypeInv, MutexInv, NEW p \in Process, OwnStep(p), NEW q \in Process, q # p,
         pc[q] \in Guarded
  PROVE  disk'[PathOf(q)] = disk[PathOf(q)] /\ stable'[PathOf(q)] = stable[PathOf(q)]
<1>1. CASE QuietStep(p)
  BY <1>1, QuietFiles
<1>2. CASE WriteContinues(p) \/ WriteError(p)
  <2>1. writing[p] # NoWrite
    BY <1>2, CallFiles
  <2>2. pc[p] \in Guarded
    BY <2>1, WriterPlace DEF Guarded
  <2>3. PathOf(q) \in VaultPath
    <3>1. ShapeOK(q) /\ Running(q)
      BY DEF TypeInv, Guarded, Running
    <3>2. QED
      BY <3>1 DEF ShapeOK, Job, PathOf
  <2>4. PathOf(q) # writing[p].path /\ PathOf(q) \in Place /\ PathOf(q) # p
    BY <2>1, <2>2, <2>3, OneWriter, WritePath, Paths
  <2>5. QED
    BY <1>2, <2>4, CallFiles
<1>3. QED
  BY <1>1, <1>2, Steps

\* Nor the copy of the v1 file.
LEMMA CopyUntouched ==
  ASSUME TypeInv, MutexInv, VersionInv, NEW p \in Process, OwnStep(p), NEW q \in Process, q # p,
         pc[q] \in {"bak", "rewrite"}
  PROVE  disk'[V1Bak] = disk[V1Bak]
<1>1. CASE QuietStep(p)
  BY <1>1, QuietFiles
<1>2. CASE WriteContinues(p) \/ WriteError(p)
  <2>1. writing[p] # NoWrite
    BY <1>2, CallFiles
  <2>2. pc[p] \in Guarded /\ pc[q] \in Guarded
    BY <2>1, WriterPlace DEF Guarded
  <2>3. pc[p] # "bak"
    BY <2>2, OneWriter DEF VersionInv, ViewOK
  <2>4. V1Bak # writing[p].path /\ V1Bak \in Place /\ V1Bak # p
    BY <2>1, <2>3, WritePath
  <2>5. QED
    BY <1>2, <2>4, CallFiles
<1>3. QED
  BY <1>1, <1>2, Steps

LEMMA FilesOther ==
  ASSUME TypeInv, MutexInv, VersionInv, FilesInv, NEW p \in Process, OwnStep(p),
         NEW q \in Process, q # p
  PROVE  MigrateOK(q)' /\ PrivateOK(q)' /\ OpenOK(q)'
<1>1. /\ pc'[q] = pc[q] /\ job'[q] = job[q] /\ view'[q] = view[q] /\ writing'[q] = writing[q]
      /\ os' = os /\ disk'[q] = disk[q] /\ stable'[q] = stable[q] /\ PathOf(q)' = PathOf(q)
  BY OwnFrame, TempFiles DEF PathOf
<1>2. MigrateOK(q) /\ PrivateOK(q) /\ OpenOK(q) /\ ViewOK(q) /\ MigrateOK(p) /\ PrivateOK(p)
  BY DEF FilesInv, VersionInv
<1>3. MigrateOK(q)'
  <2>1. CASE pc[q] \in {"bak", "rewrite"}
    <3>1. PathOf(q) = Legacy /\ pc[q] \in Guarded
      BY <1>2, <2>1 DEF ViewOK, Guarded
    <3>2. disk'[Legacy] = disk[Legacy] /\ disk'[V1Bak] = disk[V1Bak]
      BY <2>1, <3>1, Untouched, CopyUntouched
    <3>3. QED
      BY <1>1, <1>2, <3>2 DEF MigrateOK
  <2>2. CASE pc[q] \notin {"bak", "rewrite"}
    BY <1>1, <2>2 DEF MigrateOK
  <2>3. QED
    BY <2>1, <2>2
<1>4. PrivateOK(q)'
  <2>1. CASE writing[q] # NoWrite /\ writing[q].how = "private"
    <3>1. pc[q] \in Guarded
      BY <2>1, WriterPlace DEF Guarded
    <3>2. disk'[PathOf(q)] = disk[PathOf(q)]
      BY <3>1, Untouched
    <3>3. QED
      BY <1>1, <1>2, <2>1, <3>2 DEF PrivateOK
  <2>2. CASE ~ (writing[q] # NoWrite /\ writing[q].how = "private")
    BY <1>1, <1>2, <2>2 DEF PrivateOK
  <2>3. QED
    BY <2>1, <2>2
<1>5. OpenOK(q)'
  <2>1. ASSUME os = "unix", pc[q] \in {"use", "refresh", "save"}
        PROVE  V2(disk'[PathOf(q)]) /\ disk'[PathOf(q)].dk = view[q].dk
    <3>1. V2(disk[PathOf(q)]) /\ disk[PathOf(q)].dk = view[q].dk
      BY <1>2, <2>1 DEF OpenOK
    <3>2. PathOf(q) \in VaultPath
      <4>1. ShapeOK(q) /\ Running(q)
        BY <2>1 DEF TypeInv, Running
      <4>2. QED
        BY <4>1 DEF ShapeOK, Job, PathOf
    <3>3. QED
      BY <1>2, <2>1, <3>1, <3>2, VaultGrows
  <2>2. ASSUME pc[q] \in {"done", "unsynced"}
        PROVE  /\ disk'[PathOf(q)] = disk[PathOf(q)]
               /\ stable'[PathOf(q)] = stable[PathOf(q)]
    BY <2>2, Untouched DEF Guarded
  <2>3. QED
    BY <1>1, <1>2, <2>1, <2>2 DEF OpenOK, HeldAt, V2
<1>6. QED
  BY <1>3, <1>4, <1>5

FilesOK(p) == MigrateOK(p) /\ PrivateOK(p) /\ OpenOK(p)

\* A command that is over, or has not begun to write.
LEMMA FilesEnd ==
  ASSUME TypeInv', NEW p \in Process, pc'[p] = "ended"
  PROVE  FilesOK(p)'
<1>1. writing'[p] = NoWrite
  BY DEF TypeInv, ShapeOK, Running
<1>2. QED
  BY <1>1 DEF FilesOK, MigrateOK, PrivateOK, OpenOK

LEMMA FilesIdle ==
  ASSUME NEW p \in Process, writing'[p] = NoWrite, disk'[p] = NoFile,
         pc'[p] \notin {"bak", "rewrite", "use", "refresh", "save", "done", "unsynced"}
  PROVE  FilesOK(p)'
  BY DEF FilesOK, MigrateOK, PrivateOK, OpenOK

LEMMA FilesQuiet ==
  ASSUME TypeInv, TypeInv', VersionInv, VersionInv', NEW p \in Process, FilesOK(p), QuietStep(p)
  PROVE  FilesOK(p)'
<1> USE DEF TypeInv, TypeOK, FilesTypeOK, Goto
<1>1. disk' = disk /\ stable' = stable /\ os' = os
  BY QuietFiles
<1>2. MigrateOK(p) /\ PrivateOK(p) /\ OpenOK(p) /\ ViewOK(p) /\ ViewOK(p)' /\ ShapeOK(p)
  BY DEF FilesOK, VersionInv
<1>3. CASE pc'[p] = "ended"
  BY <1>3, FilesEnd
<1>4. writing[p] = NoWrite /\ pc[p] # "ended" => disk[p] = NoFile
  BY <1>2 DEF PrivateOK
<1>5. CASE RunVaultCommand(p) \/ cmd_migrate(p)
  <2>1. PICK kind, home, path, label :
           Start(p, kind, home, path, label) /\ label \in {"probe", "read"}
    BY <1>5 DEF RunVaultCommand, cmd_migrate
  <2>2. writing' = writing /\ pc[p] = "idle" /\ pc'[p] = label
    BY <2>1 DEF Start, fileVars
  <2>3. writing[p] = NoWrite
    BY <1>2, <2>2 DEF ShapeOK, Running
  <2>4. QED
    BY <1>1, <1>4, <2>1, <2>2, <2>3, FilesIdle
<1>6. CASE \/ LockOld(p) \/ LockNew(p) \/ CreateYields(p)
           \/ pc'[p] # "ended" /\ (Probe(p) \/ Reprobe(p))
  <2>1. /\ writing' = writing /\ pc[p] \in {"probe", "lock_old", "lock_new", "reprobe", "create"}
        /\ pc[p] = "create" => writing[p] = NoWrite
        /\ pc'[p] \in {"lock_new", "lock_old", "load", "reprobe", "read", "create"}
    BY <1>6 DEF Probe, AfterProbe, LockOld, Reprobe, AfterReprobe, LockNew, CreateYields, fileVars,
                End
  <2>2. writing[p] = NoWrite
    BY <2>1, WriterPlace
  <2>3. QED
    BY <1>1, <1>4, <2>1, <2>2, FilesIdle
<1>7. CASE Load(p) /\ pc'[p] # "ended"
  <2>1. /\ writing' = writing /\ pc[p] = "load" /\ V2(disk[PathOf(p)]) /\ pc'[p] = "use"
        /\ view'[p] = disk[PathOf(p)] /\ job' = job
    BY <1>7 DEF Load, End, fileVars
  <2>2. writing[p] = NoWrite
    BY <2>1, WriterPlace
  <2>3. OpenOK(p)'
    BY <1>1, <2>1 DEF OpenOK, PathOf, V2
  <2>4. QED
    BY <1>1, <1>4, <2>1, <2>2, <2>3 DEF FilesOK, MigrateOK, PrivateOK
<1>8. CASE Use(p) /\ pc'[p] # "ended"
  <2>1. /\ writing' = writing /\ pc[p] = "use" /\ pc'[p] = "refresh" /\ view' = view /\ job' = job
    BY <1>8 DEF Use, End, fileVars
  <2>2. writing[p] = NoWrite
    BY <2>1, WriterPlace
  <2>3. OpenOK(p)'
    BY <1>1, <1>2, <2>1 DEF OpenOK, PathOf, V2
  <2>4. QED
    BY <1>1, <1>4, <2>1, <2>2, <2>3 DEF FilesOK, MigrateOK, PrivateOK
<1>9. CASE Refresh(p) /\ pc'[p] # "ended"
  <2>1. /\ writing' = writing /\ pc[p] = "refresh" /\ V2(disk[PathOf(p)]) /\ pc'[p] = "save"
        /\ view'[p] = disk[PathOf(p)] /\ job' = job
    BY <1>9 DEF Refresh, End, fileVars
  <2>2. writing[p] = NoWrite
    BY <2>1, WriterPlace
  <2>3. OpenOK(p)'
    BY <1>1, <2>1 DEF OpenOK, PathOf, V2
  <2>4. QED
    BY <1>1, <1>4, <2>1, <2>2, <2>3 DEF FilesOK, MigrateOK, PrivateOK
<1>10. CASE MigrateRead(p) /\ pc'[p] # "ended"
  <2>1. /\ writing' = writing /\ pc[p] = "read" /\ pc'[p] = "bak" /\ job' = job
        /\ view'[p] = disk[PathOf(p)]
    BY <1>10 DEF MigrateRead, FirstWrite, End, fileVars
  <2>2. writing[p] = NoWrite
    BY <2>1, WriterPlace
  <2>3. disk[Legacy] = VaultV1
    BY <1>2, <2>1 DEF ViewOK, PathOf
  <2>4. QED
    BY <1>1, <1>4, <2>1, <2>2, <2>3 DEF FilesOK, MigrateOK, PrivateOK, OpenOK
<1>11. CASE create_new(p)
  <2>1. PICK new : /\ pc[p] = "create" /\ writing[p] = NoWrite /\ disk[PathOf(p)] = NoFile
                   /\ StartWrite(p, "private", PathOf(p), new) /\ pc' = pc /\ job' = job
    BY <1>11 DEF create_new, MayCreate, Exists
  <2>2. writing'[p].how = "private" /\ writing'[p].at = 1
    BY <2>1 DEF StartWrite
  <2>3. QED
    BY <1>1, <1>4, <2>1, <2>2 DEF FilesOK, MigrateOK, PrivateOK, OpenOK, PathOf
<1>12. CASE MigrateBackup(p)
  <2>1. /\ pc[p] = "bak" /\ writing[p] = NoWrite /\ StartWrite(p, "plain", V1Bak, view[p])
        /\ pc' = pc /\ job' = job
    BY <1>12 DEF MigrateBackup, StartWrite
  <2>2. writing'[p].how = "plain"
    BY <2>1 DEF StartWrite
  <2>3. QED
    BY <1>1, <1>2, <1>4, <2>1, <2>2 DEF FilesOK, MigrateOK, PrivateOK, OpenOK
<1>13. CASE MigrateRewrite(p)
  <2>1. PICK bytes : /\ pc[p] = "rewrite" /\ writing[p] = NoWrite
                     /\ StartWrite(p, "plain", PathOf(p), bytes) /\ pc' = pc /\ job' = job
    BY <1>13 DEF MigrateRewrite, StartWrite
  <2>2. writing'[p].how = "plain" /\ writing'[p].at = 1
    BY <2>1 DEF StartWrite
  <2>3. QED
    BY <1>1, <1>2, <1>4, <2>1, <2>2 DEF FilesOK, MigrateOK, PrivateOK, OpenOK
<1>14. CASE Save(p) /\ pc'[p] # "ended"
  <2>1. PICK bytes : /\ pc[p] = "save" /\ writing[p] = NoWrite /\ disk[PathOf(p)] = view[p]
                     /\ StartWrite(p, "private", PathOf(p), bytes) /\ pc' = pc /\ job' = job
                     /\ view' = view
    BY <1>14 DEF Save, End
  <2>2. writing'[p].how = "private" /\ writing'[p].at = 1
    BY <2>1 DEF StartWrite
  <2>3. PrivateOK(p)' /\ MigrateOK(p)'
    BY <1>1, <1>4, <2>1, <2>2 DEF PrivateOK, PathOf, MigrateOK
  <2>4. OpenOK(p)'
    BY <1>1, <1>2, <2>1 DEF OpenOK, PathOf, V2
  <2>5. QED
    BY <2>3, <2>4 DEF FilesOK
<1>15. CASE Report(p) \/ Kill(p)
  BY <1>3, <1>15 DEF Report, Kill, End
<1>16. QED
  BY <1>3, <1>5, <1>6, <1>7, <1>8, <1>9, <1>10, <1>11, <1>12, <1>13, <1>14, <1>15 DEF QuietStep

LEMMA PlainResult ==
  ASSUME TypeInv, NEW p \in Process, WriteContinues(p), writing[p].how = "plain"
  PROVE  LET v == writing'[p] IN
         \/ writing[p].at = 1 /\ pc' = pc /\ v # NoWrite /\ v.how = "plain" /\ v.at = 2
         \/ /\ writing[p].at = 2 /\ v = NoWrite
            /\ \/ pc[p] = "bak" /\ pc'[p] = "rewrite"
               \/ pc[p] = "rewrite" /\ job[p].kind = "migrate" /\ pc'[p] = "done"
               \/ pc[p] = "rewrite" /\ job[p].kind # "migrate" /\ pc'[p] = "load"
<1> DEFINE w == writing[p]
           v == writing'[p]
<1>1. Calls(w.how) = 2 /\ w # NoWrite
  BY CallResult DEF Calls
<1>2. w.at \in {1, 2} /\ pc[p] \in {"bak", "rewrite"}
  BY <1>1, WriteKind
<1>3. CASE w.at = 1
  <2>1. w.at # Calls(w.how) /\ w.at + 1 = 2
    BY <1>1, <1>3
  <2>2. pc' = pc /\ v # NoWrite /\ v.how = w.how /\ v.at = w.at + 1
    BY <2>1, CallResult
  <2>3. QED
    BY <1>3, <2>1, <2>2
<1>4. CASE w.at = 2
  <2>1. ~ (w.at < Calls(w.how))
    BY <1>1, <1>4
  <2>2. QED
    BY <1>2, <1>4, <2>1, CallResult
<1>5. QED
  BY <1>2, <1>3, <1>4

LEMMA PrivateResult ==
  ASSUME TypeInv, NEW p \in Process, WriteContinues(p), writing[p].how = "private"
  PROVE  LET w == writing[p]
             v == writing'[p]
         IN  /\ w.at \in {1, 2, 3, 4} =>
                   /\ pc' = pc /\ v # NoWrite /\ v.how = "private" /\ v.bytes = w.bytes
                   /\ v.at = (IF w.at = 1 THEN 2 ELSE IF w.at = 2 THEN 3
                             ELSE IF w.at = 3 THEN 4 ELSE 5)
                   /\ os = "unix" /\ w.at = 4 => v.data = stable[p] \ {NoFile}
             /\ w.at = 5 => /\ v = NoWrite
                            /\ \/ pc[p] = "create" /\ pc'[p] = "use"
                               \/ /\ pc[p] = "save" /\ pc'[p] \in {"done", "unsynced"}
                                  /\ pc'[p] = "done" => WriteStep(p)
<1> DEFINE w == writing[p]
           v == writing'[p]
<1>1. Calls(w.how) = 5 /\ w # NoWrite
  BY CallResult DEF Calls
<1>2. w.at \in {1, 2, 3, 4, 5} /\ pc[p] \in {"create", "save"}
  BY <1>1, WriteKind
<1>3. CASE w.at \in {1, 2, 3, 4}
  <2>1. w.at < Calls(w.how) /\ w.at # Calls(w.how)
    BY <1>1, <1>3
  <2>2. /\ pc' = pc /\ v # NoWrite /\ v.how = w.how /\ v.bytes = w.bytes /\ v.at = w.at + 1
        /\ v.data = IF w.how = "private" /\ w.at = (IF os = "unix" THEN 4 ELSE 5)
                    THEN stable[p] \ {NoFile} ELSE {}
    BY <2>1, CallResult
  <2>3. w.at + 1 = (IF w.at = 1 THEN 2 ELSE IF w.at = 2 THEN 3 ELSE IF w.at = 3 THEN 4 ELSE 5)
    BY <1>3
  <2>4. os = "unix" /\ w.at = 4 => v.data = stable[p] \ {NoFile}
    BY <2>2
  <2>5. w.at # 5
    BY <1>3
  <2>6. QED
    BY <2>2, <2>3, <2>4, <2>5
<1>4. CASE w.at = 5
  <2>1. ~ (w.at < Calls(w.how)) /\ w.at \notin {1, 2, 3, 4}
    BY <1>1, <1>4
  <2>2. QED
    BY <1>2, <1>4, <2>1, CallResult
<1>5. QED
  BY <1>2, <1>3, <1>4

\* The calls of fs::write, on the copy and on the vault.
LEMMA FilesPlain ==
  ASSUME TypeInv, VersionInv, NEW p \in Process, FilesOK(p), WriteContinues(p),
         writing[p].how = "plain"
  PROVE  FilesOK(p)'
<1> DEFINE w == writing[p]
           f == PathOf(p)
<1>1. /\ CallStep(p) /\ w # NoWrite /\ os' = os /\ job' = job /\ view' = view /\ PathOf(p)' = f
  BY CallResult, CallAt DEF PathOf
<1>2. /\ WriteOK(p) /\ w.at \in {1, 2} /\ pc[p] \in {"bak", "rewrite"} /\ ViewOK(p)
      /\ disk \in [Place -> Contents] /\ MigrateOK(p) /\ disk[p] = NoFile
  BY <1>1, WriteCalls, WriteKind
     DEF VersionInv, FilesOK, PrivateOK, TypeInv, TypeOK, FilesTypeOK
<1>3. /\ f = Legacy /\ view[p] = VaultV1 /\ Legacy # V1Bak /\ Legacy \in Place
      /\ w.path = IF pc[p] = "bak" THEN V1Bak ELSE Legacy
      /\ V1Bak \in Place /\ p \in Place /\ p # Legacy /\ p # V1Bak /\ w.path # p
  BY <1>1, <1>2, WritePath, Paths DEF ViewOK
<1>4. disk' = [disk EXCEPT ![w.path] = IF w.at = 1 THEN Torn ELSE w.bytes]
  BY <1>1, <1>2, CallAt DEF Put
<1>5. disk'[p] = NoFile
  BY <1>2, <1>3, <1>4
<1>6. CASE w.at = 1
  <2>1. pc' = pc /\ writing'[p].how = "plain" /\ writing'[p].at = 2 /\ writing'[p] # NoWrite
    BY <1>6, PlainResult
  <2>2. pc[p] = "bak" => disk'[Legacy] = disk[Legacy]
    BY <1>2, <1>3, <1>4
  <2>3. pc[p] = "rewrite" => disk'[Legacy] = Torn /\ disk'[V1Bak] = disk[V1Bak]
    BY <1>2, <1>3, <1>4, <1>6
  <2>4. QED
    BY <1>2, <1>5, <2>1, <2>2, <2>3 DEF FilesOK, MigrateOK, PrivateOK, OpenOK
<1>7. CASE w.at = 2
  <2>1. /\ writing'[p] = NoWrite
        /\ \/ pc[p] = "bak" /\ pc'[p] = "rewrite"
           \/ pc'[p] = "done" /\ job[p].kind = "migrate"
           \/ pc'[p] = "load"
    BY <1>7, PlainResult
  <2>2. CASE pc[p] = "bak" /\ pc'[p] = "rewrite"
    <3>1. w.bytes = VaultV1
      BY <1>2, <1>3, <2>2 DEF WriteOK
    <3>2. disk'[V1Bak] = VaultV1 /\ disk'[Legacy] = VaultV1
      BY <1>2, <1>3, <1>4, <1>7, <2>2, <3>1 DEF MigrateOK
    <3>3. QED
      BY <1>5, <2>1, <2>2, <3>2 DEF FilesOK, MigrateOK, PrivateOK, OpenOK
  <2>3. CASE (pc'[p] = "done" /\ job'[p].kind = "migrate") \/ pc'[p] = "load"
    BY <1>5, <2>1, <2>3 DEF FilesOK, MigrateOK, PrivateOK, OpenOK
  <2>4. QED
    BY <1>1, <2>1, <2>2, <2>3
<1>8. QED
  BY <1>2, <1>6, <1>7

\* The calls of write_private.
LEMMA FilesPrivate ==
  ASSUME TypeInv, VersionInv, NEW p \in Process, FilesOK(p), WriteContinues(p),
         writing[p].how = "private"
  PROVE  FilesOK(p)'
<1> DEFINE w == writing[p]
           f == PathOf(p)
           v == writing'[p]
<1>1. /\ CallStep(p) /\ w # NoWrite /\ os' = os /\ job' = job /\ view' = view /\ PathOf(p)' = f
  BY CallResult, CallAt DEF PathOf
<1>2. /\ WriteOK(p) /\ w.at \in {1, 2, 3, 4, 5} /\ pc[p] \in {"create", "save"}
      /\ MigrateOK(p) /\ PrivateOK(p) /\ OpenOK(p) /\ ShapeOK(p)
  BY <1>1, WriteCalls, WriteKind DEF FilesOK, TypeInv
<1>3. /\ w.path = f /\ f \in Place /\ p \in Place /\ p # f /\ f \in VaultPath
      /\ w.bytes \in Whole /\ w.bytes # NoFile
  BY <1>1, <1>2, WritePath, Paths, CallAt, Kinds
<1>4. disk \in [Place -> Contents] /\ stable \in [Place -> SUBSET Contents]
  BY DEF TypeInv, TypeOK, FilesTypeOK
<1>5. w.at \in {1, 2, 3, 4} =>
         /\ pc' = pc /\ v # NoWrite /\ v.how = "private" /\ v.bytes = w.bytes
         /\ v.at = (IF w.at = 1 THEN 2 ELSE IF w.at = 2 THEN 3 ELSE IF w.at = 3 THEN 4 ELSE 5)
         /\ os = "unix" /\ w.at = 4 => v.data = stable[p] \ {NoFile}
  BY PrivateResult
<1>6. w.at = 5 => /\ v = NoWrite
                  /\ \/ pc[p] = "create" /\ pc'[p] = "use"
                     \/ /\ pc[p] = "save" /\ pc'[p] \in {"done", "unsynced"}
                        /\ pc'[p] = "done" => WriteStep(p)
  BY PrivateResult
<1>7. MigrateOK(p)'
  BY <1>2, <1>5, <1>6 DEF MigrateOK
<1>8. w.at \in {1, 2, 3, 4} => OpenOK(p)'
  <2>1. SUFFICES ASSUME w.at \in {1, 2, 3, 4}, os = "unix", pc[p] = "save"
                 PROVE  V2(disk'[f]) /\ disk'[f].dk = view[p].dk
    BY <1>1, <1>2, <1>5 DEF OpenOK, V2
  <2>2. V2(disk[f]) /\ disk[f].dk = view[p].dk
    BY <1>2, <2>1 DEF OpenOK
  <2>3. OwnStep(p)
    BY DEF OwnStep, Step
  <2>4. QED
    BY <1>2, <1>3, <2>1, <2>2, <2>3, VaultGrows
<1>9. CASE w.at = 1
  <2>1. Put(p, Torn) /\ v.at = 2
    BY <1>1, <1>5, <1>9, CallAt
  <2>2. disk'[f] = disk[f] /\ disk'[p] = Torn
    BY <1>3, <1>4, <2>1 DEF Put
  <2>3. PrivateOK(p)'
    BY <1>1, <1>2, <1>5, <1>9, <2>1, <2>2 DEF PrivateOK
  <2>4. QED
    BY <1>7, <1>8, <1>9, <2>3 DEF FilesOK
<1>10. CASE w.at = 2
  <2>1. Put(p, w.bytes) /\ v.at = 3
    BY <1>1, <1>5, <1>10, CallAt
  <2>2. disk'[f] = disk[f] /\ disk'[p] = w.bytes
    BY <1>3, <1>4, <2>1 DEF Put
  <2>3. PrivateOK(p)'
    BY <1>1, <1>2, <1>5, <1>10, <2>1, <2>2 DEF PrivateOK
  <2>4. QED
    BY <1>7, <1>8, <1>10, <2>3 DEF FilesOK
<1>11. CASE w.at = 3
  <2>1. disk' = disk /\ stable' = [stable EXCEPT ![p] = {NoFile, disk[p]}]
    BY <1>1, <1>11, CallAt
  <2>2. stable'[p] = {NoFile, disk[p]} /\ v.at = 4
    BY <1>3, <1>4, <1>5, <1>11, <2>1
  <2>3. disk[p] = w.bytes
    BY <1>1, <1>2, <1>11 DEF PrivateOK
  <2>4. PrivateOK(p)'
    BY <1>1, <1>2, <1>5, <1>11, <2>1, <2>2, <2>3 DEF PrivateOK
  <2>5. QED
    BY <1>7, <1>8, <1>11, <2>4 DEF FilesOK
<1>12. CASE w.at = 4 /\ os = "unix"
  <2>1. disk' = [disk EXCEPT ![f] = disk[p], ![p] = NoFile]
    BY <1>1, <1>3, <1>12, CallAt
  <2>2. v.at = 5 /\ v.data = stable[p] \ {NoFile}
    BY <1>5, <1>12
  <2>3. disk[p] = w.bytes /\ stable[p] = {NoFile, w.bytes}
    BY <1>1, <1>2, <1>12 DEF PrivateOK
  <2>4. disk'[f] = w.bytes /\ disk'[p] = NoFile
    BY <1>3, <1>4, <2>1, <2>3
  <2>5. v.data = {w.bytes}
    BY <1>3, <2>2, <2>3
  <2>6. PrivateOK(p)'
    BY <1>1, <1>5, <1>12, <2>2, <2>4, <2>5 DEF PrivateOK
  <2>7. QED
    BY <1>7, <1>8, <1>12, <2>6 DEF FilesOK
<1>13. CASE w.at = 4 /\ os # "unix"
  <2>1. Put(w.path, NoFile)
    BY <1>1, <1>13, CallAt
  <2>2. v.at = 5
    BY <1>5, <1>13
  <2>3. disk'[f] = NoFile /\ disk'[p] = disk[p]
    BY <1>3, <1>4, <2>1 DEF Put
  <2>4. disk[p] = w.bytes
    BY <1>1, <1>2, <1>13 DEF PrivateOK
  <2>5. PrivateOK(p)'
    BY <1>1, <1>5, <1>13, <2>2, <2>3, <2>4 DEF PrivateOK
  <2>6. QED
    BY <1>7, <1>8, <1>13, <2>5 DEF FilesOK
<1>14. CASE w.at = 5
  <2>1. disk'[f] = w.bytes /\ disk'[p] = NoFile /\ (os = "unix" /\ pc'[p] = "done" => stable'[f] = {w.bytes})
    <3>1. CASE os = "unix"
      <4>1. /\ disk' = disk
            /\ pc'[p] = "done" => stable' = [stable EXCEPT ![f] = w.data \cup {disk[f]}]
        BY <1>1, <1>3, <1>6, <1>14, <3>1, CallAt
      <4>2. disk[p] = NoFile /\ disk[f] = w.bytes /\ w.data = {w.bytes}
        BY <1>1, <1>2, <1>14, <3>1 DEF PrivateOK
      <4>3. QED
        BY <1>3, <1>4, <4>1, <4>2
    <3>2. CASE os # "unix"
      <4>1. disk' = [disk EXCEPT ![f] = disk[p], ![p] = NoFile]
        BY <1>1, <1>3, <1>14, <3>2, CallAt
      <4>2. disk[p] = w.bytes
        BY <1>1, <1>2, <1>14, <3>2 DEF PrivateOK
      <4>3. QED
        BY <1>3, <1>4, <3>2, <4>1, <4>2
    <3>3. QED
      BY <3>1, <3>2
  <2>2. PrivateOK(p)'
    BY <1>6, <1>14, <2>1 DEF PrivateOK
  <2>3. CASE pc[p] = "create" /\ pc'[p] = "use"
    <3>1. w.bytes = view[p] /\ V2(view[p])
      BY <1>2, <2>3, FreshType DEF WriteOK, V2
    <3>2. OpenOK(p)'
      BY <1>1, <2>1, <2>3, <3>1 DEF OpenOK, V2
    <3>3. QED
      BY <1>7, <2>2, <3>2 DEF FilesOK
  <2>4. CASE pc[p] = "save" /\ pc'[p] \in {"done", "unsynced"}
    <3>1. w.bytes = [view[p] EXCEPT !.entries = @ \cup {p}] /\ view[p] \in Whole
      BY <1>2, <2>4 DEF WriteOK, ShapeOK, V2
    <3>2. p \in w.bytes.entries
      BY <3>1, Saved
    <3>3. OpenOK(p)'
      BY <1>1, <1>3, <2>1, <2>4, <3>2 DEF OpenOK, HeldAt
    <3>4. QED
      BY <1>7, <2>2, <3>3 DEF FilesOK
  <2>5. QED
    BY <1>6, <1>14, <2>3, <2>4
<1>15. QED
  BY <1>2, <1>9, <1>10, <1>11, <1>12, <1>13, <1>14

LEMMA FilesNext ==
  ASSUME TypeInv, TypeInv', MutexInv, VersionInv, VersionInv', FilesInv,
         [MigrationNext]_migrationVars
  PROVE  FilesInv'
<1>1. CASE UNCHANGED migrationVars
  BY <1>1 DEF migrationVars, fileVars, FilesInv, MigrateOK, PrivateOK, OpenOK, HeldAt, V2, PathOf
<1>2. CASE PowerLoss
  <2>1. ASSUME NEW p \in Process
        PROVE  MigrateOK(p)' /\ PrivateOK(p)' /\ OpenOK(p)'
    <3>1. writing'[p] = NoWrite /\ disk'[p] = NoFile /\ pc'[p] \in {"idle", "ended"}
      BY <1>2, AfterPower
    <3>2. QED
      BY <3>1, FilesIdle DEF FilesOK
  <2>2. QED
    BY <2>1 DEF FilesInv
<1>3. ASSUME NEW p \in Process, OwnStep(p)
      PROVE  FilesInv'
  <2>1. FilesOK(p)
    BY DEF FilesInv, FilesOK
  <2>2. FilesOK(p)'
    <3>1. CASE QuietStep(p)
      BY <2>1, <3>1, FilesQuiet
    <3>2. CASE WriteContinues(p)
      <4>1. writing[p].how \in {"plain", "private"}
        BY <3>2, CallResult, CallAt
      <4>2. QED
        BY <2>1, <3>2, <4>1, FilesPlain, FilesPrivate
    <3>3. CASE WriteError(p)
      <4>1. pc'[p] = "ended"
        BY <3>3 DEF WriteError, End, TypeInv, TypeOK
      <4>2. QED
        BY <4>1, FilesEnd
    <3>4. QED
      BY <1>3, <3>1, <3>2, <3>3, Steps
  <2>3. \A q \in Process : q # p => MigrateOK(q)' /\ PrivateOK(q)' /\ OpenOK(q)'
    BY <1>3, FilesOther
  <2>4. QED
    BY <2>2, <2>3 DEF FilesInv, FilesOK
<1>4. QED
  BY <1>1, <1>2, <1>3 DEF MigrationNext, OwnStep

LEMMA FilesFirst == MigrationInit => FilesInv
<1> SUFFICES ASSUME MigrationInit, NEW p \in Process
             PROVE  MigrateOK(p) /\ PrivateOK(p) /\ OpenOK(p)
  BY DEF FilesInv
<1>1. PICK there : FilesInit(there)
  BY DEF MigrationInit
<1>2. writing[p] = NoWrite /\ disk[p] = NoFile /\ pc[p] = "idle"
  BY <1>1, Paths DEF FilesInit, MigrationInit
<1>3. QED
  BY <1>2 DEF MigrateOK, PrivateOK, OpenOK

\* What holds of the files whatever fails, if nobody uses the legacy vault beside
\* `migrate`.
MigrationInv == TypeInv /\ MutexInv /\ VersionInv /\ FilesInv

LEMMA MigrationStart == MigrationInit => MigrationInv
  BY TypeInit, MutexInit, VersionInit, FilesFirst DEF MigrationInv

LEMMA MigrationStep ==
  ASSUME careful', MigrationInv, [MigrationNext]_migrationVars
  PROVE  MigrationInv'
<1>1. TypeInv'
  BY TypeNext DEF MigrationInv
<1>2. MutexInv'
  BY <1>1, MutexNext DEF MigrationInv
<1>3. VersionInv'
  BY VersionNext DEF MigrationInv
<1>4. QED
  BY <1>1, <1>2, <1>3, FilesNext DEF MigrationInv

\* Who has not been careful stays so.
LEMMA CarefulBefore ==
  ASSUME TypeInv, [MigrationNext]_migrationVars, careful'
  PROVE  careful
<1>1. CASE UNCHANGED migrationVars
  BY <1>1 DEF migrationVars
<1>2. CASE PowerLoss
  BY <1>2, PowerFiles
<1>3. QED
  BY <1>1, <1>2, HistoryType DEF MigrationNext, OwnStep

\* On Unix a vault is not re-keyed under those who have it open (migrate_v1_to_v2 and
\* create_new look at the file again under the lock), whatever is killed or fails, as
\* long as no `migrate` ran beside another command.
THEOREM DataKeyStays == MigrationSpec => []DataKeyIsKept
<1> DEFINE Inv == TypeInv /\ (careful => MigrationInv)
<1>1. MigrationInit => Inv
  BY MigrationStart, TypeInit
<1>2. Inv => DataKeyIsKept
  BY DEF MigrationInv, FilesInv, OpenOK, DataKeyIsKept
<1>3. Inv /\ [MigrationNext]_migrationVars => Inv'
  BY TypeNext, CarefulBefore, MigrationStep
<1>4. QED
  BY <1>1, <1>2, <1>3, PTL DEF MigrationSpec

-----------------------------------------------------------------------------
(* Nothing is lost.                                                        *)

LEMMA AckedFrame ==
  ASSUME TypeInv, NEW p \in Process, OwnStep(p)
  PROVE  /\ pc[p] # "ended"
         /\ \/ acked' = acked
            \/ Report(p) /\ pc[p] \in {"done", "unsynced"} /\ pc'[p] = "ended"
<1>1. CASE QuietStep(p)
  <2>1. CASE RunVaultCommand(p) \/ cmd_migrate(p)
    BY <2>1 DEF RunVaultCommand, cmd_migrate, Start
  <2>2. CASE Probe(p) \/ LockOld(p) \/ Reprobe(p) \/ Load(p) \/ LockNew(p) \/ CreateYields(p)
    BY <2>2 DEF Probe, LockOld, Reprobe, Load, LockNew, CreateYields, Keep
  <2>3. CASE \/ create_new(p) \/ MigrateRead(p) \/ MigrateBackup(p) \/ MigrateRewrite(p)
             \/ Use(p) \/ Refresh(p) \/ Save(p)
    BY <2>3 DEF create_new, MigrateRead, MigrateBackup, MigrateRewrite, Use, Refresh, Save, Keep
  <2>4. CASE Kill(p)
    BY <2>4 DEF Kill, Running, Keep
  <2>5. CASE Report(p)
    <3>1. pc[p] \in {"done", "unsynced"} /\ pc'[p] = "ended"
      BY <2>5 DEF Report, End, TypeInv, TypeOK
    <3>2. QED
      BY <2>5, <3>1
  <2>6. QED
    BY <1>1, <2>1, <2>2, <2>3, <2>4, <2>5 DEF QuietStep
<1>2. CASE WriteContinues(p) \/ WriteError(p)
  <2>1. acked' = acked /\ writing[p] # NoWrite
    BY <1>2, CallFiles
  <2>2. QED
    BY <2>1, WriterPlace
<1>3. QED
  BY <1>1, <1>2, Steps

LEMMA AckNext ==
  ASSUME TypeInv, AckInv, [MigrationNext]_migrationVars
  PROVE  AckInv'
<1>1. CASE UNCHANGED migrationVars
  BY <1>1 DEF migrationVars, AckInv
<1>2. CASE PowerLoss
  BY <1>2 DEF PowerLoss, AckInv, Running
<1>3. ASSUME NEW p \in Process, OwnStep(p), NEW x \in acked', x[2] \in Process
      PROVE  pc'[x[2]] = "ended"
  <2>1. CASE x \in acked
    <3>1. pc[x[2]] = "ended" /\ x[2] # p
      BY <1>3, <2>1, AckedFrame DEF AckInv
    <3>2. QED
      BY <1>3, <3>1, OwnFrame
  <2>2. CASE x \notin acked
    <3>1. Report(p) /\ pc'[p] = "ended"
      BY <1>3, <2>2, AckedFrame
    <3>2. x[2] = p
      BY <1>3, <2>2, <3>1 DEF Report
    <3>3. QED
      BY <3>1, <3>2
  <2>3. QED
    BY <2>1, <2>2
<1>4. QED
  BY <1>1, <1>2, <1>3 DEF MigrationNext, OwnStep, AckInv

LEMMA CopyNext ==
  ASSUME TypeInv, VersionInv, CopyInv, [MigrationNext]_migrationVars
  PROVE  CopyInv'
<1>1. CASE UNCHANGED migrationVars
  BY <1>1 DEF migrationVars, fileVars, CopyInv
<1>2. CASE PowerLoss
  <2>1. V1Bak \in Path /\ V1Bak \in Place
    BY Paths
  <2>2. /\ stable'[V1Bak] = {disk'[V1Bak]}
        /\ disk'[V1Bak] \in stable[V1Bak] \/ disk'[V1Bak] = NoFile
    BY <1>2, <2>1, PowerFiles
  <2>3. QED
    BY <2>2 DEF CopyInv
<1>3. ASSUME NEW p \in Process, OwnStep(p)
      PROVE  CopyInv'
  <2>1. CASE QuietStep(p)
    BY <2>1, QuietFiles DEF CopyInv
  <2>2. CASE WriteContinues(p) \/ WriteError(p)
    <3>1. writing[p] # NoWrite
      BY <2>2, CallFiles
    <3>2. V1Bak \in Place /\ V1Bak # p
      BY <3>1, WritePath
    <3>3. CASE pc[p] # "bak"
      <4>1. V1Bak # writing[p].path
        BY <3>1, <3>3, WritePath
      <4>2. QED
        BY <2>2, <3>2, <4>1, CallFiles DEF CopyInv
    <3>4. CASE pc[p] = "bak" /\ WriteContinues(p)
      <4>1. CallStep(p)
        BY <3>4, CallResult
      <4>2. /\ writing[p].how = "plain" /\ writing[p].at \in {1, 2} /\ writing[p].path = V1Bak
            /\ writing[p].bytes = VaultV1
        BY <3>1, <3>4, WriteCalls, WriteKind DEF WriteOK, VersionInv, ViewOK
      <4>3. Put(V1Bak, Torn) \/ Put(V1Bak, VaultV1)
        <5>1. Put(writing[p].path, Torn) \/ Put(writing[p].path, writing[p].bytes)
          BY <4>1, <4>2, CallAt
        <5>2. QED
          BY <4>2, <5>1
      <4>4. stable'[V1Bak] \subseteq stable[V1Bak] \cup {Torn, VaultV1}
        BY <3>2, <4>3 DEF Put, TypeInv, TypeOK, FilesTypeOK
      <4>5. QED
        BY <4>4 DEF CopyInv
    <3>5. CASE WriteError(p)
      <4>1. stable' = stable \/ stable' = [stable EXCEPT ![p] = {NoFile}]
        BY <3>5 DEF WriteError, WriteFails
      <4>2. stable'[V1Bak] = stable[V1Bak]
        BY <3>2, <4>1 DEF TypeInv, TypeOK, FilesTypeOK
      <4>3. QED
        BY <4>2 DEF CopyInv
    <3>6. QED
      BY <2>2, <3>3, <3>4, <3>5
  <2>3. QED
    BY <1>3, <2>1, <2>2, Steps
<1>4. QED
  BY <1>1, <1>2, <1>3 DEF MigrationNext, OwnStep

\* A call that returns keeps what is somewhere.
LEMMA KeptByPlain ==
  ASSUME TypeInv, VersionInv, CopyInv, NEW p \in Process, FilesOK(p), WriteContinues(p),
         writing[p].how = "plain", NEW e, NEW f \in Place, HeldAt(f, e)
  PROVE  \E g \in Place : HeldAt(g, e)'
<1> DEFINE w == writing[p]
<1>1. CallStep(p) /\ w # NoWrite
  BY CallResult
<1>2. /\ WriteOK(p) /\ w.at \in {1, 2} /\ pc[p] \in {"bak", "rewrite"} /\ ViewOK(p)
      /\ MigrateOK(p) /\ disk \in [Place -> Contents] /\ \A g \in Place : disk[g] \in stable[g]
  BY <1>1, WriteCalls, WriteKind DEF VersionInv, FilesOK, TypeInv, TypeOK, FilesTypeOK
<1>3. /\ PathOf(p) = Legacy /\ view[p] = VaultV1 /\ Legacy # V1Bak /\ Legacy \in Place
      /\ w.path = IF pc[p] = "bak" THEN V1Bak ELSE Legacy
      /\ V1Bak \in Place
  BY <1>1, <1>2, WritePath, Paths DEF ViewOK
<1>4. disk' = [disk EXCEPT ![w.path] = IF w.at = 1 THEN Torn ELSE w.bytes]
  BY <1>1, <1>2, CallAt DEF Put
<1>5. CASE f # w.path
  <2>1. disk'[f] = disk[f]
    BY <1>2, <1>4, <1>5
  <2>2. QED
    BY <2>1 DEF HeldAt
<1>6. CASE f = w.path /\ pc[p] = "bak"
  <2>1. disk[V1Bak] \in {NoFile, Torn, VaultV1}
    BY <1>2, <1>3 DEF CopyInv
  <2>2. e \in VaultV1.entries
    BY <1>3, <1>6, <2>1, Kinds DEF HeldAt
  <2>3. disk'[Legacy] = VaultV1
    BY <1>2, <1>3, <1>4, <1>6 DEF MigrateOK
  <2>4. QED
    BY <1>3, <2>2, <2>3, Kinds DEF HeldAt
<1>7. CASE f = w.path /\ pc[p] = "rewrite"
  <2>1. disk[Legacy] = VaultV1 \/ disk[Legacy] = Torn
    BY <1>1, <1>2, <1>7 DEF MigrateOK
  <2>2. e \in VaultV1.entries
    BY <1>3, <1>7, <2>1, Kinds DEF HeldAt
  <2>3. disk'[V1Bak] = VaultV1
    BY <1>2, <1>3, <1>4, <1>7 DEF MigrateOK
  <2>4. QED
    BY <1>3, <2>2, <2>3, Kinds DEF HeldAt
<1>8. QED
  BY <1>2, <1>5, <1>6, <1>7

\* What write_private writes has what was in the vault.
LEMMA PrivateBytes ==
  ASSUME TypeInv, NEW p \in Process, FilesOK(p), writing[p] # NoWrite,
         writing[p].how = "private"
  PROVE  /\ writing[p].bytes \in Whole
         /\ \A e : writing[p].at \in {1, 2, 3, 4} /\ HeldAt(PathOf(p), e) =>
               pc[p] = "save" /\ e \in writing[p].bytes.entries
         /\ \A e \in writing[p].bytes.entries : writing[p].at \in {1, 2, 3, 4} =>
               pc[p] = "save" /\ (e = p \/ HeldAt(PathOf(p), e))
<1> DEFINE w == writing[p]
           f == PathOf(p)
<1>1. /\ WriteOK(p) /\ pc[p] \in {"create", "save"} /\ ShapeOK(p) /\ w \in Write /\ PrivateOK(p)
  BY WriteCalls, WriteKind DEF TypeInv, FilesOK
<1>2. w.bytes \in Whole
  BY <1>1 DEF Write
<1>3. CASE w.at \in {1, 2, 3, 4}
  <2>1. w.at <= 4
    BY <1>3
  <2>2. disk[f] = IF pc[p] = "create" THEN NoFile ELSE view[p]
    BY <1>1, <2>1 DEF PrivateOK
  <2>3. CASE pc[p] = "create"
    <3>1. w.bytes.entries = {}
      BY <1>1, <2>3 DEF WriteOK, Fresh
    <3>2. QED
      BY <1>2, <2>2, <2>3, <3>1, Kinds DEF HeldAt
  <2>4. CASE pc[p] = "save"
    <3>1. w.bytes = [view[p] EXCEPT !.entries = @ \cup {p}] /\ view[p] \in Whole
      BY <1>1, <2>4 DEF WriteOK, ShapeOK, V2
    <3>2. w.bytes.entries = view[p].entries \cup {p}
      BY <3>1, Saved
    <3>3. QED
      BY <1>2, <2>2, <2>4, <3>1, <3>2 DEF HeldAt
  <2>5. QED
    BY <1>1, <2>3, <2>4
<1>4. QED
  BY <1>2, <1>3

LEMMA KeptByPrivate ==
  ASSUME TypeInv, NEW p \in Process, FilesOK(p), WriteContinues(p),
         writing[p].how = "private", NEW e, NEW f \in Place, HeldAt(f, e)
  PROVE  \E g \in Place : HeldAt(g, e)'
<1> DEFINE w == writing[p]
           h == PathOf(p)
<1>1. CallStep(p) /\ w # NoWrite
  BY CallResult
<1>2. /\ w.at \in {1, 2, 3, 4, 5} /\ pc[p] \in {"create", "save"} /\ PrivateOK(p)
      /\ disk \in [Place -> Contents]
  BY <1>1, WriteKind DEF FilesOK, TypeInv, TypeOK, FilesTypeOK
<1>3. /\ w.path = h /\ h \in Place /\ p \in Place /\ p # h /\ w.bytes \in Whole
  BY <1>1, <1>2, WritePath, Paths, CallAt
<1>4. CASE w.at \in {1, 2}
  <2>1. disk[p] \in {NoFile, Torn}
    BY <1>1, <1>2, <1>4 DEF PrivateOK
  <2>2. Put(p, Torn) \/ Put(p, w.bytes)
    BY <1>1, <1>4, CallAt
  <2>3. f # p
    BY <2>1, Kinds DEF HeldAt
  <2>4. disk'[f] = disk[f]
    BY <1>2, <1>3, <2>2, <2>3 DEF Put
  <2>5. QED
    BY <2>4 DEF HeldAt
<1>5. CASE w.at = 3 \/ (w.at = 5 /\ os = "unix")
  <2>1. disk' = disk
    BY <1>1, <1>5, CallAt
  <2>2. QED
    BY <2>1 DEF HeldAt
<1>6. CASE w.at = 4 /\ os = "unix"
  <2>1. disk' = [disk EXCEPT ![w.path] = disk[p], ![p] = NoFile]
    BY <1>1, <1>6, CallAt
  <2>2. disk[p] = w.bytes
    BY <1>1, <1>2, <1>6 DEF PrivateOK
  <2>3. disk'[h] = w.bytes
    BY <1>2, <1>3, <2>1, <2>2
  <2>4. f \notin {p, h} => disk'[f] = disk[f]
    BY <1>2, <1>3, <2>1
  <2>5. f = h => e \in w.bytes.entries
    BY <1>1, <1>6, PrivateBytes
  <2>6. QED
    BY <1>3, <2>2, <2>3, <2>4, <2>5 DEF HeldAt
<1>7. CASE w.at = 4 /\ os # "unix"
  <2>1. Put(w.path, NoFile)
    BY <1>1, <1>7, CallAt
  <2>2. disk[p] = w.bytes
    BY <1>1, <1>2, <1>7 DEF PrivateOK
  <2>3. disk'[p] = w.bytes
    BY <1>2, <1>3, <2>1, <2>2 DEF Put
  <2>4. f # h => disk'[f] = disk[f]
    BY <1>2, <1>3, <2>1 DEF Put
  <2>5. f = h => e \in w.bytes.entries
    BY <1>1, <1>7, PrivateBytes
  <2>6. QED
    BY <1>3, <2>3, <2>4, <2>5 DEF HeldAt
<1>8. CASE w.at = 5 /\ os # "unix"
  <2>1. disk' = [disk EXCEPT ![w.path] = disk[p], ![p] = NoFile]
    BY <1>1, <1>8, CallAt
  <2>2. disk[p] = w.bytes /\ disk[h] = NoFile
    BY <1>1, <1>2, <1>8 DEF PrivateOK
  <2>3. disk'[h] = w.bytes
    BY <1>2, <1>3, <2>1, <2>2
  <2>4. f \notin {p, h} => disk'[f] = disk[f]
    BY <1>2, <1>3, <2>1
  <2>5. f # h
    BY <2>2, Kinds DEF HeldAt
  <2>6. QED
    BY <1>3, <2>2, <2>3, <2>4, <2>5 DEF HeldAt
<1>9. QED
  BY <1>2, <1>4, <1>5, <1>6, <1>7, <1>8

\* Nor does one that fails, with a destination that is still there.
LEMMA KeptByError ==
  ASSUME TypeInv, NEW p \in Process, ~RenameTooLate(p), FilesOK(p), WriteError(p),
         NEW e, e # p, NEW f \in Place, HeldAt(f, e)
  PROVE  \E g \in Place : HeldAt(g, e)'
<1> DEFINE w == writing[p]
           h == PathOf(p)
<1>1. /\ w # NoWrite /\ os \in {"unix", "windows"}
      /\ disk' = IF w.how = "private" /\ ~Doing(p, "sync_dir") THEN [disk EXCEPT ![p] = NoFile]
                 ELSE disk
  BY DEF WriteError, WriteFails, TypeInv, TypeOK, FilesTypeOK
<1>2. disk \in [Place -> Contents] /\ h \in Place /\ h # p /\ PrivateOK(p)
  BY <1>1, WritePath DEF FilesOK, TypeInv, TypeOK, FilesTypeOK
<1>3. CASE disk' = disk
  BY <1>3 DEF HeldAt
<1>4. CASE /\ disk' = [disk EXCEPT ![p] = NoFile] /\ w.how = "private" /\ ~Doing(p, "sync_dir")
  <2>1. w.at \in {1, 2, 3, 4, 5}
    BY <1>1, <1>4, WriteKind
  <2>2. w.at # 5
    <3>1. os = "unix" => w.at # 5
      BY <1>1, <1>4, WriteCalls
    <3>2. os # "unix" => w.at # 5
      BY <1>1, <1>4, WriteCalls DEF RenameTooLate
    <3>3. QED
      BY <3>1, <3>2
  <2>3. CASE f # p
    <3>1. disk'[f] = disk[f]
      BY <1>2, <1>4, <2>3
    <3>2. QED
      BY <3>1 DEF HeldAt
  <2>4. CASE f = p
    <3>1. w.at \in {3, 4} /\ disk[p] = w.bytes
      BY <1>1, <1>2, <1>4, <2>1, <2>2, <2>4, Kinds DEF PrivateOK, HeldAt
    <3>2. HeldAt(h, e)
      <4>1. e \in w.bytes.entries
        BY <2>4, <3>1 DEF HeldAt
      <4>2. w.at \in {1, 2, 3, 4}
        BY <3>1
      <4>3. QED
        BY <1>1, <1>4, <4>1, <4>2, PrivateBytes
    <3>3. disk'[h] = disk[h]
      BY <1>2, <1>4
    <3>4. QED
      BY <1>2, <3>2, <3>3 DEF HeldAt
  <2>5. QED
    BY <2>3, <2>4
<1>5. QED
  BY <1>1, <1>3, <1>4

LostInv == TypeInv /\ VersionInv /\ CopyInv /\ AckInv /\ (careful => MigrationInv)

LEMMA LostFirst == MigrationInit => LostInv
<1> SUFFICES ASSUME MigrationInit
             PROVE  LostInv
  OBVIOUS
<1>1. PICK there \in SUBSET {Legacy} :
         /\ FilesInit([g \in Path |-> IF g \in there THEN VaultV1 ELSE NoFile])
         /\ acked = {FALSE} \X (IF there = {} THEN {} ELSE {Old}) \X {TRUE}
  BY DEF MigrationInit
<1>2. CopyInv
  BY <1>1, Paths DEF FilesInit, CopyInv
<1>3. \A x \in acked : x[2] = Old
  BY <1>1
<1>4. AckInv
  BY <1>3 DEF AckInv
<1>5. QED
  BY <1>2, <1>4, MigrationStart DEF LostInv, MigrationInv

LEMMA LostNext ==
  ASSUME LostInv, [MigrationNext]_migrationVars
  PROVE  LostInv'
  BY TypeNext, VersionNext, CopyNext, AckNext, CarefulBefore, MigrationStep DEF LostInv

\* The step that NothingIsLost is about.
LEMMA KeptByStep ==
  ASSUME LostInv, MigrationNext, careful', power' = power,
         \A p \in Process : ~RenameTooLate(p),
         NEW x \in acked', x \in acked => IsSomewhere(x[2])
  PROVE  IsSomewhere(x[2])'
<1>1. TypeInv /\ VersionInv /\ CopyInv /\ AckInv /\ FilesInv
  BY CarefulBefore DEF LostInv, MigrationInv
<1>2. ~PowerLoss
  <2>1. power \in Nat
    BY <1>1 DEF TypeInv, TypeOK
  <2>2. PowerLoss => power' = power + 1
    BY DEF PowerLoss
  <2>3. QED
    BY <2>1, <2>2
<1>3. PICK p \in Process : OwnStep(p)
  BY <1>2 DEF MigrationNext, OwnStep
<1>4. FilesOK(p)
  BY <1>1 DEF FilesInv, FilesOK
<1>5. CASE x \in acked
  <2>1. PICK f \in Place : HeldAt(f, x[2])
    BY <1>5 DEF IsSomewhere
  <2>2. x[2] # p
    BY <1>1, <1>3, <1>5, AckedFrame DEF AckInv
  <2>3. CASE QuietStep(p)
    <3>1. disk' = disk
      BY <2>3, QuietFiles
    <3>2. QED
      BY <2>1, <3>1 DEF HeldAt, IsSomewhere
  <2>4. CASE WriteContinues(p)
    <3>1. writing[p].how \in {"plain", "private"}
      BY <1>1, <2>4, CallResult, CallAt
    <3>2. \E g \in Place : HeldAt(g, x[2])'
      BY <1>1, <1>4, <2>1, <2>4, <3>1, KeptByPlain, KeptByPrivate
    <3>3. QED
      BY <3>2 DEF IsSomewhere, HeldAt
  <2>5. CASE WriteError(p)
    <3>1. \E g \in Place : HeldAt(g, x[2])'
      BY <1>1, <1>4, <2>1, <2>2, <2>5, KeptByError
    <3>2. QED
      BY <3>1 DEF IsSomewhere, HeldAt
  <2>6. QED
    BY <1>3, <2>3, <2>4, <2>5, Steps
<1>6. CASE x \notin acked
  <2>1. Report(p) /\ pc[p] \in {"done", "unsynced"}
    BY <1>1, <1>3, <1>6, AckedFrame
  <2>2. x[2] = p /\ job[p].kind = "vault" /\ disk' = disk
    BY <1>6, <2>1 DEF Report, fileVars
  <2>3. HeldAt(PathOf(p), p)
    BY <1>4, <2>1, <2>2 DEF FilesOK, OpenOK
  <2>4. PathOf(p) \in Place
    <3>1. ShapeOK(p) /\ Running(p)
      BY <1>1, <2>1 DEF TypeInv, Running
    <3>2. PathOf(p) \in VaultPath
      BY <3>1 DEF ShapeOK, Job, PathOf
    <3>3. QED
      BY <3>2, Paths
  <2>5. QED
    BY <2>2, <2>3, <2>4 DEF HeldAt, IsSomewhere
<1>7. QED
  BY <1>5, <1>6

\* Wherever a command is killed and whatever call of a write fails, no step takes away
\* what is somewhere: the legacy vault is not touched before the copy is whole, and a
\* vault not before the temporary file is.  Three steps are excepted, for which this is
\* not so: the rename that fails on Windows after the remove, those after a `migrate` ran
\* beside another command, and a power failure.
THEOREM NothingLost == MigrationSpec => NothingIsLost
<1> DEFINE Keeps ==
      careful' /\ power' = power /\ ~(\E p \in Process : RenameTooLate(p)) =>
          \A x \in acked' : (x \in acked => IsSomewhere(x[2])) => IsSomewhere(x[2])'
<1>1. LostInv /\ [MigrationNext]_migrationVars => [Keeps]_migrationVars
  BY KeptByStep
<1>2. LostInv /\ [MigrationNext]_migrationVars => LostInv'
  BY LostNext
<1>3. MigrationSpec => [][Keeps]_migrationVars
  BY LostFirst, <1>1, <1>2, PTL DEF MigrationSpec
<1>4. QED
  BY <1>3 DEF NothingIsLost

-----------------------------------------------------------------------------
(* What is reported is found, also after a power failure.                  *)

\* Only a call of a write of a path changes what may come back of it.
LEMMA StableFrame ==
  ASSUME TypeInv, NEW p \in Process, OwnStep(p), NEW f \in Path,
         ~ (WriteContinues(p) /\ writing[p] # NoWrite /\ writing[p].path = f)
  PROVE  stable'[f] = stable[f]
<1>1. f \in Place /\ f # p
  BY Paths
<1>2. CASE QuietStep(p)
  BY <1>2, QuietFiles
<1>3. CASE WriteContinues(p)
  BY <1>1, <1>3, CallFiles
<1>4. CASE WriteError(p)
  <2>1. stable' = stable \/ stable' = [stable EXCEPT ![p] = {NoFile}]
    BY <1>4 DEF WriteError, WriteFails
  <2>2. QED
    BY <1>1, <2>1 DEF TypeInv, TypeOK, FilesTypeOK
<1>5. QED
  BY <1>2, <1>3, <1>4, Steps

\* What a vault may have after a power failure, before and after a call.
LEMMA StableCall ==
  ASSUME TypeInv, VersionInv, NEW p \in Process, FilesOK(p), os = "unix", WriteContinues(p),
         writing[p].path = PathOf(p)
  PROVE  LET w == writing[p]
             f == PathOf(p)
         IN  \/ stable'[f] = stable[f]
             \/ /\ w.how = "plain" /\ f = Legacy /\ disk[f] \in {VaultV1, Torn}
                /\ \E c \in {Torn, w.bytes} : stable'[f] = stable[f] \cup {c}
             \/ /\ w.how = "private" /\ w.at = 4
                /\ stable'[f] = stable[f] \cup {w.bytes}
             \/ /\ w.how = "private" /\ w.at = 5
                /\ disk[f] = w.bytes /\ stable'[f] = {w.bytes}
<1> DEFINE w == writing[p]
           f == PathOf(p)
<1>1. CallStep(p) /\ w # NoWrite
  BY CallResult
<1>2. /\ f \in Place /\ p \in Place /\ p # f /\ f # V1Bak /\ pc[p] # "bak"
      /\ stable \in [Place -> SUBSET Contents] /\ PrivateOK(p) /\ MigrateOK(p) /\ ViewOK(p)
  BY <1>1, WritePath, Paths DEF FilesOK, VersionInv, TypeInv, TypeOK, FilesTypeOK
<1>3. CASE w.how = "plain"
  <2>1. w.at \in {1, 2} /\ pc[p] = "rewrite"
    BY <1>1, <1>2, <1>3, WriteKind
  <2>2. f = Legacy
    BY <1>2, <2>1 DEF ViewOK
  <2>3. disk[f] \in {VaultV1, Torn}
    BY <1>1, <1>2, <2>1, <2>2 DEF MigrateOK
  <2>4. Put(w.path, Torn) \/ Put(w.path, w.bytes)
    BY <1>1, <1>3, <2>1, CallAt
  <2>5. \E c \in {Torn, w.bytes} : stable'[f] = stable[f] \cup {c}
    BY <1>2, <2>4 DEF Put
  <2>6. QED
    BY <1>3, <2>2, <2>3, <2>5
<1>4. CASE w.how = "private"
  <2>1. w.at \in {1, 2, 3, 4, 5}
    BY <1>1, <1>4, WriteKind
  <2>2. CASE w.at \in {1, 2}
    <3>1. Put(p, Torn) \/ Put(p, w.bytes)
      BY <1>1, <1>4, <2>2, CallAt
    <3>2. QED
      BY <1>2, <3>1 DEF Put
  <2>3. CASE w.at = 3
    <3>1. stable' = [stable EXCEPT ![p] = {NoFile, disk[p]}]
      BY <1>1, <1>4, <2>3, CallAt
    <3>2. QED
      BY <1>2, <3>1
  <2>4. CASE w.at = 4
    <3>1. stable' = [stable EXCEPT ![w.path] = @ \cup (stable[p] \ {NoFile}), ![p] = {NoFile}]
      BY <1>1, <1>4, <2>4, CallAt
    <3>2. stable[p] = {NoFile, w.bytes} /\ w.bytes # NoFile
      BY <1>1, <1>2, <1>4, <2>4, CallAt, Kinds DEF PrivateOK
    <3>3. stable'[f] = stable[f] \cup {w.bytes}
      BY <1>2, <3>1, <3>2
    <3>4. QED
      BY <1>4, <2>4, <3>3
  <2>5. CASE w.at = 5
    <3>1. \/ stable' = [stable EXCEPT ![w.path] = w.data \cup {disk[w.path]}]
          \/ stable' = stable
      BY <1>1, <1>4, <2>5, CallAt
    <3>2. disk[f] = w.bytes /\ w.data = {w.bytes}
      BY <1>1, <1>2, <1>4, <2>5 DEF PrivateOK
    <3>3. stable'[f] = {w.bytes} \/ stable'[f] = stable[f]
      BY <1>2, <3>1, <3>2
    <3>4. QED
      BY <1>4, <2>5, <3>2, <3>3
  <2>6. QED
    BY <2>1, <2>2, <2>3, <2>4, <2>5
<1>5. QED
  BY <1>1, <1>3, <1>4, WriteKind

LEMMA Defaults ==
  ASSUME TypeInv, AtLegacy \/ AtPlatform
  PROVE  /\ default_path(TRUE) = "custom"
         /\ AtLegacy => default_path(FALSE) = Legacy /\ disk[Legacy] # NoFile
         /\ AtPlatform => default_path(FALSE) = "platform" /\ disk[Legacy] = NoFile
<1>1. \A f \in VaultPath : disk[f] \in stable[f]
  BY Paths DEF TypeInv, TypeOK, FilesTypeOK
<1>2. Legacy \in VaultPath /\ "platform" \in VaultPath
  BY DEF VaultPath
<1>3. QED
  BY <1>1, <1>2 DEF AtLegacy, AtPlatform, default_path, Exists

\* Where a command runs, its path is the default path of its shell, but for `migrate`.
LEMMA StartPath ==
  ASSUME TypeInv, NEW p \in Process, AtLegacy \/ AtPlatform,
         RunVaultCommand(p) \/ cmd_migrate(p)
  PROVE  /\ AtLegacy => job'[p].path # "platform"
         /\ AtPlatform => job'[p].path # Legacy
         /\ HomeOK(p)'
<1>1. PICK kind, home, path, label :
         /\ Start(p, kind, home, path, label)
         /\ \/ kind = "migrate" /\ path = Legacy /\ disk[Legacy] # NoFile
            \/ home \in BOOLEAN /\ path = default_path(home)
  BY DEF RunVaultCommand, cmd_migrate, Exists
<1>2. job'[p].path = path /\ job'[p].home = home /\ job'[p].kind = kind
  BY <1>1 DEF Start, TypeInv, TypeOK
<1>3. CASE kind = "migrate" /\ path = Legacy /\ disk[Legacy] # NoFile
  BY <1>2, <1>3, Defaults, Paths DEF HomeOK, PathOf
<1>4. CASE home \in BOOLEAN /\ path = default_path(home)
  BY <1>2, <1>4, Defaults, Paths DEF HomeOK, PathOf, Legacy
<1>5. QED
  BY <1>1, <1>3, <1>4

\* The vault stays where it is.
LEMMA DefaultOwn ==
  ASSUME MigrationInv, os = "unix", AtLegacy \/ AtPlatform, NEW p \in Process, OwnStep(p)
  PROVE  (AtLegacy => AtLegacy') /\ (AtPlatform => AtPlatform')
<1>1. TypeInv /\ VersionInv /\ FilesOK(p)
  BY DEF MigrationInv, FilesInv, FilesOK
<1>2. Legacy \in Path /\ "platform" \in Path /\ Legacy # "platform" /\ Legacy # V1Bak
      /\ "platform" # V1Bak
  BY Paths
<1>3. ASSUME NEW q \in Process, Running(q)'
      PROVE  /\ AtLegacy => PathOf(q)' # "platform"
             /\ AtPlatform => PathOf(q)' # Legacy
  <2>1. CASE q = p /\ (RunVaultCommand(p) \/ cmd_migrate(p))
    BY <1>1, <2>1, StartPath DEF PathOf
  <2>2. CASE q # p \/ ~ (RunVaultCommand(p) \/ cmd_migrate(p))
    <3>1. Running(q) /\ job'[q] = job[q]
      <4>1. CASE q = p
        BY <1>1, <1>3, <2>2, <4>1, JobFrame
      <4>2. CASE q # p
        BY <1>1, <1>3, <4>2, OwnFrame DEF Running
      <4>3. QED
        BY <4>1, <4>2
    <3>2. QED
      BY <3>1 DEF AtLegacy, AtPlatform, PathOf
  <2>3. QED
    BY <2>1, <2>2
<1>4. ASSUME NEW f \in {Legacy, "platform"}, writing[p] # NoWrite => PathOf(p) # f
      PROVE  stable'[f] = stable[f]
  <2>1. f \in Path /\ f # V1Bak
    BY <1>2
  <2>2. writing[p] # NoWrite => writing[p].path # f
    BY <1>1, <1>4, <2>1, WritePath
  <2>3. QED
    BY <1>1, <2>1, <2>2, StableFrame
<1>5. writing[p] # NoWrite => Running(p)
  BY <1>1, WriterPlace
<1>6. ASSUME AtLegacy
      PROVE  AtLegacy'
  <2>1. stable'["platform"] = {NoFile}
    <3>1. writing[p] # NoWrite => PathOf(p) # "platform"
      BY <1>5, <1>6 DEF AtLegacy
    <3>2. QED
      BY <1>4, <1>6, <3>1 DEF AtLegacy
  <2>2. NoFile \notin stable'[Legacy]
    <3>1. CASE WriteContinues(p) /\ writing[p] # NoWrite /\ writing[p].path = Legacy
      <4>1. PathOf(p) = Legacy
        BY <1>1, <1>2, <3>1, WritePath
      <4>2. writing[p].bytes # NoFile /\ Torn # NoFile
        <5>1. CallStep(p)
          BY <1>1, <3>1, CallResult
        <5>2. writing[p].bytes \in Whole
          BY <1>1, <5>1, CallAt
        <5>3. QED
          BY <5>2, Kinds
      <4>3. NoFile \notin stable[Legacy]
        BY <1>6 DEF AtLegacy
      <4>4. QED
        BY <1>1, <3>1, <4>1, <4>2, <4>3, StableCall
    <3>2. CASE ~ (WriteContinues(p) /\ writing[p] # NoWrite /\ writing[p].path = Legacy)
      BY <1>1, <1>2, <1>6, <3>2, StableFrame DEF AtLegacy
    <3>3. QED
      BY <3>1, <3>2
  <2>3. QED
    BY <1>3, <1>6, <2>1, <2>2 DEF AtLegacy
<1>7. ASSUME AtPlatform
      PROVE  AtPlatform'
  <2>1. stable'[Legacy] = {NoFile}
    <3>1. writing[p] # NoWrite => PathOf(p) # Legacy
      BY <1>5, <1>7 DEF AtPlatform
    <3>2. QED
      BY <1>4, <1>7, <3>1 DEF AtPlatform
  <2>2. QED
    BY <1>3, <1>7, <2>1 DEF AtPlatform
<1>8. QED
  BY <1>6, <1>7

LEMMA DefaultPower ==
  ASSUME TypeInv, AtLegacy \/ AtPlatform, parent[Legacy] = "kept", PowerLoss
  PROVE  (AtLegacy => AtLegacy') /\ (AtPlatform => AtPlatform')
<1>1. /\ \A f \in Path : disk'[f] \in stable[f] \/ (disk'[f] = NoFile /\ parent[f] = "made")
      /\ \A f \in Path : stable'[f] = {disk'[f]}
  BY Paths, PowerFiles
<1>2. \A q \in Process : ~Running(q)'
  BY AfterPower
<1>3. Legacy \in Path /\ "platform" \in Path
  BY Paths
<1>4. QED
  BY <1>1, <1>2, <1>3 DEF AtLegacy, AtPlatform

LEMMA HomeOwn ==
  ASSUME TypeInv, AtLegacy \/ AtPlatform, NEW p \in Process, OwnStep(p), NEW q \in Process,
         HomeOK(q)
  PROVE  HomeOK(q)'
<1>1. CASE q = p /\ (RunVaultCommand(p) \/ cmd_migrate(p))
  BY <1>1, StartPath
<1>2. CASE q # p
  BY <1>2, OwnFrame DEF HomeOK, Running, PathOf
<1>3. CASE q = p /\ ~ (RunVaultCommand(p) \/ cmd_migrate(p))
  BY <1>3, JobFrame DEF HomeOK, PathOf
<1>4. QED
  BY <1>1, <1>2, <1>3

LEMMA DefaultFirst == MigrationInit => DefaultInv
<1> SUFFICES ASSUME MigrationInit
             PROVE  DefaultInv
  OBVIOUS
<1>1. PICK there \in SUBSET {Legacy} :
         FilesInit([g \in Path |-> IF g \in there THEN VaultV1 ELSE NoFile])
  BY DEF MigrationInit
<1>2. \A p \in Process : ~Running(p)
  BY DEF MigrationInit, Running
<1>3. /\ stable["platform"] = {NoFile}
      /\ stable[Legacy] = {IF Legacy \in there THEN VaultV1 ELSE NoFile}
  BY <1>1, Paths DEF FilesInit
<1>4. AtLegacy \/ AtPlatform
  BY <1>2, <1>3, Kinds DEF AtLegacy, AtPlatform
<1>5. parent[Legacy] = "kept"
  BY Paths DEF MigrationInit
<1>6. QED
  BY <1>2, <1>4, <1>5 DEF DefaultInv, HomeOK

\* Whatever comes back of the vault of f has e.
Durably(f, e) == \A c \in stable[f] : c \in Whole /\ e \in c.entries

\* A write of a vault keeps the entries of all that may come back.
LEMMA StaysDurable ==
  ASSUME MigrationInv, os = "unix", NEW p \in Process, OwnStep(p), NEW f \in VaultPath,
         NEW q \in Process, Durably(f, q)
  PROVE  Durably(f, q)'
<1>1. TypeInv /\ VersionInv /\ FilesOK(p) /\ f \in Path /\ f # V1Bak /\ f \in Place
  BY Paths DEF MigrationInv, FilesInv, FilesOK
<1>2. disk[f] \in stable[f]
  BY <1>1 DEF TypeInv, TypeOK, FilesTypeOK
<1>3. HeldAt(f, q)
  BY <1>2 DEF HeldAt, Durably
<1>4. CASE ~ (WriteContinues(p) /\ writing[p] # NoWrite /\ writing[p].path = f)
  BY <1>1, <1>4, StableFrame DEF Durably
<1>5. CASE WriteContinues(p) /\ writing[p] # NoWrite /\ writing[p].path = f
  <2> DEFINE w == writing[p]
  <2>1. PathOf(p) = f
    BY <1>1, <1>5, WritePath
  <2>2. CASE stable'[f] = stable[f]
    BY <2>2 DEF Durably
  <2>3. CASE disk[f] \in {VaultV1, Torn}
    <3>1. q # Old
      OBVIOUS
    <3>2. QED
      BY <1>3, <2>3, <3>1, Kinds DEF HeldAt
  <2>4. CASE w.how = "private" /\ w.at = 4 /\ stable'[f] = stable[f] \cup {w.bytes}
    <3>1. w.bytes \in Whole /\ q \in w.bytes.entries
      BY <1>1, <1>3, <1>5, <2>1, <2>4, PrivateBytes
    <3>2. QED
      BY <2>4, <3>1 DEF Durably
  <2>5. CASE disk[f] = w.bytes /\ stable'[f] = {w.bytes}
    BY <1>3, <2>5 DEF Durably, HeldAt
  <2>6. QED
    BY <1>1, <1>5, <2>1, <2>2, <2>3, <2>4, <2>5, StableCall
<1>6. QED
  BY <1>4, <1>5

FoundInv == MigrationInv /\ DefaultInv /\ ReportInv

LEMMA FoundFirst == MigrationInit => FoundInv
<1> SUFFICES ASSUME MigrationInit
             PROVE  FoundInv
  OBVIOUS
<1>1. \A x \in acked : x[2] = Old
  BY DEF MigrationInit
<1>2. ReportInv
  BY <1>1 DEF ReportInv
<1>3. QED
  BY <1>2, DefaultFirst, MigrationStart DEF FoundInv

\* A directory whose own name is durable stays so.
LEMMA KeptDirectory ==
  ASSUME TypeInv, NEW p \in Process, OwnStep(p), NEW f \in VaultPath, parent[f] = "kept"
  PROVE  parent'[f] = "kept"
<1>1. CASE LockNew(p)
  BY <1>1 DEF LockNew, TypeInv, TypeOK
<1>2. QED
  BY <1>1, HistoryType

\* What is in the vault stays in it.
LEMMA StaysHeld ==
  ASSUME MigrationInv, os = "unix", NEW p \in Process, OwnStep(p), NEW f \in VaultPath,
         NEW q \in Process, HeldAt(f, q)
  PROVE  HeldAt(f, q)'
<1>1. TypeInv /\ VersionInv /\ MigrateOK(p) /\ PrivateOK(p) /\ f \in Place
  BY Paths DEF MigrationInv, FilesInv
<1>2. disk[f] \in stable[f] /\ disk[f] \in Whole
  BY <1>1 DEF TypeInv, TypeOK, FilesTypeOK, HeldAt
<1>3. ~V1(disk[f])
  <2>1. disk[f] # VaultV1
    BY Kinds DEF HeldAt
  <2>2. QED
    BY <1>1, <1>2, <2>1 DEF VersionInv, VersionOK
<1>4. V2(disk[f])
  BY <1>2, <1>3, Views DEF V1, V2
<1>5. QED
  BY <1>1, <1>4, VaultGrows DEF HeldAt, V2

LEMMA FoundOwn ==
  ASSUME MigrationInv, DefaultInv, ReportInv, os = "unix", NEW p \in Process, OwnStep(p),
         TypeInv', NEW x \in acked', x[2] \in Process
  PROVE  LET f == default_path(x[1]) IN
         /\ f \in VaultPath /\ default_path(x[1])' = f
         /\ power = 0 => HeldAt(f, x[2])'
         /\ x[3] => parent'[f] = "kept" /\ Durably(f, x[2])'
<1>1. TypeInv /\ (AtLegacy \/ AtPlatform) /\ FilesOK(p)
  BY DEF MigrationInv, DefaultInv, FilesInv, FilesOK
<1>2. (AtLegacy => AtLegacy') /\ (AtPlatform => AtPlatform')
  BY <1>1, DefaultOwn
<1>3. x[1] \in BOOLEAN
  BY DEF TypeInv, TypeOK
<1>4. default_path(x[1])' = default_path(x[1]) /\ default_path(x[1]) \in VaultPath
  <2>1. /\ default_path(TRUE) = "custom"
        /\ AtLegacy => default_path(FALSE) = Legacy
        /\ AtPlatform => default_path(FALSE) = "platform"
    BY <1>1, Defaults
  <2>2. \A g \in VaultPath : disk'[g] \in stable'[g]
    BY Paths DEF TypeInv, TypeOK, FilesTypeOK
  <2>3. AtLegacy' => default_path(FALSE)' = Legacy
    BY <2>2, Paths DEF AtLegacy, default_path, Exists
  <2>4. AtPlatform' => default_path(FALSE)' = "platform"
    BY <2>2, Paths DEF AtPlatform, default_path, Exists
  <2>5. default_path(TRUE)' = "custom"
    BY DEF default_path
  <2>6. QED
    BY <1>1, <1>2, <1>3, <2>1, <2>3, <2>4, <2>5 DEF VaultPath
<1>8. PICK f \in VaultPath : default_path(x[1]) = f /\ default_path(x[1])' = f
  BY <1>4
<1>5. CASE x \in acked
  <2>1. /\ power = 0 => HeldAt(f, x[2])
        /\ x[3] => parent[f] = "kept" /\ Durably(f, x[2])
    BY <1>5, <1>8 DEF ReportInv, Durably
  <2>2. power = 0 => HeldAt(f, x[2])'
    BY <2>1, StaysHeld
  <2>3. x[3] => Durably(f, x[2])'
    BY <2>1, StaysDurable
  <2>4. x[3] => parent'[f] = "kept"
    BY <1>1, <2>1, KeptDirectory
  <2>5. QED
    BY <1>8, <2>2, <2>3, <2>4
<1>6. CASE x \notin acked
  <2>1. Report(p) /\ pc[p] \in {"done", "unsynced"}
    BY <1>1, <1>6, AckedFrame
  <2>2. /\ x = <<job[p].home, p, pc[p] = "done" /\ parent[PathOf(p)] = "kept">>
        /\ job[p].kind = "vault" /\ stable' = stable /\ disk' = disk /\ parent' = parent
    BY <1>6, <2>1 DEF Report, fileVars
  <2>3. Running(p) /\ HomeOK(p) /\ PathOf(p) \in VaultPath
    <3>1. Running(p) /\ ShapeOK(p)
      BY <1>1, <2>1 DEF Running, TypeInv
    <3>2. QED
      BY <3>1 DEF ShapeOK, Job, PathOf, DefaultInv
  <2>4. PathOf(p) = f
    <3>1. PathOf(p) = "custom" <=> job[p].home
      BY <2>2, <2>3 DEF HomeOK
    <3>2. /\ AtLegacy => PathOf(p) # "platform"
          /\ AtPlatform => PathOf(p) # Legacy
      BY <2>3 DEF AtLegacy, AtPlatform
    <3>3. CASE x[1] = TRUE
      BY <1>1, <1>8, <2>2, <3>1, <3>3, Defaults
    <3>4. CASE x[1] = FALSE
      <4>1. PathOf(p) \in {Legacy, "platform"}
        BY <2>2, <2>3, <3>1, <3>4 DEF VaultPath
      <4>2. QED
        BY <1>1, <1>8, <3>2, <3>4, <4>1, Defaults
    <3>5. QED
      BY <1>3, <3>3, <3>4
  <2>5. HeldAt(f, p)'
    <3>1. HeldAt(PathOf(p), p)
      BY <1>1, <2>1, <2>2 DEF FilesOK, OpenOK
    <3>2. QED
      BY <2>2, <2>4, <3>1 DEF HeldAt
  <2>6. x[3] => pc[p] = "done" /\ parent[f] = "kept"
    BY <2>2, <2>4
  <2>7. x[3] => Durably(f, p)'
    BY <1>1, <2>2, <2>4, <2>6 DEF FilesOK, OpenOK, Durably
  <2>8. x[2] = p
    BY <2>2
  <2>9. QED
    BY <1>8, <2>2, <2>5, <2>6, <2>7, <2>8
<1>7. QED
  BY <1>5, <1>6

LEMMA FoundNext ==
  ASSUME careful', FoundInv, [MigrationNext]_migrationVars
  PROVE  FoundInv'
<1>1. MigrationInv /\ DefaultInv /\ ReportInv /\ TypeInv
  BY DEF FoundInv, MigrationInv
<1>2. MigrationInv' /\ TypeInv'
  BY <1>1, MigrationStep DEF MigrationInv
<1>3. CASE UNCHANGED migrationVars
  <2>1. UNCHANGED <<os, disk, stable, writing, job, pc, view, lock, parent, acked, power>>
    BY <1>3 DEF migrationVars, fileVars
  <2>2. DefaultInv'
    BY <1>1, <2>1 DEF DefaultInv, HomeOK, AtLegacy, AtPlatform, Running, PathOf
  <2>3. ReportInv'
    BY <1>1, <2>1 DEF ReportInv, HeldAt, default_path, Exists
  <2>4. QED
    BY <1>2, <2>2, <2>3 DEF FoundInv
<1>4. CASE PowerLoss /\ os = "unix"
  <2>1. \A f \in VaultPath :
           /\ stable'[f] = {disk'[f]} /\ disk[f] \in stable[f]
           /\ disk'[f] \in stable[f] \/ (disk'[f] = NoFile /\ parent[f] = "made")
           /\ parent[f] = "kept" => parent'[f] = "kept" /\ disk'[f] \in stable[f]
    BY <1>1, <1>4, Paths, PowerFiles DEF TypeInv, TypeOK, FilesTypeOK
  <2>2. (AtLegacy => AtLegacy') /\ (AtPlatform => AtPlatform') /\ (AtLegacy \/ AtPlatform)
    BY <1>1, <1>4, DefaultPower DEF DefaultInv
  <2>3. DefaultInv'
    <3>1. \A q \in Process : ~Running(q)'
      BY <1>1, <1>4, AfterPower
    <3>2. parent'[Legacy] = "kept"
      BY <1>1, <1>4, <2>1, Paths DEF DefaultInv
    <3>3. QED
      BY <2>2, <3>1, <3>2 DEF DefaultInv, HomeOK
  <2>4. \A home \in BOOLEAN : /\ default_path(home)' = default_path(home)
                              /\ default_path(home) \in VaultPath
    <3>1. Legacy \in VaultPath /\ "platform" \in VaultPath /\ "custom" \in VaultPath
      BY DEF VaultPath
    <3>2. CASE AtLegacy
      BY <2>1, <2>2, <3>1, <3>2 DEF AtLegacy, default_path, Exists
    <3>3. CASE AtPlatform
      BY <2>1, <2>2, <3>1, <3>3 DEF AtPlatform, default_path, Exists
    <3>4. QED
      BY <2>2, <3>2, <3>3
  <2>5. power' # 0 /\ acked' = acked
    BY <1>1, <1>4 DEF PowerLoss, TypeInv, TypeOK
  <2>6. ASSUME NEW x \in acked', x[2] \in Process, x[3]
        PROVE  LET f == default_path(x[1]) IN
               /\ default_path(x[1])' = f /\ parent'[f] = "kept"
               /\ \A c \in stable'[f] : c \in Whole /\ x[2] \in c.entries
    <3>1. x \in acked /\ x[1] \in BOOLEAN
      BY <1>1, <2>5, <2>6 DEF TypeInv, TypeOK
    <3>2. /\ parent[default_path(x[1])] = "kept"
          /\ \A c \in stable[default_path(x[1])] : c \in Whole /\ x[2] \in c.entries
      BY <1>1, <1>4, <2>6, <3>1 DEF ReportInv
    <3>3. QED
      BY <2>1, <2>4, <3>1, <3>2
  <2>7. ReportInv'
    BY <2>5, <2>6 DEF ReportInv
  <2>8. QED
    BY <1>2, <2>3, <2>7 DEF FoundInv
<1>5. ASSUME NEW p \in Process, OwnStep(p), os = "unix"
      PROVE  FoundInv'
  <2>1. AtLegacy \/ AtPlatform
    BY <1>1, <1>5 DEF DefaultInv
  <2>2. DefaultInv'
    <3>1. \A q \in Process : HomeOK(q)'
      BY <1>1, <1>5, <2>1, HomeOwn DEF DefaultInv
    <3>2. AtLegacy' \/ AtPlatform'
      BY <1>1, <1>5, <2>1, DefaultOwn
    <3>3. parent'[Legacy] = "kept"
      BY <1>1, <1>5, Paths, KeptDirectory DEF DefaultInv
    <3>4. QED
      BY <3>1, <3>2, <3>3 DEF DefaultInv
  <2>3. power' = power
    BY <1>1, <1>5, QuietFiles, CallFiles, Steps
  <2>4. ReportInv'
    <3>1. ASSUME NEW x \in acked', x[2] \in Process
          PROVE  /\ power' = 0 => HeldAt(default_path(x[1]), x[2])'
                 /\ x[3] => /\ parent'[default_path(x[1])'] = "kept"
                            /\ Durably(default_path(x[1]), x[2])'
      <4> DEFINE f == default_path(x[1])
      <4>1. /\ f' = f /\ f \in VaultPath
            /\ power = 0 => disk'[f] \in Whole /\ x[2] \in disk'[f].entries
            /\ x[3] => /\ parent'[f] = "kept"
                       /\ \A c \in stable'[f] : c \in Whole /\ x[2] \in c.entries
        BY <1>1, <1>2, <1>5, <3>1, FoundOwn DEF HeldAt, Durably
      <4>2. QED
        BY <2>3, <4>1 DEF HeldAt, Durably
    <3>2. QED
      BY <3>1 DEF ReportInv, Durably
  <2>5. QED
    BY <1>2, <2>2, <2>4 DEF FoundInv
<1>6. CASE os # "unix"
  <2>1. os' = os
    <3>1. CASE PowerLoss
      BY <1>1, <3>1, PowerFiles
    <3>2. ASSUME NEW p \in Process, OwnStep(p)
          PROVE  os' = os
      BY <1>1, <3>2, QuietFiles, CallFiles, Steps
    <3>3. QED
      BY <1>3, <3>1, <3>2 DEF MigrationNext, OwnStep, migrationVars, fileVars
  <2>2. QED
    BY <1>2, <1>6, <2>1 DEF FoundInv, DefaultInv, ReportInv
<1>7. QED
  BY <1>3, <1>4, <1>5, <1>6 DEF MigrationNext, OwnStep

\* On Unix, if no `migrate` ran beside another command, what `set` reported is in the
\* vault that a later command of the same shell opens: after kills, errors and
\* migrations always, and after power failures if the directory of the vault was there
\* before and could be opened for its sync.  write_private syncs the bytes before the
\* rename and the directory after it, and no command makes a second vault that would
\* come first.
THEOREM ReportsAreFound == MigrationSpec => []ReportedIsFound
<1> DEFINE Inv == TypeInv /\ (careful => FoundInv)
<1>1. MigrationInit => Inv
  BY FoundFirst, TypeInit
<1>2. Inv => ReportedIsFound
  <2>1. SUFFICES ASSUME FoundInv, os = "unix", NEW x \in acked, x[2] \in Process,
                        power = 0 \/ x[3]
                 PROVE  HeldAt(default_path(x[1]), x[2])
    BY DEF ReportedIsFound
  <2>2. default_path(x[1]) \in Place
    BY Paths DEF default_path
  <2>3. disk[default_path(x[1])] \in stable[default_path(x[1])]
    BY <2>1, <2>2 DEF FoundInv, MigrationInv, TypeInv, TypeOK, FilesTypeOK
  <2>4. QED
    BY <2>1, <2>3 DEF FoundInv, ReportInv, HeldAt
<1>3. Inv /\ [MigrationNext]_migrationVars => Inv'
  BY TypeNext, CarefulBefore, FoundNext
<1>4. QED
  BY <1>1, <1>2, <1>3, PTL DEF MigrationSpec
==============================================================================
