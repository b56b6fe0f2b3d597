---------------------------- MODULE VaultMigration ----------------------------
(***************************************************************************)
(* The vaults of one user and the step from format v1 to v2: which file a  *)
(* command uses (default_path), opening it (open_at_with_passphrase, with  *)
(* the migration of a v1 file in place), storing an entry, and the command *)
(* `migrate`, over files that DurableFile writes.                          *)
(*                                                                         *)
(* A process is one run of the program: its pid names its temporary file.  *)
(* It runs `migrate` or a command on the vault, which reads it or is       *)
(* `set`, in a shell that has HEARTH_VAULT_HOME or not.  The entry that    *)
(* `set` stores, and the data key a process mints, are named by the        *)
(* process.                                                                *)
(***************************************************************************)
EXTENDS DurableFile

CONSTANTS
    Old,            \* the entry of the legacy vault
    NoJob,          \* a process that runs nothing
    Free,
    Kept,           \* the directories there are at first
    MaxPower        \* bound on power failures

Legacy == "legacy"          \* ~/.hearth/vault.json
V1Bak  == "legacy.v1.bak"
VaultPath == {Legacy, "platform", "custom"}

VARIABLES
    job,        \* job[p]: [kind, home, path]
    pc,
    view,       \* view[p]: what p keeps in memory of the vault it opened
    lock,       \* lock[f]: who holds the flock of the vault f
    parent,     \* parent[f]: the directory of f, which a crash may lose if "made"
    acked,      \* the entries that are safe, as the user knows, with the shell
                \* they are safe for and whether they survive a crash
    careful,    \* history: no `migrate` ran beside a command on the same vault
    power

migrationVars == <<fileVars, job, pc, view, lock, parent, acked, careful, power>>

Entry == Process \cup {Old}
Vault == [ver : {1, 2}, dk : Process \cup {Old}, entries : SUBSET Entry]
Job   == [kind : {"vault", "migrate"}, home : BOOLEAN, path : VaultPath]

ASSUME MigrationAssumption ==
    /\ Path = VaultPath \cup {V1Bak}
    /\ Whole = Vault
    /\ Old \notin Process /\ Free \notin Process /\ NoJob \notin Job
    /\ Legacy \in Kept /\ Kept \subseteq VaultPath
    /\ MaxPower \in Nat

VaultV1 == [ver |-> 1, dk |-> Old, entries |-> {Old}]

TypeOK ==
    /\ FilesTypeOK
    /\ job \in [Process -> Job \cup {NoJob}]
    /\ pc \in [Process -> {"idle", "probe", "lock_old", "reprobe", "read", "bak", "rewrite",
                           "load", "lock_new", "create", "use", "refresh", "save", "done",
                           "unsynced", "ended"}]
    /\ view \in [Process -> Contents]
    /\ lock \in [VaultPath -> Process \cup {Free}]
    /\ parent \in [VaultPath -> {"none", "made", "kept"}]
    /\ acked \subseteq BOOLEAN \X Entry \X BOOLEAN
    /\ careful \in BOOLEAN
    /\ power \in 0 .. MaxPower

-----------------------------------------------------------------------------
(* Helpers. *)

Exists(f)  == disk[f] # NoFile
V1(c)      == c \in Whole /\ c.ver = 1
V2(c)      == c \in Whole /\ c.ver = 2
PathOf(p)  == job[p].path
Running(p) == pc[p] \notin {"idle", "ended"}

Goto(p, label) == pc' = [pc EXCEPT ![p] = label] /\ UNCHANGED job

\* Without HEARTH_VAULT_HOME: the platform directory, or the legacy file if it
\* is there and the other is not.
default_path(home) ==
    IF home THEN "custom"
    ELSE IF Exists("platform") \/ ~Exists(Legacy) THEN "platform" ELSE Legacy

\* Faulty variant: nobody waits.
TakeAlways(p) == lock' = [lock EXCEPT ![PathOf(p)] = p]

Take(p) == lock[PathOf(p)] = Free /\ lock' = [lock EXCEPT ![PathOf(p)] = p]
Release(p) == lock' = [f \in VaultPath |-> IF lock[f] = p THEN Free ELSE lock[f]]

\* p returns, with a report or an error; its store is dropped.
End(p) ==
    /\ pc' = [pc EXCEPT ![p] = "ended"] /\ Release(p)
    /\ view' = [view EXCEPT ![p] = NoFile]
    /\ job' = [job EXCEPT ![p] = NoJob]

Keep == UNCHANGED <<parent, acked, careful, power>>

MigrationInit ==
    /\ \E f \in SUBSET {Legacy} :
          /\ FilesInit([g \in Path |-> IF g \in f THEN VaultV1 ELSE NoFile])
          /\ acked = {FALSE} \X (IF f = {} THEN {} ELSE {Old}) \X {TRUE}
    /\ parent = [f \in VaultPath |-> IF f \in Kept THEN "kept" ELSE "none"]
    /\ careful = TRUE
    /\ job = [p \in Process |-> NoJob]
    /\ pc = [p \in Process |-> "idle"]
    /\ view = [p \in Process |-> NoFile]
    /\ lock = [f \in VaultPath |-> Free]
    /\ power = 0

-----------------------------------------------------------------------------
(* Starting a command. *)

\* `migrate` takes no lock: it has the vault to itself if nobody uses it.
MayStart(kind, path) ==
    \A q \in Process : Running(q) /\ PathOf(q) = path =>
        kind # "migrate" /\ job[q].kind # "migrate"

Start(p, kind, home, path, label) ==
    /\ pc[p] = "idle"
    /\ careful' = (careful /\ MayStart(kind, path))
    /\ job' = [job EXCEPT ![p] = [kind |-> kind, home |-> home, path |-> path]]
    /\ pc' = [pc EXCEPT ![p] = label]
    /\ UNCHANGED <<fileVars, view, lock, parent, acked, power>>

RunVaultCommand(p) ==
    \E home \in BOOLEAN : Start(p, "vault", home, default_path(home), "probe")

\* cmd_migrate refuses if there is nothing to migrate, or a vault at the target.
cmd_migrate(p) ==
    \E home \in BOOLEAN :
        /\ Exists(Legacy) /\ ~Exists(default_path(home))
        /\ Start(p, "migrate", home, Legacy, "read")

-----------------------------------------------------------------------------
(* open_at_with_passphrase *)

\* After the first look at the file.  An error ends the command.
AfterProbe(c) ==
    IF c = NoFile THEN "lock_new" ELSE IF V1(c) THEN "lock_old" ELSE "load"

Probe(p) ==
    /\ pc[p] = "probe"
    /\ IF disk[PathOf(p)] = Torn THEN End(p)
       ELSE Goto(p, AfterProbe(disk[PathOf(p)])) /\ UNCHANGED <<view, lock>>
    /\ UNCHANGED fileVars /\ Keep

LockOld(p) ==
    /\ pc[p] = "lock_old" /\ Take(p)
    /\ Goto(p, "reprobe")
    /\ UNCHANGED <<fileVars, view>> /\ Keep

AfterReprobe(c) == IF V1(c) THEN "read" ELSE "load"

\* Somebody else migrated it while p waited for the lock: load that.
Reprobe(p) ==
    /\ pc[p] = "reprobe"
    /\ LET c == disk[PathOf(p)] IN
       IF c \in {NoFile, Torn} THEN End(p)
       ELSE /\ Goto(p, AfterReprobe(c))
            /\ IF AfterReprobe(c) = "read" THEN UNCHANGED lock ELSE Release(p)
            /\ UNCHANGED view
    /\ UNCHANGED fileVars /\ Keep

\* load_v2
Load(p) ==
    /\ pc[p] = "load"
    /\ IF V2(disk[PathOf(p)])
       THEN Goto(p, "use") /\ view' = [view EXCEPT ![p] = disk[PathOf(p)]] /\ UNCHANGED lock
       ELSE End(p)
    /\ UNCHANGED fileVars /\ Keep

MayCreate(p) == ~Exists(PathOf(p))

\* Creation: under the lock, if the vault is still not there.  The directory is made
\* for the lock file, and never synced into its own.
LockNew(p) ==
    /\ pc[p] = "lock_new" /\ Take(p)
    /\ Goto(p, "create")
    /\ parent' = [parent EXCEPT ![PathOf(p)] = IF @ = "none" THEN "made" ELSE @]
    /\ UNCHANGED <<fileVars, view, acked, careful, power>>

CreateYields(p) ==
    /\ pc[p] = "create" /\ writing[p] = NoWrite /\ ~MayCreate(p)
    /\ Goto(p, "load") /\ Release(p)
    /\ UNCHANGED <<fileVars, view>> /\ Keep

create_new(p) ==
    /\ pc[p] = "create" /\ writing[p] = NoWrite /\ MayCreate(p)
    /\ LET new == [ver |-> 2, dk |-> p, entries |-> {}] IN
       /\ StartWrite(p, "private", PathOf(p), new)
       /\ view' = [view EXCEPT ![p] = new]
    /\ UNCHANGED <<job, pc, lock>> /\ Keep

-----------------------------------------------------------------------------
(* migrate_v1_to_v2: what it read must be v1; then the copy, then the file.  *)

\* Faulty variant: no copy is made.
FirstWriteRewrite == "rewrite"

FirstWrite == "bak"

MigrateRead(p) ==
    /\ pc[p] = "read"
    /\ LET c == disk[PathOf(p)] IN
       IF V1(c)
       THEN Goto(p, FirstWrite) /\ view' = [view EXCEPT ![p] = c] /\ UNCHANGED lock
       ELSE End(p)
    /\ UNCHANGED fileVars /\ Keep

MigrateBackup(p) ==
    /\ pc[p] = "bak" /\ StartWrite(p, "plain", V1Bak, view[p])
    /\ UNCHANGED <<job, pc, view, lock>> /\ Keep

\* Under a new data key; the entries as they were.
MigrateRewrite(p) ==
    /\ pc[p] = "rewrite"
    /\ StartWrite(p, "plain", PathOf(p), [view[p] EXCEPT !.ver = 2, !.dk = p])
    /\ UNCHANGED <<job, pc, view, lock>> /\ Keep

-----------------------------------------------------------------------------
(* What the command does with the store. *)

\* `set` goes on to the lock, a command that reads is at its end.
Use(p) ==
    /\ pc[p] = "use"
    /\ \/ Take(p) /\ Goto(p, "refresh") /\ UNCHANGED view
       \/ End(p)
    /\ UNCHANGED fileVars /\ Keep

\* The re-read of lock_and_refresh, and the edit.
Refresh(p) ==
    /\ pc[p] = "refresh"
    /\ LET c == disk[PathOf(p)] IN
       IF V2(c) /\ c.dk = view[p].dk
       THEN /\ Goto(p, "save") /\ UNCHANGED lock
            /\ view' = [view EXCEPT ![p] = c]
       ELSE End(p)
    /\ UNCHANGED fileVars /\ Keep

\* `save` compares the file with what p read.
Save(p) ==
    /\ pc[p] = "save" /\ writing[p] = NoWrite
    /\ IF disk[PathOf(p)] = view[p]
       THEN /\ StartWrite(p, "private", PathOf(p), [view[p] EXCEPT !.entries = @ \cup {p}])
            /\ UNCHANGED <<job, pc, view, lock>>
       ELSE End(p) /\ UNCHANGED fileVars
    /\ Keep

\* A write returned: on to what the method does next.  Whether the directory was
\* synced (saved = "done") or that was skipped is nothing the command knows.
AfterWrite(p, saved) ==
    CASE pc[p] = "bak"     -> Goto(p, "rewrite") /\ UNCHANGED lock
      [] pc[p] = "rewrite" -> Release(p) /\ Goto(p, IF job[p].kind = "migrate" THEN "done"
                                                    ELSE "load")
      [] pc[p] = "create"  -> Goto(p, "use") /\ Release(p)
      [] pc[p] = "save"    -> Goto(p, saved) /\ UNCHANGED lock

Called(p, saved) ==
    /\ IF writing'[p] = NoWrite THEN AfterWrite(p, saved) ELSE UNCHANGED <<job, pc, lock>>
    /\ UNCHANGED view /\ Keep

WriteContinues(p) ==
    \/ WriteStep(p) /\ Called(p, "done")
    \/ SkipDirSync(p) /\ Called(p, "unsynced")

WriteError(p) == WriteFails(p) /\ End(p) /\ Keep

\* The command reports that it is done.
Report(p) ==
    /\ pc[p] \in {"done", "unsynced"}
    /\ LET durable == pc[p] = "done" /\ parent[PathOf(p)] = "kept" IN
       acked' = acked \cup
           (IF job[p].kind = "vault" THEN {<<job[p].home, p, durable>>} ELSE {})
    /\ End(p)
    /\ UNCHANGED <<fileVars, parent, careful, power>>

-----------------------------------------------------------------------------
(* What happens to a process. *)

\* It is killed, or its human gives up at a prompt.
Kill(p) == Running(p) /\ WriterDies(p) /\ End(p) /\ Keep

PowerLoss ==
    /\ power < MaxPower
    /\ power' = power + 1
    /\ \E gone \in SUBSET {f \in VaultPath : parent[f] = "made"} :
          /\ LosePower(gone)
          /\ parent' = [f \in VaultPath |-> IF f \in gone THEN "none"
                                           ELSE IF parent[f] = "made" THEN "kept" ELSE parent[f]]
    /\ pc' = [p \in Process |-> IF Running(p) THEN "ended" ELSE pc[p]]
    /\ job' = [p \in Process |-> NoJob]
    /\ view' = [p \in Process |-> NoFile]
    /\ lock' = [f \in VaultPath |-> Free]
    /\ UNCHANGED <<acked, careful>>

Step(p) ==
    \/ Probe(p) \/ LockOld(p) \/ Reprobe(p) \/ Load(p)
    \/ LockNew(p) \/ CreateYields(p) \/ create_new(p)
    \/ MigrateRead(p) \/ MigrateBackup(p) \/ MigrateRewrite(p)
    \/ Use(p) \/ Refresh(p) \/ Save(p) \/ WriteContinues(p) \/ WriteError(p) \/ Report(p)

MigrationNext ==
    \/ \E p \in Process : RunVaultCommand(p) \/ cmd_migrate(p) \/ Step(p) \/ Kill(p)
    \/ PowerLoss

MigrationSpec == MigrationInit /\ [][MigrationNext]_migrationVars

-----------------------------------------------------------------------------
(* Properties. *)

HeldAt(f, e) == disk[f] \in Whole /\ e \in disk[f].entries

IsSomewhere(e) == \E f \in Place : HeldAt(f, e)

\* The rename of Windows fails: its remove has been done.
RenameTooLate(p) == os = "windows" /\ Doing(p, "rename") /\ WriteError(p)

\* Whoever is killed or gets an error, and wherever: an entry of the legacy vault, or
\* one that `set` reported, that is in some whole file (the vault, the copy of the v1
\* file, a temporary file) is in one after every step, and one is when `set` reports.
\* The exceptions are those of the code: a rename that fails on Windows after the
\* remove, which leaves neither the vault nor the temporary file; a `migrate`, which
\* takes no lock, beside another command on the same vault; a power failure, of which
\* ReportedIsFound speaks.
NothingIsLost ==
    [][careful' /\ power' = power /\ ~(\E p \in Process : RenameTooLate(p)) =>
          \A x \in acked' : (x \in acked => IsSomewhere(x[2])) => IsSomewhere(x[2])'
      ]_migrationVars

\* On Unix, unless a `migrate` ran beside another command: what `set` reported is found
\* at the path that a later command of the same shell uses, after kills and errors; and
\* after power failures too, if the directory could be opened to be synced and was not
\* new.  A vault that is being replaced or migrated never sends another command
\* elsewhere.
ReportedIsFound ==
    os = "unix" /\ careful =>
        \A x \in acked : x[2] \in Process /\ (power = 0 \/ x[3]) =>
            HeldAt(default_path(x[1]), x[2])

\* On Unix, unless a `migrate` ran beside another command: a vault is not re-keyed
\* under those who have it open, so that they can still save.  Of several processes
\* that open a v1 file at once, one migrates it, and of several that find none, one
\* creates it.
DataKeyIsKept ==
    os = "unix" /\ careful =>
        \A p \in Process : pc[p] \in {"use", "refresh", "save"} /\ V2(disk[PathOf(p)]) =>
            disk[PathOf(p)].dk = view[p].dk

\* `migrate` moves the legacy vault into the platform data directory: when it
\* reports success, the vault it names as the new one has the entries.
MigrateMoves ==
    \A p \in Process : pc[p] = "done" /\ job[p].kind = "migrate" =>
        HeldAt(default_path(job[p].home), Old)
=============================================================================
