---------------------------- MODULE VaultCommands ----------------------------
(***************************************************************************)
(* The command-line program over VaultStore (main.rs).  A process runs one *)
(* command line at a time.  `Program(line)` is the order of the calls in   *)
(* the body of its `cmd_...` function; cmd[p].at is the place in it, and   *)
(* each kind of call is one action here, conjoined with the steps of       *)
(* VaultStore it makes.  An error (`?`, bail!, exit(1)) goes to "failed".  *)
(* At "done" the command prints what it did; the store, and with it the    *)
(* lock, lives until the function returns.                                 *)
(*                                                                         *)
(* `clock` counts seconds: write_backup names a snapshot by the second;    *)
(* Imported names a copy the user brought along.                           *)
(* Ticks, typing, and what the user runs next are up to the environment.   *)
(***************************************************************************)
EXTENDS VaultStore, Sequences, FiniteSetsExt

CONSTANTS
    Menu,           \* Menu[m]: what users may type in one behaviour, as `lines` (the
                    \* command lines, records with field `op`), `pass` (passphrases),
                    \* `others` (vaults of teammates, who share them with this one), and
                    \* `runs`, the bound on the number of commands run
    NoCmd,          \* a process that runs nothing
    NoBundle,       \* no bundle file
    MaxClock        \* bound on the seconds that pass; Name is 0 .. MaxClock

VARIABLES
    cmd,            \* cmd[p]: NoCmd, or [line, at, saved, read].  saved: the name of
                    \* the snapshot it reported, or the pairs that `receive` stored.
                    \* read: the bundle it read, in a set
    bundle,         \* the bundle file that lies around
    menu,           \* the menu of this behaviour
    runs,
    clock

env == <<bundle, menu, runs, clock>>
cmdVars == <<file, snapshot, lock, store, pc, arg, fresh, cmd, bundle, menu, runs, clock>>

\* What `share` seals to an identity: identities are derived from data keys.
\* `from` is the vault it was sealed from.
Shared == [value : Value, tier : 1 .. TIER_MAX]
Bundle == [to : Nat, items : [Key -> Shared \cup {NoEntry}], from : Body]

\* An option is the set of its arguments: {} if it is not given.
Option(S) == {o \in SUBSET S : \A x, y \in o : x = y}

CommandLine ==
    [op : {"set"}, key : Key, value : Value, tier : Option(Nat), rotate : Option(BOOLEAN),
     pin : BOOLEAN]
    \cup [op : {"delete"}, key : Key, no_backup : BOOLEAN]
    \cup [op : {"rename"}, key : Key, to : Key]
    \cup [op : {"retier"}, key : Key, tier : Nat]
    \cup [op : {"change-passphrase"}, via : {"open", "unlock"}, pass : Passphrase]
    \cup [op : {"new-recovery-key", "recover", "init", "backup"}]
    \cup [op : {"restore"}, name : Name]
    \cup [op : {"share"}, cap : Option(1 .. TIER_MAX)]
    \cup [op : {"receive"}, force : BOOLEAN, all_to : Option(Key)]

Pair    == [key : Key, value : Value]
Command == [line : CommandLine, at : Nat, saved : SUBSET (Name \cup Pair), read : SUBSET Bundle]

(* Four draws at most per command, and two more if it creates the vault:   *)
(* the bound of VaultStore never stops a command half way.                 *)
ASSUME CommandsAssumption ==
    /\ MaxClock \in Nat \ {0} /\ Name = 0 .. MaxClock
    /\ NoBundle \notin Bundle /\ NoCmd \notin Command
    /\ NoEntry \notin Shared
    /\ \A m \in DOMAIN Menu :
          /\ Menu[m].lines \subseteq CommandLine
          /\ Menu[m].pass \subseteq Passphrase /\ Menu[m].others \subseteq Body
          /\ Menu[m].runs \in Nat /\ MaxFresh >= 6 * Menu[m].runs + 1

Imported == 0

\* Faulty variant: the human types under the lock.
SetProgramPrompting == <<"open", "refresh", "prompt", "edit", "save", "verify", "done">>

SetProgram == <<"open", "prompt", "refresh", "edit", "save", "verify", "done">>

\* Faulty variant: the snapshot is taken before the lock.
DeleteProgramEarly(no_backup) ==
    IF no_backup THEN <<"open", "refresh", "find", "edit", "save", "done">>
                 ELSE <<"open", "find", "backup", "refresh", "edit", "save", "done">>

DeleteProgram(no_backup) ==
    IF no_backup THEN <<"open", "refresh", "find", "edit", "save", "done">>
                 ELSE <<"open", "refresh", "find", "backup", "edit", "save", "done">>

\* rename, retier and new-recovery-key.
EditProgram == <<"open", "refresh", "edit", "save", "done">>

\* `change-passphrase` opens with either credential; the new one is typed before
\* the lock.
PassphraseProgram(via) == <<via, "prompt", "refresh", "edit", "save", "done">>

\* `recover` opens with the phrase, and replaces it.
RecoverProgram == <<"unlock", "refresh", "edit", "save", "done">>

\* `init` makes an empty vault, and saves it again with a recovery phrase.  It does
\* not refresh its store, which another process may have created.
InitProgram == <<"open", "save", "edit", "save", "done">>

RestoreProgram == <<"probe", "backup", "replace", "done">>

ShareProgram == <<"open", "seal", "done">>

ReceiveProgram == <<"fetch", "open", "unseal", "refresh", "edit", "save", "verify", "done">>

Program(line) ==
    CASE line.op = "set"     -> SetProgram
      [] line.op = "delete"  -> DeleteProgram(line.no_backup)
      [] line.op \in {"rename", "retier", "new-recovery-key"} -> EditProgram
      [] line.op = "change-passphrase" -> PassphraseProgram(line.via)
      [] line.op = "recover" -> RecoverProgram
      [] line.op = "init"    -> InitProgram
      [] line.op = "backup"  -> <<"backup", "done">>
      [] line.op = "restore" -> RestoreProgram
      [] line.op = "share"   -> ShareProgram
      [] line.op = "receive" -> ReceiveProgram

CommandsInit ==
    /\ Init
    /\ \A n \in Name \ {Imported} : snapshot[n] = NoFile
    /\ cmd = [p \in Process |-> NoCmd]
    /\ bundle = NoBundle
    /\ menu \in DOMAIN Menu
    /\ runs = 0
    /\ clock = 1

-----------------------------------------------------------------------------
(* Helpers. *)

Running(p) == cmd[p] # NoCmd
Line_(p)   == cmd[p].line
Op(p)      == cmd[p].line.op
Failed     == 0
At(p, label) ==
    /\ Running(p) /\ cmd[p].at # Failed
    /\ Program(Line_(p))[cmd[p].at] = label

\* p is between two calls of its program, at the one called label.
Calls(p, label) == At(p, label) /\ Idle(p)

Stay == UNCHANGED <<cmd, env>>

\* A call returned: to the next one, or to the error exit.
Return(p, ok) ==
    /\ cmd' = [cmd EXCEPT ![p].at = IF ok THEN @ + 1 ELSE Failed]
    /\ UNCHANGED env

-----------------------------------------------------------------------------
(* Opening and creating the vault. *)

\* What a command requires of vault_path before it asks for a passphrase.
Precondition(line) ==
    CASE line.op \in {"change-passphrase", "new-recovery-key", "recover"} -> file # NoFile
      [] line.op = "init" -> file = NoFile
      [] OTHER -> TRUE

Run(p) ==
    /\ ~Running(p) /\ runs < Menu[menu].runs
    /\ \E line \in Menu[menu].lines :
          /\ Precondition(line)
          /\ cmd' = [cmd EXCEPT ![p] = [line |-> line, at |-> 1, saved |-> {}, read |-> {}]]
    /\ runs' = runs + 1
    /\ UNCHANGED <<vars, bundle, menu, clock>>

OpenVault(p) ==
    /\ Calls(p, "open")
    /\ \E pass \in Menu[menu].pass : OpenAtWithPassphrase(p, pass)
    /\ Stay

LoadReturns(p) == load_v2(p) /\ Return(p, store'[p] # Closed)

CreateContinues(p) ==
    /\ CreateLock(p) \/ CreateYields(p) \/ create_new(p)
    /\ Stay

\* A mnemonic that does not open the vault ends the command as a wrong
\* passphrase does.
UnlockWithMnemonic(p) ==
    /\ Calls(p, "unlock")
    /\ \/ \E phrase \in 1 .. fresh : OpenAtWithMnemonic(p, phrase) /\ Return(p, TRUE)
       \/ UNCHANGED vars /\ Return(p, FALSE)

-----------------------------------------------------------------------------
(* The human types: no fairness. *)

Prompt(p) ==
    /\ Calls(p, "prompt")
    /\ Return(p, TRUE)
    /\ UNCHANGED vars

-----------------------------------------------------------------------------
(* lock_and_refresh, then the edit in memory, then save. *)

Refresh(p) == Calls(p, "refresh") /\ lock_and_refresh(p) /\ Stay

RefreshReturns(p) == RefreshRead(p) /\ Return(p, CanRefresh(p))

\* cmd_delete looks the key up before it takes its snapshot.
Find(p) ==
    /\ Calls(p, "find")
    /\ Return(p, Has(store[p].body, Line_(p).key))
    /\ UNCHANGED vars

\* Faulty variant: no --tier means use-only.
TierToSetDefault(body, line) ==
    IF line.tier # {} THEN CHOOSE t \in line.tier : TRUE ELSE TIER_USE_ONLY

\* With no --tier an existing key keeps its tier, a new one is use-only.
TierToSet(body, line) ==
    IF line.tier # {} THEN CHOOSE t \in line.tier : TRUE
    ELSE IF Has(body, line.key) THEN body[line.key].tier ELSE TIER_USE_ONLY

\* cmd_set: the value, then the policy, then the pinned date.
AfterSet(body, line) ==
    LET stored == SetEntry(body, line.key, line.value, TierToSet(body, line))
        ruled  == IF line.rotate = {} THEN stored
                  ELSE SetRotation(stored, line.key, TRUE \in line.rotate)
    IN  IF line.pin THEN SetExpiry(ruled, line.key) ELSE ruled

\* Faulty variant: the door of tier 4 is missing.
MayRetierAny(body, line) == CanRetier(body, line.key, line.tier)

\* cmd_retier: the door of tier 4 opens one way.
MayRetier(body, line) ==
    /\ CanRetier(body, line.key, line.tier)
    /\ body[line.key].tier = TIER_SIGN_ONLY => line.tier = TIER_SIGN_ONLY

CanEdit(body, line) ==
    CASE line.op = "set"    -> CanSet(body, line.key, TierToSet(body, line))
      [] line.op = "delete" -> Has(body, line.key)
      [] line.op = "rename" -> CanRename(body, line.key, line.to)
      [] line.op = "retier" -> MayRetier(body, line)

Edited(body, line) ==
    CASE line.op = "set"    -> AfterSet(body, line)
      [] line.op = "delete" -> Delete(body, line.key)
      [] line.op = "rename" -> Rename(body, line.key, line.to)
      [] line.op = "retier" -> Retier(body, line.key, line.tier)

BodyOps == {"set", "delete", "rename", "retier"}

EditBody(p) ==
    /\ Calls(p, "edit") /\ Op(p) \in BodyOps
    /\ IF CanEdit(store[p].body, Line_(p))
       THEN SetBody(p, Edited(store[p].body, Line_(p))) /\ Return(p, TRUE)
       ELSE UNCHANGED vars /\ Return(p, FALSE)

EditWraps(p) ==
    /\ Calls(p, "edit") /\ Op(p) \notin BodyOps \cup {"receive"}
    /\ IF Op(p) = "change-passphrase" THEN change_passphrase(p, Line_(p).pass)
                                      ELSE generate_recovery_key(p)
    /\ Return(p, TRUE)

Save(p) == Calls(p, "save") /\ save(p) /\ Stay

SaveContinues(p) == SaveCheck(p) /\ Stay

\* Also the end of a creation.  An error in save is the error of the command.
SaveReturns(p) ==
    \/ SaveWrite(p) /\ Return(p, TRUE)
    \/ (SaveRefused(p) \/ SaveFails(p) \/ SaveFailsLate(p)) /\ Return(p, FALSE)

\* The pairs it was to store.
Expected(p) == IF Op(p) = "set" THEN {[key |-> Line_(p).key, value |-> Line_(p).value]}
               ELSE cmd[p].saved

\* verify_persisted: read the file back with the data key of the store.
Verify(p) ==
    /\ Calls(p, "verify")
    /\ Return(p, /\ file # NoFile /\ file.dk = store[p].dk
                 /\ \A x \in Expected(p) : Has(file.body, x.key)
                                          /\ file.body[x.key].value = x.value)
    /\ UNCHANGED vars

-----------------------------------------------------------------------------
(* Snapshots. *)

\* A failed snapshot ends `backup` and `restore`; `delete` warns and goes on.
\* `restore` saves nothing when there is no vault to save.
BackupOptional(p) == Op(p) = "delete" \/ (Op(p) = "restore" /\ file = NoFile)

Backup(p) ==
    /\ Calls(p, "backup")
    /\ \/ BackupRead(p, clock) /\ Stay
       \/ /\ file = NoFile \/ snapshot[clock] # NoFile
          /\ UNCHANGED vars
          /\ Return(p, BackupOptional(p))

BackupReturns(p) ==
    \/ /\ BackupWrite(p)
       /\ cmd' = [cmd EXCEPT ![p].at = @ + 1, ![p].saved = {arg[p].name}]
       /\ UNCHANGED env
    \/ BackupFails(p) /\ Return(p, BackupOptional(p))

\* Prove that the snapshot opens before the live vault is touched.
Probe(p) ==
    /\ Calls(p, "probe")
    /\ LET source == snapshot[Line_(p).name] IN
       \E pass \in Menu[menu].pass :
           Return(p, source # NoFile /\ Unwraps(source.pass, pass, source))
    /\ UNCHANGED vars

Replace(p) == Calls(p, "replace") /\ RestoreRead(p, Line_(p).name) /\ Stay

ReplaceContinues(p) == (RestoreLock(p) \/ RestoreWrite(p)) /\ Stay

ReplaceFails(p) == RestoreFails(p) /\ Return(p, FALSE)

\* The answer to STATUS and to DROP, at once if there is no agent.  A client that
\* says nothing keeps an agent from answering, for as long as it likes: no fairness.
AgentAnswers(p) == RestoreReturns(p) /\ Return(p, TRUE)

-----------------------------------------------------------------------------
(* Sharing.  The key of a line is replaced by `RenameTo`: with --prefix, two *)
(* keys may become one.                                                     *)

\* Faulty variant: the cap loosens.
CappedBelow(tier, cap) == IF cap = {} THEN tier ELSE Min({tier} \cup cap)

\* --max-tier raises a tier, and never lowers one.
Capped(tier, cap) == Max({tier} \cup cap)

Shareable(body, k) == Has(body, k) /\ body[k].tier # TIER_SIGN_ONLY

seal(body, to, cap) ==
    [to    |-> to, from |-> body,
     items |-> [k \in Key |-> IF Shareable(body, k)
                              THEN [value |-> body[k].value, tier |-> Capped(body[k].tier, cap)]
                              ELSE NoEntry]]

Shares(b) == {k \in Key : b.items[k] # NoEntry}

\* cmd_share: from the vault as it was opened, without a lock, to this vault or to
\* that of a teammate.
Seal(p) ==
    /\ Calls(p, "seal")
    /\ \E to \in {store[p].dk, Foreign.dk} :
          LET sealed == seal(store[p].body, to, Line_(p).cap) IN
          \/ Shares(sealed) # {} /\ bundle' = sealed
             /\ cmd' = [cmd EXCEPT ![p].at = @ + 1]
          \/ /\ Shares(sealed) = {} \/ DiskFails
             /\ cmd' = [cmd EXCEPT ![p].at = Failed] /\ UNCHANGED bundle
    /\ UNCHANGED <<vars, menu, runs, clock>>

\* A teammate who knows the identity of this vault sends a bundle.
TeammateShares ==
    /\ file # NoFile /\ bundle = NoBundle
    /\ \E body \in Menu[menu].others, cap \in {{}, {1}, {TIER_USE_ONLY}} : bundle' = seal(body, file.dk, cap)
    /\ UNCHANGED <<vars, cmd, menu, runs, clock>>

\* cmd_receive reads the file before it opens the vault.
Fetch(p) ==
    /\ Calls(p, "fetch")
    /\ cmd' = [cmd EXCEPT ![p].at = IF bundle = NoBundle THEN Failed ELSE @ + 1,
                          ![p].read = {bundle} \ {NoBundle}]
    /\ UNCHANGED <<vars, env>>

\* open: it must be addressed to the identity of this vault.
Unseal(p) ==
    /\ Calls(p, "unseal")
    /\ Return(p, \A b \in cmd[p].read : b.to = store[p].dk)
    /\ UNCHANGED vars

RenameTo(line, k) == IF line.all_to = {} THEN k ELSE CHOOSE l \in line.all_to : TRUE

\* A key that exists is skipped unless forced.  Of two that become one key one is
\* stored, or with --force both, one over the other; `one` says what stays.
Receive(p) ==
    /\ Calls(p, "edit") /\ Op(p) = "receive"
    /\ LET line  == Line_(p)
           b     == CHOOSE x \in cmd[p].read : TRUE
           of(l) == {k \in Shares(b) : RenameTo(line, k) = l}
           taken == {l \in Key : of(l) # {} /\ (line.force \/ ~Has(store[p].body, l))}
       IN  \E one \in [taken -> Shares(b)] :
             /\ \A l \in taken : one[l] \in of(l)
             /\ SetBody(p, [l \in Key |->
                    IF l \in taken
                    THEN SetEntry(store[p].body, l, b.items[one[l]].value, b.items[one[l]].tier)[l]
                    ELSE store[p].body[l]])
             /\ LET stored == {x \in taken \X Shares(b) : IF line.force THEN x[2] \in of(x[1])
                                                           ELSE x[2] = one[x[1]]} IN
                cmd' = [cmd EXCEPT
                    ![p].saved = {[key |-> x[1], value |-> b.items[x[2]].value] : x \in stored},
                    ![p].at = IF taken = {} THEN Len(Program(line)) ELSE @ + 1]
    /\ UNCHANGED env

-----------------------------------------------------------------------------
(* The end of a command. *)

\* It returned, with success or with an error: its store is dropped.
Exit(p) ==
    /\ Running(p) /\ Idle(p)
    /\ cmd[p].at = Failed \/ At(p, "done")
    /\ IF Open(p) THEN Drop(p) ELSE UNCHANGED vars
    /\ cmd' = [cmd EXCEPT ![p] = NoCmd]
    /\ UNCHANGED env

AwaitsLock(p) ==
    /\ lock \notin {Free, p}
    /\ \/ pc[p] \in {"createLock", "replaceLock"}
       \/ Calls(p, "refresh") \/ Calls(p, "save")

\* LOCK_WAIT passes: acquire gives up, and the method it was called from.
LockTimeout(p) ==
    /\ AwaitsLock(p)
    /\ store' = [store EXCEPT ![p] = IF Idle(p) THEN @ ELSE Closed]
    /\ arg' = [arg EXCEPT ![p] = NoArg]
    /\ Goto(p, "idle")
    /\ UNCHANGED <<file, snapshot, lock, fresh>>
    /\ Return(p, FALSE)

\* Killed, at any step.
Kill(p) ==
    /\ Running(p)
    /\ IF Idle(p) /\ ~Open(p) THEN UNCHANGED vars ELSE Crash(p)
    /\ cmd' = [cmd EXCEPT ![p] = NoCmd]
    /\ UNCHANGED env

Tick ==
    /\ clock < MaxClock
    /\ clock' = clock + 1
    /\ UNCHANGED <<vars, cmd, bundle, menu, runs>>

\* What the program does by itself, without a human, an agent, a clock or a signal.  A
\* wait for the lock may end with a timeout, but need not.
Step(p) ==
    \/ OpenVault(p)  \/ LoadReturns(p)     \/ CreateContinues(p) \/ UnlockWithMnemonic(p)
    \/ Refresh(p)    \/ RefreshReturns(p)  \/ Find(p) \/ EditBody(p) \/ EditWraps(p)
    \/ Save(p)       \/ SaveContinues(p)   \/ SaveReturns(p) \/ Verify(p)
    \/ Backup(p)     \/ BackupReturns(p)   \/ Probe(p)
    \/ Replace(p)    \/ ReplaceContinues(p) \/ ReplaceFails(p)
    \/ Seal(p)       \/ Fetch(p)          \/ Unseal(p) \/ Receive(p)
    \/ Exit(p)

CommandsNext ==
    \/ \E p \in Process :
          Run(p) \/ Prompt(p) \/ AgentAnswers(p) \/ LockTimeout(p) \/ Kill(p) \/ Step(p)
    \/ Tick \/ TeammateShares

CommandsSpec == CommandsInit /\ [][CommandsNext]_cmdVars

-----------------------------------------------------------------------------
(* Properties. *)

\* This step is the save of p's command, over a vault that existed.
Commits(p) ==
    /\ Running(p) /\ pc[p] = "write" /\ file # NoFile /\ file' # file

\* The keys whose entries a command is about.
Touched(p) ==
    LET line == Line_(p) IN
    CASE line.op \in {"set", "delete", "retier"} -> {line.key}
      [] line.op = "rename"  -> {line.key, line.to}
      [] line.op = "receive" -> {x.key : x \in cmd[p].saved}
      [] OTHER -> {}

\* A command that commits changes its own part of the vault and leaves every
\* other part as the previous commit left it, whoever made that commit: a key
\* that another process stored meanwhile stays, and a passphrase or recovery
\* phrase that another process replaced meanwhile stays replaced.
CommitsTouchOnlyTheirPart ==
    [][\A p \in Process : Commits(p) =>
          /\ \A k \in Key \ Touched(p) : file'.body[k] = file.body[k]
          /\ Op(p) # "change-passphrase" => file'.pass = file.pass
          /\ Op(p) \notin {"new-recovery-key", "recover", "init"} => file'.rec = file.rec]_cmdVars

\* Rotation must not retier: a `set` without --tier commits the tier that the
\* key has in the vault it replaces (also when another process moved it after
\* this one opened the vault), and the same for the rotation policy.
RotationKeepsTier ==
    [][\A p \in Process : Commits(p) /\ Op(p) = "set" =>
          LET k   == Line_(p).key
              old == file.body[k]
              new == file'.body[k]
          IN  /\ Line_(p).tier = {} /\ old # NoEntry => new.tier = old.tier
              /\ Line_(p).rotate = {} =>
                     new.rotate = IF old = NoEntry THEN FALSE ELSE old.rotate]_cmdVars

\* The values that some entry of a vault holds below tier 4.
Reachable(body) ==
    {body[k].value : k \in {j \in Key : Has(body, j) /\ body[j].tier < TIER_SIGN_ONLY}}

\* Tier 4 is a one-way door: no command, and no interleaving of commands,
\* brings a value below tier 4 that was not there before, unless somebody
\* typed that value in again, put an old vault back or received it in a bundle.
TierFourIsOneWay ==
    [][\A p \in Process : Commits(p) =>
          Reachable(file'.body) \subseteq
              Reachable(file.body) \cup
              CASE Op(p) = "set"     -> {Line_(p).value}
                [] Op(p) = "receive" -> {x.value : x \in cmd[p].saved}
                [] OTHER -> {}]_cmdVars

\* What a command reports is what the file holds at that moment; the phrase it
\* prints opens the vault.  (`init` prints without the lock, and `rename` of a key
\* to its own name does not look whether there is such a key: see the README.)
ReportIsTrue ==
    \A p \in Process : At(p, "done") =>
        LET line == Line_(p) IN
        /\ Op(p) = "set" => /\ Has(file.body, line.key)
                            /\ file.body[line.key].value = line.value
        /\ Op(p) = "receive" => \A x \in cmd[p].saved : /\ Has(file.body, x.key)
                                                        /\ file.body[x.key].value = x.value
        /\ Op(p) = "delete" => ~Has(file.body, line.key)
        /\ Op(p) = "rename" /\ line.key # line.to => Has(file.body, line.to)
        /\ Op(p) = "retier" => file.body[line.key].tier = line.tier
        /\ Op(p) = "change-passphrase" => file.pass.cred = line.pass
        /\ Op(p) \in {"new-recovery-key", "recover"} =>
               Unwraps(file.rec, store[p].rec.cred, file)

\* Sharing does not loosen a tier, and does not let a sign-only value out of the
\* vault that holds it: what `receive` commits, whatever else happens between the
\* two vaults, was in the sender's vault, not sign-only and not stricter.
SharingNeverLoosens ==
    [][\A p \in Process : Commits(p) /\ Op(p) = "receive" =>
          \A k \in Key : file'.body[k] # file.body[k] =>
              \E b \in cmd[p].read : \E j \in Key :
                  /\ Has(b.from, j) /\ b.from[j].value = file'.body[k].value
                  /\ b.from[j].tier < TIER_SIGN_ONLY
                  /\ b.from[j].tier <= file'.body[k].tier]_cmdVars

\* `restore` asks the agent under the vault lock.
AsksAgent(p) == pc[p] = "notify"

\* Nobody waits for the agent for ever.
AgentIsServing == \A p \in Process : []<>~AsksAgent(p)

\* Nobody types while holding the vault lock: every holder releases it without the
\* help of a human, but for a `restore` that waits for the agent; and where the
\* agent answers, that one too.
LockIsReleased ==
    /\ \A p \in Process : (lock = p) ~> (lock # p \/ AsksAgent(p))
    /\ AgentIsServing => \A p \in Process : (lock = p) ~> (lock # p)

Ended(p) == ~Running(p) \/ At(p, "prompt")

\* A command that has what it needs from the human ends, and does not need
\* LOCK_WAIT for it: what it waits for is a command that ends, or a `restore` that
\* waits for the agent.  Where the agent answers, every command ends.
CommandsEnd ==
    /\ \A p \in Process : ~Ended(p) ~> (Ended(p) \/ \E q \in Process : AsksAgent(q))
    /\ AgentIsServing => \A p \in Process : ~Ended(p) ~> Ended(p)

\* The program takes its steps; humans, the agent, the clock and signals need not.
FairCommandsSpec == CommandsSpec /\ \A p \in Process : WF_cmdVars(Step(p))

\* The snapshot that `delete` reports holds the entry that `delete` removes, also
\* when another process stored a new value after this one opened the vault.
ReportedSnapshotHoldsEntry ==
    [][\A p \in Process : Commits(p) /\ Op(p) = "delete" =>
          \A n \in cmd[p].saved :
              snapshot[n].body[Line_(p).key] = file.body[Line_(p).key]]_cmdVars

\* Nothing that `restore` replaces is lost: every credential of the vault it
\* replaces is in a snapshot.
RestoreBacksUp ==
    [][\A p \in Process : pc[p] = "replace" /\ file # NoFile /\ file' # file =>
          \A k \in Key : Has(file.body, k) =>
              \E n \in Name : /\ snapshot[n] # NoFile
                              /\ snapshot[n].body[k] = file.body[k]]_cmdVars
=============================================================================
