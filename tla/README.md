# A TLA+ development of hearth-vault

hearth-vault keeps credentials in one encrypted file that several processes of one user
open, edit and save. This directory models how those processes share the file, with the
agent, the backends and the pipes around it, checks the models on small instances with
TLC, and proves with TLAPS every safety property that the passing runs check, for every
number of processes, keys, passphrases, secrets and failures. Paths below are relative to
the repository (`src/...`); line numbers are those of the modelled commit.

## 1. The system

| Part | State | Operations | Hard behaviour | What makes it correct |
|---|---|---|---|---|
| Vault body (`src/store.rs` 500-715) | entries: value, tier 1-4, rotation policy, due date | set, set_rotation, set_expiry, delete, rename, retier | a rotation must not change tier or policy; pinned dates | each mutator changes its own entry only |
| Vault store (`src/store.rs`, `src/hsm/platform.rs`) | the file; per process an open `VaultStore` (data key, two wraps, body, fingerprint of the file it read) and a `flock` on `<vault>.lock` | open, create, lock_and_refresh, mutate, change_passphrase, generate_recovery_key, save, drop | two writers; two creators; failed and half-failed writes; kill at any step | no lost update; one data key per vault; a file always opens with its credentials; the lock is never leaked |
| Commands (`src/main.rs`) | which call of its body a command is at | set, delete, rename, retier, change-passphrase, new-recovery-key, recover, init, share, receive | prompts between open and lock; read-before-lock; errors in the middle | each commits its own part; what it prints is true; nobody types under the lock |
| Snapshots (`src/main.rs` 3838-3910) | files named by the second | backup, restore, the snapshot `delete` takes | names repeat within a second; no lock around the copy | nothing is destroyed without a copy |
| Unlock agent (`src/agent.rs`) | wrap keys with a TTL, a Unix socket | GET, PUT, DROP, STOP, STATUS | lazy expiry, re-salting, two agents, silent clients | a cached key opens the vault it was cached for, or nothing |
| Redaction (`src/redact.rs`) | bytes held back | process, finish | a secret split over reads | no secret leaves, nothing else is lost |
| `exec` (`src/main.rs`) | child, two pipes, two pumps, the poll for the seal of the child | cmd_exec, run_redacted, poll_seal_and_warn | pipes of bounded capacity; a child that seals itself, or exits, while it is looked at | no deadlock, all output arrives; a child left readable is named |
| Imports: import, import-env, scan --adopt (`src/main.rs`, `src/scan.rs`) | a plaintext source | parse, store, verify, destroy | failure between store and destroy | the source goes only after the vault has everything |
| init-machine (`src/main.rs`) | vault, sealed passphrase, recovery bundle | create, seal, bundle, clean up | failure of any step; clean-up of a vault that is somebody else's | a machine vault exists only with its bundle |
| v1 migration, `migrate` (`src/store.rs`, `src/main.rs`) | the legacy vault, the vault in the platform directory, `.v1.bak` | default_path, open of a v1 file, rewrite | two processes see v1 at once; a rewrite in place that stops half way | one process migrates; no entry is lost |
| Writing files (`src/hsm/platform.rs`) | file, temporary file, what of them is durable | write_private, fs::write | kill, error or power loss between two calls; Windows removes before it renames | the old or the new content, and what was reported stays |
| Sealing backends (`src/hsm/`) | sealed passphrase, keyring entry, PCR 0 | detect, seal, unseal with a deadline | backends that come and go, blobs of another backend, a keyring that never answers | no backend fails or hangs an open: the human is asked instead |
| Sharing (`src/share.rs`, `src/main.rs`) | a bundle file, sealed to an identity | identity, share, receive | read without a lock; merged into a vault that changed meanwhile; two keys that become one | no tier is loosened, nothing sign-only leaves |
| Cryptography, scanning for secrets, signing, hardening, sensitive strings | - | - | no shared state | - |

How they interact: every command opens the store (passphrase, sealed
passphrase, cached wrap key or recovery phrase), may wait for the file lock,
edits in memory, and saves. Processes of one vault meet only at four places: the vault file,
the lock file beside it, the snapshot files, and the agent's socket. The first
three are in `VaultStore` and `VaultCommands`, the fourth in `UnlockAgent`. Two vaults
meet at a bundle file (`VaultCommands`); and which file is *the* vault depends on the
shell and on what is there already (`default_path`, in `VaultMigration`). The jobs
that move plaintext into the vault also meet at their source (`VaultImports`), and the
commands that seal or unseal a passphrase at the sealed file and at the one entry that
hearth-vault has in the keyring (`AutoUnseal`). Inside
one process, `exec --redact` is the only command with threads (`ExecPump`), apart from the
thread that waits for the keyring.

## 2. Modules

    AtomicVault      what the file promises: one register of versions
        ^ refined by (INSTANCE ... WITH)
    VaultBody <- VaultStore <- VaultCommands <- MCVaultCommands
                     ^     \<- VaultImports  <- MCVaultImports
                MCVaultStore

    DurableFile <- VaultMigration <- MCVaultMigration
    UnlockAgent <- MCUnlockAgent
    Redaction <- RedactStream <- MCRedactStream
        ^------- ExecPump <- MCExecPump
    AutoUnseal <- MCAutoUnseal

The theorems are in modules of their own:

    VaultStoreProofs <- VaultCommandsProofs
           ^-------- VaultImportsProofs
    RedactStreamProofs <- ExecPumpProofs
    VaultMigrationProofs    UnlockAgentProofs    AutoUnsealProofs

**VaultBody** (no variables). The mutators of `VaultStore` on the decrypted body,
as operators from bodies to bodies, with their conditions as `Can...` operators.
`created_at`/`updated_at` and the calendar are left out; a due date is "never",
"policy" (now + rotate_days) or "pinned" (`set --expires`).

**VaultStore**. The file and its processes.

| Model | Code |
|---|---|
| `file`, `snapshot[n]` | what is at `vault_path`, and at the n-th snapshot path |
| `lock` | the `flock` on `<vault>.lock`, released by the OS with its process |
| `store[p]` | the open `VaultStore`: `dk`, wraps, body, `fp` (`disk_fingerprint`), `held` (`self.lock` is Some) |
| `pc[p]`, `arg[p]` | the method p is inside, and its argument |
| `fresh` | the supply of random draws (data keys, salts, recovery entropy, nonces) |
| `OpenAtWithPassphrase`, `load_v2`, `CreateLock`, `CreateYields`, `create_new` | `open_at_with_passphrase` with its re-check under the lock |
| `lock_and_refresh`, `RefreshRead` | take the lock, then read again |
| `save`, `SaveCheck`, `SaveRefused`, `SaveWrite`, `SaveFails`, `SaveFailsLate` | `save`: lock, compare the fingerprint, seal and `write_private`; an error before or after the rename |
| `set` ... `generate_recovery_key` | the mutators, in memory only |
| `Drop`, `Crash` | the end of a store or of its process |
| `BackupRead`/`Write`/`Fails`, `RestoreRead`/`Lock`/`Write`/`Returns`/`Fails` | `write_backup`, and the replacement in `cmd_restore`, which keeps the lock while it waits for the agent (`pc[p] = "notify"`) |

A method is split into the steps another process can tell apart: reads and
writes of the file, and the lock. A decryption is a comparison: a wrap opens
with the credential it was made with, and its data key must be that of the body.
A fingerprint is represented by the file it digests, and a fresh nonce in every
save makes two saves of one body two files, as the ciphertext does. A store
that `create_new` is building has no fingerprint (`NoFile`): `Creating`.

`Next` calls the methods in any order, so what holds of it does not depend on
any command being written properly.

**AtomicVault**. The abstract specification: a register of versions, private
copies, commit only over the version that was read, put-back of a kept copy. It
has no lock, no fingerprint, no nonce and no file. `VaultStore!Implements` is the
refinement; the mapping drops nonces and forgets who holds the lock.

**VaultCommands**. `Program(line)` is the order of calls in the body of each `cmd_...`;
each kind of call is one action, conjoined with the store's step it makes. A behaviour has
a `menu`: the command lines that users type in it, with which passphrases, and how many.
Errors go to `Failed`; the store, and with it the lock, is dropped when the command exits.
`LockTimeout` is LOCK_WAIT passing, `Kill` a signal at any step, `Tick` a second passing.
Abstractions: `set` stores one key per command line; `open_vault` asks for the passphrase
(its fallbacks to the agent and the sealed passphrase end in the same store; that it waits
for the agent when it offers its key is in `UnlockAgent`, it holds no lock then);
`restore` from a file the user brought along uses the name `Imported`; `--output` names of
`backup` are left out. The STATUS and the DROP that `restore` sends to the agent, which it
waits for under the lock, are one step, `AgentAnswers`, that may never come.

`share` and `receive` are commands like the others. There is one bundle file: what it
is sealed to (an identity is derived from the data key of a vault), its entries, and,
for the properties only, the vault it was sealed from. `Seal` makes one from the vault
as it was opened, for this vault or for another; `TeammateShares` is the `share` of
somebody else. `Fetch` reads the bundle before the vault is opened, `Unseal` asks
whether it is addressed here, `Receive` is the loop of `cmd_receive` over the entries,
under the lock. With `--prefix` (`RenameTo`) the path of a key is replaced, so that two
keys of a bundle may become one.

**DurableFile**. Writing a file, call by call. `WriteProgram` is the order of the calls:
`write_private` on Unix (create, write, sync, rename, sync of the directory) and on
Windows (create, write, sync, remove, rename), and `fs::write` (truncate, fill). `disk[f]`
is what a process reads, `stable[f]` the set of what may be there when the power comes
back: a sync of the file makes its bytes durable, a sync of the directory its name. The
directory is synced only where it can be opened; otherwise that is skipped, and the caller
is told nothing (`SkipDirSync`). Each call may fail (`WriteFails`, which removes the
temporary file), the process may be killed between any two (`WriterDies`), and the power
may go (`LosePower`), which takes the files of a directory with it that was never synced
into its own.

**VaultMigration**. Which file a command uses, and the step from format v1 to v2.

| Model | Code |
|---|---|
| `disk["legacy"]`, `"platform"`, `"custom"` | `~/.hearth/vault.json`, the file in the platform data directory, the file under HEARTH_VAULT_HOME |
| `disk["legacy.v1.bak"]` | the copy that the migration makes |
| `default_path` | `default_path`, evaluated when a command starts |
| `job[p]`, `pc[p]`, `view[p]` | the command, where it is, and the body and data key it has in memory |
| `Probe`, `LockOld`, `Reprobe`, `Load`, `LockNew`, `CreateYields`, `create_new` | `open_at_with_passphrase`, with both looks under the lock; `LockNew` makes the directory of a new vault, as `acquire` does for the lock file |
| `parent[f]` | the directory of a vault: none, made by a command and not durable, or there to stay |
| `MigrateRead`, `MigrateBackup`, `MigrateRewrite` | `migrate_v1_to_v2`: a copy with `fs::write`, then the vault with `fs::write` |
| `cmd_migrate` | `migrate`: its refusals; it calls `migrate_v1_to_v2` without the lock |
| `Use`, `Refresh`, `Save`, `Report` | `set`, shortened to its reads, its write and its report; a command that only reads ends at `Use` |
| `Called` | a call of a write returned; after the last one `AfterWrite`, for a save to "done" or, if the directory was not synced, "unsynced", which the command cannot tell apart |
| `acked` | what `set` has reported to a user, in a shell with HEARTH_VAULT_HOME or without, and whether a power failure must leave it (directory synced, and not new); at first the legacy entry |
| `careful` | for the properties only: no `migrate` has run beside another command on the same vault |

The passphrase is always right, and the legacy vault has one entry. A process is one run of
the program, so no pid, and no name of a temporary file, comes twice.

**VaultImports**. `import`, `import-env` and `scan --adopt` over `VaultStore`, and
the source file they destroy.

| Model | Code |
|---|---|
| `source` | the file: lines that hold a pair or nothing that matters, all zeros (`Wiped`), or gone |
| `job[p]` | the job of p, the step it is at, the pairs it read, the lines it stored, the text `adopt` will write back |
| `ReadSource`, `Reread` | what the command reads before it opens the vault, and `adopt` again under the lock: the name is the scan's, the value that of the line now |
| `OpenVault` ... `SaveReturns` | the store's steps, in the order of the three functions (`BeforeEdit`, `AfterEdit`) |
| `Edit` | the loop over the pairs: a key that exists is skipped unless forced |
| `Verify` | `verify_persisted`, on the file as it is |
| `Wipe`, `Unlink` | `secure_delete_file` |
| `Truncate`, `Rewrite` | `fs::write` of the text with pointers |

A process without a job deletes keys, restores snapshots, opens and saves in any
order (`OtherCommand`), and a user may rewrite the source at any moment
(`UserWrites`). There is one source; empty values, `.gitignore` and the project
marker are left out; what the scanner finds is every line with a pair.

**UnlockAgent**. Agent processes, and the commands that talk to them.

| Model | Code |
|---|---|
| `path` | which agent's socket file is at `socket_path()`; it stays when the agent is killed |
| `at[a]` | where agent a is in `serve` |
| `cache[a]` | the wrap key of the vault in `Cache`, and whether its TTL is over (`Expire`: time passes) |
| `queue[a]` | the connections of its listener, in order; `handle` works on the first one to its end |
| `client[c]` | the command of c, the call it is at, the passphrase and the key it carries, a reply not yet read |
| `vault`, `past` | passphrase and salt of the vault now, and all it ever had (what a snapshot may bring back) |
| `Probe`, `Unlink`, `Bind`, `Listen`, `Handle`, `End` | the steps of `serve` |
| `Connect`, `Write`, `Read`, `Timeout` | `try_get`, `try_put`, `control`; only `try_get` has a timeout |
| `TryKey`, `Ask`, `Verify`, `Derive`, `Swap` | `open_vault`, `cmd_unlock`, `cmd_lock`, `cmd_agent --stop`, and the end of `cmd_restore` |

The vault is one, and it exists; the store's own steps (lock, save) are those of
`VaultStore` and are one step here (`ChangePassphrase`, `Swap`). A wrap key opens
the vault that has the passphrase and the salt it was derived from. `--daemon`,
ERR replies and peers of another uid are left out.

**Redaction** (no variables) is `Redactor::new` and `RedactStream::process`. Bytes
are members of a small alphabet, a placeholder is one symbol. AhoCorasick is
given by what LeftmostLongest means, as a scan over the places of the text: where
patterns stand, the longest of them is taken and the scan goes on from its end, elsewhere
from the next byte (`Redactions`). `Scan` is the loop of `process` over the matches, which ends
where `Stops` says. Both are recursive functions of the number of bytes that are left.
**RedactStream** has the streams of one redactor (`input`, `carry`, `out`, `eof` of each) and
feeds them chunks of every size, and at the end the call with `eof`.

**ExecPump** is `exec` once it knows what to inject. `StartChild` is its choice: without
an option (flag or variable) the process becomes the child, otherwise it starts one, or
fails to. With `--warn-unsealed` the main thread is `poll_seal_and_warn`: ATTEMPTS probes
of `/proc/<pid>/environ`, which says nothing at first (`Inconclusive`), is the user's as
long as the child has not sealed itself, and root's from then on, and also when the child
has exited and nobody waited for it yet. With `--redact` it is `run_redacted`: the two
pipes of bounded capacity, one `pump_redacted` thread for each, which calls `Feed` of
`RedactStream` on the stream of its own, the sinks, and the main thread that joins them.
The child is external, it does what it likes, and stands for every process that holds a
write end.

**AutoUnseal** is the sealed passphrase: `open_vault` until it asks the agent or a human,
`seal`, and the whole of `init-machine`.

| Model | Code |
|---|---|
| `vault[v]` | the vault file, as far as these commands tell vaults apart: data key, passphrase, has it a recovery phrase, keys |
| `sealed[d]` | `vault-passphrase.sealed` in a directory: which backend made it, of what, and under which PCR 0. The code stores no such tag; only the backends can tell |
| `bundle[v]` | the `--recovery-output` file: the data key that its phrase opens |
| `keyring` | the one entry `("hearth-vault", "hearth-vault")`, shared by all vaults |
| `cmd[p]` | which call of its body a command is at, and its local variables |
| `worker[p]` | the detached thread of `with_deadline` |
| `Exists`, `Resolve`, `Read`, `Returns`/`Refuses`/`Spawn`, `OpenSealed`, `Prompt` | `open_vault` from top to bottom |
| `Answers`, `AnswersNo`, `Timeout` | the keyring answers, also after the deadline; or the deadline passes |
| `Check`, `Create`, `Phrase`, `WriteSealed`, `WriteBundle`, `Clean` | `cmd_init_machine`; `Clean` is its three removals, each of which may fail without a word |
| `abandoned` | for the property only: the machine vaults whose `init-machine` was killed, or could not remove them |

A look for a backend (`Resolve`) may find any of the sets in `Host` at any time. Inside
the store, an open and an edit with its save are one step each: the steps between are
those of `VaultStore`. Each command edits the vault it opened (`SameVault`).

**MCVaultStore**, **MCVaultCommands**, **MCVaultImports**, **MCVaultMigration**,
**MCUnlockAgent**, **MCRedactStream**, **MCExecPump** and **MCAutoUnseal** give the
constants for TLC. **VaultStoreProofs**, **VaultCommandsProofs**, **VaultImportsProofs**,
**VaultMigrationProofs**, **UnlockAgentProofs**, **RedactStreamProofs**,
**ExecPumpProofs** and **AutoUnsealProofs** hold the theorems, each about the module it is
named after (section 5).

Operators with a comment "Faulty variant" next to a definition are that
definition with a plausible mistake in it (a dropped guard, a swapped order, a
stale read). Nothing in a specification uses them. Each stands for a defect that
one of the properties detects: putting it in the place of the definition makes
TLC report that property.

## 3. What the runs check

Bounds: `MaxFresh` caps the random draws, `runs` of a menu, `MaxRuns` and `MaxJobs` the
command lines run, `MaxClock` the seconds, `MaxPower` the power failures. `Kept` is no
bound: it names the directories that are there at first. `VaultCommands` assumes that
`MaxFresh` covers what the commands of a menu can draw, so there the first bound never
stops anybody.

| Run | Checks | Bounds, and why they are enough |
|---|---|---|
| `store_two_writers` | `TypeOK`, `LockInv`, `WriteIsCurrent`, `WrapsOpenBody`, `NoLostUpdate`, `DataKeyIsStable`, `Implements` under every order of methods, with failed writes and crashes | 2 processes, 2 passphrases, 1 key, 1 snapshot, 3 draws: enough to create a vault, rewrap or save it, and save it a second time from another process, or to have a foreign vault restored under an open store. One valid and one invalid tier. Processes and keys are symmetric. `set_rotation` clears policies only; the command runs set them. The theorems lift these bounds. |
| `commands` | `ReportIsTrue`, `CommitsTouchOnlyTheirPart`, `RotationKeepsTier`, `TierFourIsOneWay`, `SharingNeverLoosens`, `ReportedSnapshotHoldsEntry` | 2 processes and 2 keys, in three menus. *Edit*, 4 lines: create, tier up, and two that race on what the third left behind; deletes with and without a snapshot; a rename of a key to itself. *Keys*, 3 lines and 2 passphrases: create, add a phrase, and one that races on the wraps. *Share*, 3 lines and 2 vaults of teammates, with entries of tiers 1 to 4: a bundle is made here or elsewhere, for this vault or another, and received while a tier moves, a vault is put back, or another `receive` runs |
| `commands_live` | `LockIsReleased`, `CommandsEnd` | 3 lines of 2 processes and 2 seconds, with backup, restore and delete: a `restore` waits for the agent under the lock while the other process wants it; no symmetry |
| `commands_restore` | finding: `RestoreBacksUp` fails | 2 seconds |
| `commands_import` | `StoredBeforeDestroyed`, `AdoptWritesBackWhatIsThere` | 2 jobs of 2 processes on a source of 2 lines, which may hold the same key twice, 4 draws: a job runs from an empty vault to the end while another job, a delete or a restore gets in between; every write and the wiping may fail |
| `agent` | `TypeOK`, `AgentIsNeverFatal`, `NoExpiredKeyIsServed`, `LockForgetsEverything`, `RefusedOnlyByAnother`, `ClientsEnd` | one agent started twice (so that it meets its own dead socket), 2 clients, 2 commands, 2 passphrases, one change of the passphrase: a key is cached, expires or goes stale, and is fetched, dropped or offered again; no symmetry |
| `agent_two` | finding: `LiveSocketIsNotStolen` fails | 2 agents, 3 starts |
| `redact_lines` | `StreamsAsAWhole`, `NothingLeaks`, `WithholdsLittle` | all streams of 7 bytes over 5 bytes in all splits; 4 secrets: one is a prefix of another and overlaps itself, one has an escaped form twice its length, one is below the minimum. The longest pattern has 4 bytes, so a stream holds a whole one with bytes on both sides |
| `exec_redact` | `ReturnsWithAllOutput`, `SinksAreClean`, `UnsealedChildIsNamed`, `PipesDrain`, `EndsWithChild` | all options; pipes of 2 bytes, 3 bytes of output, a secret of 3 bytes with a newline in it: a pipe fills, the secret always crosses a read, and a line must not be flushed early; both sinks may break; 3 probes (`ATTEMPTS`), of which the first 2 may be inconclusive, and a child that seals itself, writes or exits between any two |
| `migrate` | `TypeOK`, `NothingIsLost`, `ReportedIsFound`, `DataKeyIsKept` | 3 processes, each one run of the program, on a v1 vault or none, on Unix and on Windows: one migrates or creates while another waits and a third stores or is sent elsewhere; each call of a write may fail, the last one, and with it the remove and rename of Windows, included; a directory sync be skipped; each process be killed anywhere; `migrate` run beside anything; and the power goes once. The directory of HEARTH_VAULT_HOME is new, the other two are there (`There`). What the code loses is excepted in the properties, not in the behaviours. Symmetric processes |
| `migrate_target` | finding: `MigrateMoves` fails | 1 process |
| `unseal` | `TypeOK`, `MachineVaultHasItsBundle`, `BackendIsNeverFatal`, `KeyringNeverHangs` | 2 commands of 2 processes, one of which may run `init-machine`, on one vault; what earlier seals of this or another vault left in the sealed file and in the keyring is in the first state, so a command meets every kind of foreign or stale blob; one firmware update; a host with a TPM and a keyring, with a keyring, or with systemd-creds only, seen anew by every look |

In `unseal` MaxRuns bounds the commands, MaxFirmware the updates, and MaxFresh the draws
(it covers what MaxRuns commands can draw). In the agent runs MaxStarts, MaxRuns and
MaxSalt bound the starts of agents, the commands and the changes of the passphrase.
MaxBytes bounds a stream in `redact_lines`, and the output of a child on both streams in
`exec_redact`.

What the passing runs show, in the words of the code:

* **No lost update.** `save` compares the fingerprint and holds the lock until
  its rename, so a commit is never dropped by a writer that had not read it, by
  any order of calls. Restores are the one exception, and the property names it.
* **One data key.** Two processes that both find no vault do not both create one:
  `open_at_with_passphrase` looks again under the lock.
* **Coherence.** No refresh, rewrap, failed write or restore leaves a body under
  wraps of another data key, in the vault or in a snapshot. What prevents it is
  that `lock_and_refresh` re-reads with the store's own data key and fails
  otherwise.
* **Each command commits its own part.** A `change-passphrase` that ran while
  another process was at its prompt stays; a key set meanwhile stays.
* **Reports.** What a command prints after its save is true at that moment,
  because it still holds the lock. `init` is left out of this property: it does not
  `lock_and_refresh`, and its lock is gone after its save. So is `rename` of a key to
  itself, which succeeds whether or not there is such a key.
* **Tier 4 is one-way** under every interleaving of `set`, `rename`, `retier` and
  `delete`, except through a value that is typed in again.
* **What is destroyed is stored, but for what is skipped.** From the first zero that a job
  writes over its source until it returns, the vault holds every pair that it stored, and
  an entry under every key that it read: the job keeps the lock to its end, so no other
  process removes or replaces them between the verification and the end of the source. The
  value of a pair that `import-env` without `--force` skipped is not among them: it is
  wiped with the file, and the entry that made it skip the pair may hold another (section
  4). `adopt` reads its files again under the lock, so what it writes back never contains
  what another job moved out. What a user writes into the source after a job read it is
  destroyed with it.
* **Sharing loosens nothing.** What `receive` commits was in the vault of its sender, not
  sign-only and not stricter than it is now, whatever happened to both vaults between the
  seal and the save; and it changes no key but the ones it reports.
* **A migration loses nothing, with two exceptions.** Whichever call fails, and wherever a
  process is killed, every entry is in some file that is whole: the vault, the copy, or a
  temporary file. The exceptions are in the property, and the code is as bad as they say:
  a rename of Windows that fails after the remove, and a `migrate` beside another command.
* **One process migrates, one creates.** Several that find a v1 file or none look
  again under the lock, so nobody who has the vault open finds it under another data key.
* **What `set` reported is found**, on Unix, by the next command of the same shell. It is also
  found after a power failure, because the file is synced before its rename and the directory
  after it, but only where the directory could be opened and was there before the vault.
* **Nobody types under the lock**, so every holder lets go, but for one: `restore` asks
  the agent before it lets go, and waits without a timeout. Where the agent answers, it
  lets go too, and every command ends; where it does not, only what waits for that
  `restore` is held up.
* **The agent is harmless.** A dying agent, a reply that never comes, a key made
  stale by a change of the passphrase or by a restore, or one that is put into
  the cache after the DROP that should have removed it: none makes a command
  fail that opens the vault, and an expired key is never given out.
* **Backends are harmless.** Whatever a backend does, and whosever passphrase it
  returns, a command that opens the vault goes on to its human; and the deadline
  alone keeps a silent keyring from hanging it, on writes as on reads.
* **A machine vault has its bundle.** A failure of any step of `init-machine` leaves no
  vault that only this host can open. A kill in the middle may, and a clean-up that cannot
  remove the vault, which it does not say; the property names both.
* **Redaction does not depend on the reads.** However the output is cut, what is
  forwarded is the redaction of the whole, in order and complete.
* **`exec --redact` does not hang** as long as its sinks take or refuse what they
  are given, and it returns the exit code only after the output.
* **A readable child is named.** The poll is silent about a child that runs only if it
  sealed itself, although the first probes may say nothing.

### Deadlock

The store runs have no deadlock: with the draws used up, a process can still open, drop or
copy. In the command runs everybody may be finished when the menu is used up, so those
configurations turn the deadlock check off; `CommandsEnd` says the stronger thing there.
So do `commands_import`, where the jobs and the draws are used up, and `migrate`, where
every process runs once. The same holds for `unseal` (`KeyringNeverHangs`), `agent`,
`agent_two` (`ClientsEnd`) and `exec_redact` (`PipesDrain`, `EndsWithChild`); a redacted
stream ends at its last call.

### Fairness

`FairCommandsSpec` has weak fairness of `Step(p)` for each process: what the program does
by itself. The operating system runs a runnable process and a `flock` poll eventually
finds a lock that stays free. Typing (`Prompt`), starting a command (`Run`), seconds
(`Tick`), signals (`Kill`), the lock timeout and the answer of the agent (`AgentAnswers`)
are not fair: nothing makes them happen. `CommandsEnd` says what holds without them: a
command that does not end waits, directly or for the lock, for a `restore` that waits for
the agent; and if the agent always answers (`AgentIsServing`, a premise of the second
half) every command ends, so none depends on LOCK_WAIT. With a bounded number of commands
a waiting process is not overtaken forever; with an endless stream of them it could be,
and then LOCK_WAIT ends it with an error, which the runs have as a possible step.

`UnlockAgent!FairSpec` has weak fairness of the steps of agents and of clients that
are not suspended. Starts, kills, expiry, humans and the two seconds of `try_get`
are not fair. `ExecPump!FairSpec` has weak fairness of each pump and of the main
thread: they are threads of the operating system, and a sink takes a write or
breaks. Nothing is assumed of the child. `AutoUnseal!FairSpec` has weak fairness of what a
process does by itself, to which the deadline belongs: `recv_timeout` returns. A call of
the TPM and the helper `systemd-creds` are taken to return, as no deadline protects
them. The answer of the keyring, the human, updates and kills are not fair.

## 4. Findings

1. **`restore` backs up before it locks.** `src/main.rs:526-529` says the vault
   being replaced is itself backed up first. A commit between `write_backup` and
   `VaultLock::acquire` is overwritten and in no snapshot (`commands_restore`).
2. **A second agent can steal a live socket.** `src/agent.rs:207-209` excludes it;
   probe and removal are two steps (`agent_two`).
3. **`migrate` moves nothing.** `src/main.rs:118-119` and `README.md:166-168` say that it
   moves the legacy vault into the platform data directory. `cmd_migrate` rewrites the
   legacy file in place (`src/main.rs:1546`), prints the target as the new vault and
   advises to delete the old file, which is the only one (`migrate_target`). Without
   HEARTH_VAULT_HOME it does not come that far: `default_path` then is the legacy file
   itself, so a vault "already exists" at the target.

Smaller disagreements with comments, which no run is spent on. Most show in the models,
under the constants named; the rest was met on the way.

*Commands and agent.* One silent client stops the agent, which is never why a command
fails according to `src/agent.rs:113-115` and `src/main.rs:911-913`: it serves one
connection at a time and reads without a timeout, and so do `is_running` and `try_put`, so
a client that is suspended before it writes its line hangs every `open_vault` that offers
its key (`ClientsEnd` of `agent` fails with a client in `Suspended`). It also hangs a
`restore`, which keeps the vault lock to the end of `cmd_restore`
(`src/main.rs:3899-3915`) and with it while it asks the agent, where
`src/store.rs:814-816` says that holders keep the lock only across a mutation in memory
and one small write; every other writer then gives up after LOCK_WAIT (the second half of
`LockIsReleased` fails without its premise). Two `init` that both find no vault: the
second opens the vault of the first and replaces the phrase that the first printed as the
only way back in (`src/main.rs:1099`). `delete` prints a warning and goes on when its
snapshot fails, for instance because the name of this second is taken, where
`src/main.rs:137` and `USAGE.md:486` say that it takes one first; `write_backup` refuses
to overwrite (`src/main.rs:3852`) but looks without a lock and renames later, so the later
of two snapshots of one second replaces the earlier; with `--force`, a file that has a key
on two lines never passes `verify_persisted`, which expects both values; an `import` that
is killed between the zeros and the removal leaves a file of NUL bytes, which the next
`import` stores over the credential; `unlock` derives the key that it caches from a second
read of the vault, so a change of the passphrase in between makes it cache a key that was
not verified (`src/main.rs:4011-4016`; `AgentIsNeverFatal` says that it does no harm). The
agent ends on STOP only, not "when every cached key has expired" (`src/agent.rs:194-195`).
`rename X X` prints that it renamed X although the vault has no X (`src/store.rs:602-605`,
`src/main.rs:1713-1725`; `ReportIsTrue` excepts it). `receive --force --prefix` of two
entries whose keys become one stores one over the other and then fails its own
verification, after the save. A bundle sealed before a value was moved to tier 4 brings
the value back below it (`TierFourIsOneWay` excepts it).

*Files.* On Windows, a rename that fails after the remove of the destination deletes the
temporary file too, and the vault is gone, where `src/hsm/platform.rs:116-126` calls the
remove strictly better (`NothingIsLost` fails without `RenameTooLate`). A kill between the
two leaves the vault in the temporary file only, and the next command, which finds none,
creates an empty one; so does a command that starts in the middle of a save of the legacy
vault: its `default_path` is the platform file, which hides the legacy one from then on
(`ReportedIsFound` is about Unix). `migrate` takes no lock (without `careful`,
`NothingIsLost` fails when an entry is stored, or a second `migrate` runs, meanwhile).
`write_private` reports success without a sync of the directory where it cannot open it
(`src/hsm/platform.rs:130`): a bare file name, whose parent is the empty path, a process
without free descriptors, a directory that may be written and not read. Nor is a directory
that `create_dir_all` made (`src/store.rs:835`, `src/store.rs:471`) synced into its own. A
power failure then undoes what `set` has reported, which the sync is there to prevent
(`src/hsm/platform.rs:128`; without the third component of `acked`, `ReportedIsFound` fails). The copy and the
rewrite of a migration are not synced, so after a power failure both may be torn
(`NothingIsLost` is about kills and errors). After a kill in the middle of the rewrite, or
for a process that reads at that moment, the vault is "corrupt" until somebody puts the
copy back. A blank HEARTH_VAULT_HOME is none for `resolve_vault_path` and one for
`default_path`.

*`exec` and scanning.* A child that was readable and exits within the window of the poll is a
zombie, whose `environ` is root's, so the probe says sealed and the poll stays silent,
where `src/main.rs:2211-2214` says that such an exposure "still deserves the warning".
`scan --staged` reads the files of the working tree, not what is staged, and skips a
staged file that is missing there (`src/main.rs:2984-3020`), although the hook
says that it scans what is about to be committed.

*Imports, machine vaults, redaction.* `import-env` stores "every pair" according to
`src/main.rs:96-97`, but skips and lists a pair whose key the vault has already, or got
from an earlier line of the same file, and then deletes the file all the same
(`src/main.rs:1482-1515`); `init-machine` refuses a vault that exists
(`src/main.rs:1126-1135`), but when a later step fails it removes whatever vault is there
by then, another process's too (`src/main.rs:1186-1190`), and another `init-machine`'s
bundle with it, so that the theorem about bundles assumes one installer; after `seal` "the
vault will now auto-unseal" (`src/main.rs:1964`), until a `seal` for any other vault
overwrites the one keyring entry, or a later command resolves another backend than the one
that sealed (the file has no tag, so it asks the human); a command that unsealed a
passphrase just before the vault was removed creates a new vault with it
(`src/main.rs:827`), and if the passphrase was a machine's, nobody knows it; and the carry
can exceed the hold-back that `src/redact.rs:19-21` describes, up to twice of it
(`WithholdsLittle`), because a match that ends in the withheld tail is kept from its start
on. `src/redact.rs:198-206` keeps it for "a longer continuation", but a match that starts
before `safe_len` has all of the hold-back, and with it every pattern that could begin at
its place, in the buffer already: it could be replaced at once, and the carry stay below
the hold-back.

## 5. What is proved

A module of proofs has its invariants at its head, an initial lemma, one lemma per action
or group of actions, and a temporal step per theorem.

Assumptions. `StoreAssumption`, `NoEntryAssumption`, `CommandsAssumption`,
`ImportsAssumption`, `FileAssumption`, `MigrationAssumption`, `AgentAssumption`,
`RedactionAssumption`, `StreamAssumption`, `PumpAssumption` and `UnsealAssumption` say
that the null values are none of the real ones, that draws are no passphrases, which
command lines the programs accept, and that bounds are numbers (those that must not stop a
command are large enough); of redaction, that secrets are strings of bytes, an escape is
not empty, the minimal length is not zero, and a placeholder is no byte. All are evaluated
by TLC in the passing runs. What else a theorem assumes is one of two hypotheses, named in
its statement: `OnlyDeletesCopy` (the snapshot of `delete`) and `OneInstaller`
(`init-machine`). The run that checks the property satisfies it, and section 4 says what
the code does without them. Two theorems about the agent are about one agent.

### The store: `VaultStoreProofs`

The theorems are proved of `ClientSpec`, which is weaker than `Spec`: a process may also
open with any phrase, and between the steps of the store edit its own open store in any
well-typed way (`ClientStep`). `MutatorsAreEdits` says that `Spec` is one such client; the
next two modules say it of the commands and of the jobs, so each theorem is proved once.

| Theorem | Property | Argument |
|---|---|---|
| `TypeCorrect` | `TypeOK` | `TypeInv` = `TypeOK` and `ShapeInv`, which ties the kind of `arg[p]` and whether `store[p]` is open to `pc[p]`: without it, `load_v2` and `RestoreWrite` could put anything into the file |
| `LockSafe` | `LockInv` | `MutexInv`, below |
| `WriteSafe` | `WriteIsCurrent` | `MutexInv` = `LockInv`, `WriteIsCurrent`, and two facts about the middle of a creation and of a refresh (the creator sees no file from its check on; a refreshing store owns the lock) |
| `UpdatesAreKept` | `NoLostUpdate` | only `save` and `restore` write (`OnlySaveAndRestoreWrite`), and `WriteIsCurrent` |
| `CredentialsOpen` | `WrapsOpenBody` | `KeysInv`: also the copies in flight are coherent, and every open store has its wraps around its own data key and the data key of its fingerprint |
| `DataKeyIsKept` | `DataKeyIsStable` | `KeysInv` with `WriteIsCurrent`: the store that writes has the data key of the file it replaces |
| `StoreImplementsAtomicVault` | `Implements` | initial states map to initial states, and each step of a client to one step of the register or to a stutter: a save, whole or failed late, is a commit over the base (by `WriteIsCurrent`), a restore puts back a kept copy, an edit changes a private copy, everything else about locks and nonces is invisible |

`MutexInv` needs the mutual exclusion of `LockInv` to show that the
step of one process does not disturb `WriteIsCurrent` of another: only a holder of the lock
changes the file.

### The commands: `VaultCommandsProofs`

| Theorem | Property | Argument |
|---|---|---|
| `CommandsAreClients` | - | `CommandsSpec => ClientSpec`: a call that edits is at rest in the store and edits what it has open |
| `CommandsKeepTheStore` | - | the five properties of the store, carried over |
| `CommandsImplementAtomicVault` | `Implements` | carried over |
| `CommitsAreLocal` | `CommitsTouchOnlyTheirPart` | the change of a command is an edit of the version that its save replaces (`Committed`), and an edit touches its own keys and wraps |
| `SetKeepsTierAndPolicy` | `RotationKeepsTier` | the edit of `set`, by the same lemma |
| `TierFourStaysShut` | `TierFourIsOneWay` | each edit brings no sign-only value into reach but the one it was given |
| `SharesStayTight` | `SharingNeverLoosens` | `BundleInv`: a bundle offers only what the vault it was sealed from had below tier 4, at no lower tier; `receive` stores an entry at the tier of the bundle |
| `ReportsAreTrue` | `ReportIsTrue` | `AchievedInv` |
| `DeletedEntriesAreCopied` | `ReportedSnapshotHoldsEntry` | if `OnlyDeletesCopy`; `SnapshotInv` |

The invariant is `CommandInv`, inductive together with `MutexInv`:

* `CallInv`: the call that a command is at in its `Program`, and what that says of `pc[p]`
  and of its store. It is what makes a `Step` of a command one of the store.
* `FreshInv`: from `lock_and_refresh` to its end a command owns the lock and its store
  was read from the file under it. Without it an edit could be of an older version.
* `ChangeInv`: where the store of a command differs from the file, it does so by the edit
  of its own line.
* `AchievedInv`: what the command will report is in its store from the edit on, and in the
  file from the save on, as nobody else has the lock.
* `BundleInv`: bundles, and what a `receive` has read of one, are honest.

The menu, with its lines, passphrases and teammates, is a constant: the theorems are about
any set of command lines. `OnlyDeletesCopy` says that a menu with `delete` has no `backup`
and no `restore` (so it is in `commands.cfg`): these two look a name up and write it later
without the lock, so they may write over the snapshot of a `delete`.

### Imports: `VaultImportsProofs`

`ImportsAreClients`, `ImportsKeepTheStore` and `ImportsImplementAtomicVault` are as for
the commands. `ImportsLoseNothing` (`StoredBeforeDestroyed`) rests on `JobInv`: at each
place from the refresh on (`Locked`) a job holds the lock, and its store is at rest or
inside its save; so what `verify_persisted` found stays in the file while the source goes,
whatever deletes, restores and other jobs try meanwhile. `AdoptRestoresNothing`
(`AdoptWritesBackWhatIsThere`) uses that a job with a text to write back holds the lock,
without which no job touches the source. The source has any number of lines; which line of
a key counts, the last, is taken with the well-foundedness of the numbers (`WFMin`).

### Migration and files: `VaultMigrationProofs`

For every number of processes and power failures, and whatever directories there are at
first beside that of the legacy vault. Beyond `MigrationAssumption` nothing is assumed.
Where the code does lose something, the property excepts the step or the history, and the
invariants below hold as long as `careful` does:

| Theorem | Property | Argument |
|---|---|---|
| `TypeCorrect` | `TypeOK` | `TypeInv`: the places of a command, and the write that each place has in progress |
| `DataKeyStays` | `DataKeyIsKept` | `MigrationInv`; on Unix a vault is only replaced by one under its data key and with its entries (`VaultGrows`) |
| `NothingLost` | `NothingIsLost` | `LostInv`: the copy holds nothing but the v1 vault, and an entry is reported by a process that ends with it, so a write that fails is of none of the reported ones. Then each step that takes an entry from a file leaves it in another (`KeptByStep`): the calls of the two kinds of write (`KeptByPlain`, `KeptByPrivate`) and, but for `RenameTooLate`, their errors (`KeptByError`) |
| `ReportsAreFound` | `ReportedIsFound` | `FoundInv`: on Unix `default_path` never changes (`DefaultInv`); what a vault has been reported to hold it holds (`StaysHeld`), and what is durable of it has what was reported after a sync |

`MigrationInv` = `TypeInv` and
* `MutexInv`: from its second look at the file on (`Guarded`), a command owns the lock, or
  is a `migrate` that nobody runs beside;
* `VersionInv`: only the legacy vault is v1, and only its path and its copy ever hold it;
* `FilesInv`: how far a migration is (`MigrateOK`: the copy is whole before the first byte of
  the vault goes), how far a `write_private` is (`PrivateOK`, per system), and what a
  command that has the vault open knows of the file (`OpenOK`).

`DefaultInv` is what keeps `ReportedIsFound`: either the legacy vault is there in every
state that the disk may come back in, and no command uses the platform directory, or there
is none and no command makes one. `ReportInv` has two halves: until the power has gone, an
acknowledged entry is at its path; and if it was acknowledged as durable, whatever may
come back there has it, and the directory of that path does not go (`KeptDirectory`).

### The agent: `UnlockAgentProofs`

For any number of agents, clients, starts, commands and changes of the passphrase:

| Theorem | Property | Argument |
|---|---|---|
| `TypeCorrect` | `TypeOK` | part of `IInv`: a `PUT` is well-typed only because a client that is at it has a key (`ClientInv`), and the key it derives comes from the passphrase that was typed |
| `NeverFatal` | `AgentIsNeverFatal` | `ClientInv`: the places a command of each kind can be at |
| `ExpiredStaysIn` | `NoExpiredKeyIsServed` | only `Handle` gives a client a key (`ReplyOnlyFromHandle`), and it is the handler of the agent meant because a client has one connection at most (`OneConn`) |
| `LockForgets` | `LockForgetsEverything` | for one agent: what `lock` wrote is a DROP (`QueueInv`), and a DROP empties the cache of the agent that read it |
| `LeftoverSocket` | `RefusedOnlyByAnother` | for one agent: `SocketInv`, between its steps nobody else changes the path |

`IInv` = `TypeOK`, `ClientInv`, `QueueInv`, `OneConn` and that `past` is finite.
`QueueInv` ties the two ends of a connection: who has one waits for its answer, and
what is written on it is the call the client is at. That is why a client which
gave up (`Timeout`, `Kill`) must leave no connection in its name, and why an answer
never reaches a later call of the same client. The last two theorems assume
`\A a, b \in Agent : a = b`: with two agents another process may keep a key after
`lock`, and an agent may find the path taken by the socket of another that has ended.

### Sealing: `AutoUnsealProofs`

For every host, every set of backends, and whatever is in the sealed file and the keyring:

| Theorem | Property | Argument |
|---|---|---|
| `TypeCorrect` | `TypeOK` | `TypeInv` = `TypeOK`, the places of each command (`CmdOK`), and that every passphrase and data key about was typed or drawn (`DrawnInv`): no step reads a passphrase, a phrase or a blob that its command does not have |
| `BackendsFallBack` | `BackendIsNeverFatal` | whatever a backend answers, a command before its prompt goes on to the vault or to the next source; it fails only in a build without the TPM |
| `MachineVaultsAreRecoverable` | `MachineVaultHasItsBundle` | if `OneInstaller`; `MachineInv`: a machine vault has its bundle, is abandoned, or has an `init-machine` that answers for it, and what that one may count on at each place: it writes the bundle of the vault that is there, and has removed or abandoned the vault before it removes the bundle |

### Redaction: `RedactStreamProofs`

For every alphabet, every escape, every set of secrets, and output of any length in any
pieces:

| Theorem | Property | Argument |
|---|---|---|
| `StreamedAsAWhole` | `StreamsAsAWhole` | `StreamInv`, below, for an empty rest |
| `NothingIsLeaked` | `NothingLeaks` | what was forwarded begins a redaction (`StreamInv`), and a redaction is `Clean`: no pattern stands in it (`RedactionsClean`, `PrefixClean`), as its bytes are bytes of the text in their places (`BytesAreInput`), where the scan would have replaced it |
| `LittleIsWithheld` | `WithholdsLittle` | what is kept begins behind the last safe place, or with a match that reaches behind it, so before it there is one pattern less a byte at most (`ProcessKeepsLittle`) |

`StreamsAsAWhole` is not inductive: it says of the carry how it would be redacted if
nothing more came, and two carries that agree on that may differ as soon as something
comes. `StreamInv` says it of every continuation:

    \A z \in Seq(Byte) : Redacted(input[s] \o z) = out[s] \o Redacted(carry[s] \o z)

A call keeps it by `ProcessSplits`, which rests on three facts. `SuffixRedactions`: the
redaction of the last k bytes of a text depends on nothing before them. `SafeIsDecided`:
up to the safe length no byte that is still to come makes another pattern stand, because
the hold-back is long enough for the longest pattern (`HoldBackBounds`) or because no
pattern has the newline that the safe length ends with. `ScanSplits`: where that is so,
the scan forwards the beginning of the redaction of text and continuation, and keeps what
the rest is made of.

The redaction and the scan are recursive functions, and these lemmas are inductions. The
induction theorems of the library have a predicate as parameter, so the induction is
about a set (`UpwardsInduction`, from the least element of a set of numbers, `LeastNat`, by
`WFMin`): the set of the k for which the lemma holds. That a recursive function satisfies its
equation is proved once for functions that fall (`Recursion`) and instantiated for the
encoding, the redaction and the scan.

### `exec`: `ExecPumpProofs`

For every child and every output, pipes of any capacity, and any number of probes:

| Theorem | Property | Argument |
|---|---|---|
| `SilentIsSealed` | `UnsealedChildIsNamed` | if `Inconclusive < ATTEMPTS`; `PollInv`: a child that runs unsealed now was readable all the time, so a probe after the first `Inconclusive` has seen it |
| `ReturnIsComplete` | `ReturnsWithAllOutput` | `OutInv`: `main` returns with both pumps done, whose pipes and `ready` are empty, so the sink has all that `process` made of all that the child wrote |
| `SinksStayClean` | `SinksAreClean` | `OutInv`: a sink has the beginning of what `process` returned, also when it broke in the middle of a write, and a beginning of something clean is clean |
| `PumpsFeedStreams` | - | `Spec => StreamSpec`: each step of a pump is a `Feed` of its stream or leaves it alone, so what is proved of every stream holds of both; `BytesInv` keeps the streams within `MaxBytes` |

Where every probe may be inconclusive (no `/proc`) the poll says nothing, as the code intends.
`OutInv` = `StreamsInv` of the redaction and
* `PumpInv`: where each byte is between the child and the sink. All that was sent has been fed
  or is in the pipe, and all that `process` returned is in the sink or in `ready`; a pump is
  done only after the end of the pipe, when nobody has its write end, and the last call;
* `MainInv`: the main thread joins in turn, so at each place it knows which pumps are done, and
  without `--redact` there are none.

### Only model-checked

Liveness: `CommandsEnd`, `LockIsReleased`, `ClientsEnd`, `PipesDrain`, `EndsWithChild` and
`KeyringNeverHangs` rest on fairness, and with facts about `ENABLED` they are outside the
reach of this prover. The three findings are counterexamples of TLC. Every other
property of the runs is a theorem.

## 6. What is not modelled

The cryptographic primitives are assumed ideal: a wrap or a bundle opens with its own
credential only, digests are injective, draws never repeat. Advisory locking is assumed to
work as `flock` does on a local file system. In `VaultStore` and the modules over it,
`write_private` is one step that fails before or after its rename; `DurableFile` has its
calls, and `VaultMigration` shows what a save and a creation made of them look like to
others. Modes and ACLs of files are left out. In `AutoUnseal` the copy of the blob that
the TPM backend keeps under `$HOME`, which nothing reads, is left out. `agent --daemon` (a
fork and a poll) and `receive --dry-run`, which stops before the lock, are left out;
`identity`, `list` and the other commands that read change nothing.

Scanning for secrets is one pass of patterns over text; what `scan --adopt` makes of a finding
is in `VaultImports`. Signing and GitHub tokens are one computation and one request over an
opened vault; hardening sets flags of the own process and reads `/proc`; zeroing of
memory is below the level of a model. None of them keeps state that another step
could find changed, so a model would only restate the code.

## 7. Plan

The model is complete as far as section 6 says. Three things would sharpen it: the phrase
that two `init` print as a property of its own, two snapshots in one second in a run, and
`VaultStore` over the calls of `DurableFile`.

The proofs cover every safety property of the passing runs. `DeletedEntriesAreCopied` could do
without its hypothesis for two commands that look for a name in different seconds, and the
last two theorems about the agent could be extended to several agents with a weaker property.
