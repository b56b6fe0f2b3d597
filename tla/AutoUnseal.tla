------------------------------ MODULE AutoUnseal -----------------------------
(***************************************************************************)
(* The passphrase of a vault, sealed to the host: `seal` and               *)
(* `init-machine` seal it, `open_vault` unseals it before it asks anybody. *)
(* A backend (the TPM, the OS keyring, systemd-creds) may be there or not  *)
(* whenever it is looked for, may refuse, and the keyring may never        *)
(* answer.                                                                 *)
(*                                                                         *)
(* What happens inside the store (lock, fingerprint, save) is in           *)
(* VaultStore; here an open and an edit are one step each.  An edit needs  *)
(* the data key of the vault that was opened.  The agent, which comes      *)
(* between the backends and the human, is in UnlockAgent.                  *)
(***************************************************************************)
EXTENDS Naturals, FiniteSets

CONSTANTS
    Process, Vault,
    DirOf,              \* the directory that each vault is in
    Typed,              \* the passphrases that humans know
    Credential,         \* what `set` stores
    Line,               \* what users may run: [op, vault, backend], and more for some
    Installer,          \* the processes that run init-machine
    Detect,             \* no --backend
    NoCmd, NoVault, NoBlob, Nothing,
    Host,               \* the sets of backends that a look may find
    Tpm2Compiled,       \* the build has the feature `tpm2`
    DiskFails,          \* writes of the vault and of the sealed file may fail, and removals
    MaxFresh, MaxRuns, MaxFirmware  \* bounds on draws, commands, updates

Backend    == {"tpm2", "keyring", "systemd-creds"}
Directory  == {DirOf[v] : v \in Vault}
Passphrase == Typed \cup 1 .. MaxFresh  \* a random one is a draw

VARIABLES
    vault,      \* the file of each vault
    sealed,     \* vault-passphrase.sealed in each directory
    bundle,     \* the recovery bundle of each vault: the data key it opens
    keyring,    \* the one entry that hearth-vault has in the keyring
    firmware,   \* PCR 0
    cmd,        \* the command of each process, and where it is
    worker,     \* the keyring call that a thread of each process is in
    fresh, runs,
    abandoned   \* the machine vaults whose init-machine was killed, or could not remove them

hostVars == <<keyring, firmware>>
files    == <<vault, sealed, bundle>>
counts   == <<fresh, runs, abandoned>>
vars     == <<files, hostVars, counts, cmd, worker>>

\* The passphrase of a machine vault and its data key are one draw.
Contents == [dk : 1 .. MaxFresh, pass : Passphrase, rec : BOOLEAN, creds : SUBSET Credential]

\* A blob names no backend; that of the keyring is the label of the entry.
Blob == [by : Backend, pass : Passphrase \cup {Nothing}, firmware : 0 .. MaxFirmware]

Place == {"check", "exists", "resolve", "read", "unseal", "open", "prompt", "create", "phrase",
          "seal", "write", "bundle", "clean_vault", "clean_seal", "clean_bundle", "edit",
          "done", "failed"}

Command == [line : Line, at : Place, hsm : Backend \cup {Nothing}, waits : BOOLEAN,
            blob : Blob \cup {NoBlob}, pass : Passphrase \cup {Nothing}, dk : 0 .. MaxFresh]

Call == [write : {TRUE}, pass : Passphrase] \cup [write : {FALSE}, label : BOOLEAN]

UserLine ==
    [op : {"init-machine", "seal"}, vault : Vault, backend : Backend \cup {Detect}]
    \cup [op : {"set"}, vault : Vault, backend : Backend \cup {Detect}, cred : Credential]
    \cup [op : {"change-passphrase"}, vault : Vault, backend : Backend \cup {Detect}, pass : Typed]

ASSUME UnsealAssumption ==
    /\ Typed \cap Nat = {}
    /\ Nothing \notin Passphrase /\ Nothing \notin Backend /\ Nothing \notin Call
    /\ NoVault \notin Contents /\ NoBlob \notin Blob /\ NoCmd \notin Command
    /\ Host \subseteq SUBSET Backend /\ Installer \subseteq Process /\ Line \subseteq UserLine
    /\ {Tpm2Compiled, DiskFails} \subseteq BOOLEAN
    /\ {MaxFresh, MaxRuns, MaxFirmware} \subseteq Nat
    /\ MaxFresh >= MaxRuns      \* a command draws once, so this bound stops none

TypeOK ==
    /\ vault \in [Vault -> Contents \cup {NoVault}]
    /\ sealed \in [Directory -> Blob \cup {NoBlob}]
    /\ bundle \in [Vault -> (1 .. MaxFresh) \cup {Nothing}]
    /\ keyring \in Passphrase \cup {Nothing}
    /\ firmware \in 0 .. MaxFirmware
    /\ cmd \in [Process -> Command \cup {NoCmd}]
    /\ worker \in [Process -> Call \cup {Nothing}]
    /\ fresh \in 0 .. MaxFresh /\ runs \in 0 .. MaxRuns /\ abandoned \subseteq 1 .. MaxFresh

\* What seals of the past, for this vault or another in its directory, may have left.
LeftBehind ==
    [by : {"tpm2", "systemd-creds"}, pass : Typed, firmware : {0}]
    \cup [by : {"keyring"}, pass : {Nothing}, firmware : {0}]

Init ==
    /\ vault = [v \in Vault |-> NoVault] /\ bundle = [v \in Vault |-> Nothing]
    /\ sealed \in [Directory -> {NoBlob} \cup LeftBehind]
    /\ keyring \in Typed \cup {Nothing} /\ firmware = 0
    /\ cmd = [p \in Process |-> NoCmd] /\ worker = [p \in Process |-> Nothing]
    /\ fresh = 0 /\ runs = 0 /\ abandoned = {}

-----------------------------------------------------------------------------
(* Helpers. *)

Running(p)   == cmd[p] # NoCmd
At(p, place) == Running(p) /\ cmd[p].at = place /\ ~cmd[p].waits
Op(p)        == cmd[p].line.op
VaultOf(p)   == cmd[p].line.vault
Dir(p)       == DirOf[VaultOf(p)]

\* open_vault serves every command but seal and init-machine.
Opens(p) == Op(p) \notin {"seal", "init-machine"}

Goto(p, place) == cmd' = [cmd EXCEPT ![p].at = place, ![p].waits = FALSE]

\* Faulty variant: a backend that fails is an error.
AfterErrorFatal(p) == IF Op(p) = "init-machine" THEN "clean_vault" ELSE "failed"

\* Faulty variant: what was made before the error stays.
AfterErrorUnclean(p) == IF Opens(p) THEN "prompt" ELSE "failed"

\* Where a command goes on after an error of a backend or of the disk:
\* open_vault falls back, init-machine cleans up.
AfterError(p) ==
    CASE Opens(p)               -> "prompt"
      [] Op(p) = "seal"         -> "failed"
      [] Op(p) = "init-machine" -> "clean_vault"

Fails(p) == Goto(p, AfterError(p)) /\ UNCHANGED <<files, hostVars, counts, worker>>

\* The store is open.
AfterOpen(p) == IF Op(p) = "seal" THEN "seal" ELSE "edit"

Mint(dk, pass) == [dk |-> dk, pass |-> pass, rec |-> FALSE, creds |-> {}]

\* open_at_with_passphrase: a vault that is not there is created.
Open(p, pass, mismatch) ==
    LET v == VaultOf(p)
        opened(dk) == [cmd EXCEPT ![p].at = AfterOpen(p), ![p].pass = pass, ![p].dk = dk]
    IN  /\ \/ /\ vault[v] = NoVault /\ fresh < MaxFresh
              /\ vault' = [vault EXCEPT ![v] = Mint(fresh + 1, pass)]
              /\ cmd' = opened(fresh + 1) /\ fresh' = fresh + 1
           \/ /\ vault[v] # NoVault /\ vault[v].pass = pass
              /\ cmd' = opened(vault[v].dk) /\ UNCHANGED <<vault, fresh>>
           \/ /\ IF vault[v] = NoVault THEN DiskFails ELSE vault[v].pass # pass
              /\ Goto(p, mismatch) /\ UNCHANGED <<vault, fresh>>
        /\ UNCHANGED <<sealed, bundle, hostVars, worker, runs, abandoned>>

\* The vault at the path is the one that p opened, as lock_and_refresh and save see it.
SameVault(p) == vault[VaultOf(p)] # NoVault /\ vault[VaultOf(p)].dk = cmd[p].dk

-----------------------------------------------------------------------------
(* Backends. *)

\* detect_backend takes the highest tier, backend_named the one named.
Resolved(name, up) ==
    LET there == {b \in up : (name = Detect \/ b = name) /\ (b = "tpm2" => Tpm2Compiled)} IN
    CASE "tpm2" \in there          -> "tpm2"
      [] "keyring" \in there       -> "keyring"
      [] "systemd-creds" \in there -> "systemd-creds"
      [] OTHER                     -> Nothing

Sealed(hsm, pass) ==
    [by |-> hsm, pass |-> IF hsm = "keyring" THEN Nothing ELSE pass, firmware |-> firmware]

\* What a backend other than the keyring makes of a blob.
Unsealed(hsm, blob) ==
    IF blob.by = hsm /\ (hsm = "tpm2" => blob.firmware = firmware) THEN blob.pass ELSE Nothing

\* The keyring looks up the text of the blob, or its own label if that is no text.
NamesEntry(blob) == blob.by # "systemd-creds"

\* A call of the TPM or of systemd-creds returns.
Returns(p) ==
    \/ At(p, "unseal") /\ cmd[p].hsm # "keyring"
       /\ LET pass == Unsealed(cmd[p].hsm, cmd[p].blob) IN
          /\ pass # Nothing
          /\ cmd' = [cmd EXCEPT ![p].at = "open", ![p].pass = pass]
       /\ UNCHANGED <<files, hostVars, counts, worker>>
    \/ At(p, "seal") /\ cmd[p].hsm # "keyring"
       /\ cmd' = [cmd EXCEPT ![p].at = "write", ![p].blob = Sealed(cmd[p].hsm, cmd[p].pass)]
       /\ UNCHANGED <<files, hostVars, counts, worker>>

\* It may also fail, for reasons of its own.
Refuses(p) ==
    /\ At(p, "unseal") \/ At(p, "seal")
    /\ cmd[p].hsm # "keyring"
    /\ Fails(p)

\* Every call of the keyring is made by a thread of its own (with_deadline).
Spawn(p) ==
    /\ At(p, "unseal") \/ At(p, "seal")
    /\ cmd[p].hsm = "keyring"
    /\ cmd' = [cmd EXCEPT ![p].waits = TRUE]
    /\ worker' = [worker EXCEPT ![p] =
          IF cmd[p].at = "seal" THEN [write |-> TRUE, pass |-> cmd[p].pass]
          ELSE [write |-> FALSE, label |-> NamesEntry(cmd[p].blob)]]
    /\ UNCHANGED <<files, hostVars, counts>>

\* Faulty variant: an entry that is not there is an empty passphrase.
FoundAlways(call) == TRUE

\* A read finds the entry.
Found(call) == call.label /\ keyring # Nothing

\* The keyring has done what it was asked, also when nobody waits any more.
Answers(p) ==
    /\ worker[p] # Nothing
    /\ LET call == worker[p] IN
       /\ keyring' = IF call.write THEN call.pass ELSE keyring
       /\ IF ~cmd[p].waits THEN UNCHANGED cmd
          ELSE IF call.write
          THEN cmd' = [cmd EXCEPT ![p].at = "write", ![p].waits = FALSE,
                                  ![p].blob = Sealed("keyring", cmd[p].pass)]
          ELSE IF Found(call)
          THEN cmd' = [cmd EXCEPT ![p].at = "open", ![p].waits = FALSE, ![p].pass = keyring]
          ELSE Goto(p, AfterError(p))
    /\ worker' = [worker EXCEPT ![p] = Nothing]
    /\ UNCHANGED <<files, firmware, counts>>

\* Or it has refused.
AnswersNo(p) ==
    /\ worker[p] # Nothing
    /\ IF cmd[p].waits THEN Goto(p, AfterError(p)) ELSE UNCHANGED cmd
    /\ worker' = [worker EXCEPT ![p] = Nothing]
    /\ UNCHANGED <<files, hostVars, counts>>

\* Faulty variant: only reads have a deadline.
HasDeadlineReads(p) == cmd[p].waits /\ ~worker[p].write

HasDeadline(p) == cmd[p].waits

\* The deadline passes.  The thread goes on until its process ends.
Timeout(p) == Running(p) /\ HasDeadline(p) /\ Fails(p)

-----------------------------------------------------------------------------
(* open_vault, and what follows it. *)

Entry(op) ==
    CASE op = "seal" -> "resolve" [] op = "init-machine" -> "check" [] OTHER -> "exists"

Run(p, line) ==
    /\ ~Running(p) /\ runs < MaxRuns
    /\ line.op = "init-machine" => p \in Installer
    /\ cmd' = [cmd EXCEPT ![p] = [line |-> line, at |-> Entry(line.op), hsm |-> Nothing,
                  waits |-> FALSE, blob |-> NoBlob, pass |-> Nothing, dk |-> 0]]
    /\ runs' = runs + 1
    /\ UNCHANGED <<files, hostVars, fresh, abandoned, worker>>

\* A blob of the TPM in a build without it is the one error that stops open_vault.
Exists(p) ==
    /\ At(p, "exists")
    /\ LET blob == sealed[Dir(p)] IN
       Goto(p, CASE blob = NoBlob -> "prompt"
                 [] blob # NoBlob /\ blob.by = "tpm2" /\ ~Tpm2Compiled -> "failed"
                 [] OTHER -> "resolve")
    /\ UNCHANGED <<files, hostVars, counts, worker>>

Resolve(p) ==
    /\ At(p, "resolve")
    /\ \E up \in Host :
       LET hsm == Resolved(cmd[p].line.backend, up) IN
       cmd' = [cmd EXCEPT ![p].hsm = hsm, ![p].at =
          CASE hsm = Nothing -> IF Opens(p) THEN "prompt" ELSE "failed"
            [] hsm # Nothing /\ Opens(p) -> "read"
            [] hsm # Nothing /\ Op(p) = "seal" -> "prompt"
            [] hsm # Nothing /\ Op(p) = "init-machine" -> "create"]
    /\ UNCHANGED <<files, hostVars, counts, worker>>

Read(p) ==
    /\ At(p, "read")
    /\ LET blob == sealed[Dir(p)] IN
       cmd' = [cmd EXCEPT ![p].blob = blob, ![p].at = IF blob = NoBlob THEN "prompt" ELSE "unseal"]
    /\ UNCHANGED <<files, hostVars, counts, worker>>

OpenSealed(p) == At(p, "open") /\ Open(p, cmd[p].pass, "prompt")

Prompt(p) == At(p, "prompt") /\ \E pass \in Typed : Open(p, pass, "failed")

\* lock_and_refresh, the edit and its save.
Edit(p) ==
    /\ At(p, "edit")
    /\ LET v == VaultOf(p) IN
       \/ (~SameVault(p) \/ DiskFails) /\ Goto(p, "failed") /\ UNCHANGED vault
       \/ /\ SameVault(p) /\ Goto(p, "done")
          /\ vault' = CASE Op(p) = "set" -> [vault EXCEPT ![v].creds = @ \cup {cmd[p].line.cred}]
                        [] Op(p) = "change-passphrase" ->
                               [vault EXCEPT ![v].pass = cmd[p].line.pass]
    /\ UNCHANGED <<sealed, bundle, hostVars, counts, worker>>

-----------------------------------------------------------------------------
(* seal and init-machine. *)

Check(p) ==
    /\ At(p, "check")
    /\ Goto(p, IF vault[VaultOf(p)] = NoVault /\ bundle[VaultOf(p)] = Nothing
               THEN "resolve" ELSE "failed")
    /\ UNCHANGED <<files, hostVars, counts, worker>>

\* A vault that came in between does not open with the random passphrase.
Create(p) ==
    /\ At(p, "create") /\ fresh < MaxFresh
    /\ LET v == VaultOf(p)
           n == fresh + 1
       IN  \/ /\ vault[v] = NoVault
              /\ vault' = [vault EXCEPT ![v] = Mint(n, n)]
              /\ cmd' = [cmd EXCEPT ![p].at = "phrase", ![p].pass = n, ![p].dk = n]
           \/ /\ vault[v] # NoVault \/ DiskFails
              /\ Goto(p, AfterError(p)) /\ UNCHANGED vault
    /\ fresh' = fresh + 1
    /\ UNCHANGED <<sealed, bundle, hostVars, worker, runs, abandoned>>

\* generate_recovery_key and save.
Phrase(p) ==
    /\ At(p, "phrase")
    /\ \/ /\ SameVault(p)
          /\ vault' = [vault EXCEPT ![VaultOf(p)].rec = TRUE]
          /\ Goto(p, "seal")
       \/ /\ ~SameVault(p) \/ DiskFails
          /\ Goto(p, AfterError(p)) /\ UNCHANGED vault
    /\ UNCHANGED <<sealed, bundle, hostVars, counts, worker>>

WriteSealed(p) ==
    /\ At(p, "write")
    /\ \/ /\ sealed' = [sealed EXCEPT ![Dir(p)] = cmd[p].blob]
          /\ Goto(p, IF Op(p) = "seal" THEN "done" ELSE "bundle")
       \/ DiskFails /\ Goto(p, AfterError(p)) /\ UNCHANGED sealed
    /\ UNCHANGED <<vault, bundle, hostVars, counts, worker>>

\* share::seal also refuses a recipient that is no identity.
WriteBundle(p) ==
    /\ At(p, "bundle")
    /\ \/ bundle' = [bundle EXCEPT ![VaultOf(p)] = cmd[p].dk] /\ Goto(p, "done")
       \/ UNCHANGED bundle /\ Goto(p, AfterError(p))
    /\ UNCHANGED <<vault, sealed, hostVars, counts, worker>>

\* The machine vault that p made, if it has made one.
Minted(p) == IF Op(p) = "init-machine" /\ cmd[p].dk # 0 THEN {cmd[p].dk} ELSE {}

\* Three removals, in this order.  The errors of each are ignored.
Clean(p) ==
    /\ \/ /\ At(p, "clean_vault") /\ Goto(p, "clean_seal")
          /\ \/ vault' = [vault EXCEPT ![VaultOf(p)] = NoVault] /\ UNCHANGED abandoned
             \/ DiskFails /\ UNCHANGED vault /\ abandoned' = abandoned \cup Minted(p)
          /\ UNCHANGED <<sealed, bundle>>
       \/ /\ At(p, "clean_seal") /\ Goto(p, "clean_bundle")
          /\ \/ sealed' = [sealed EXCEPT ![Dir(p)] = NoBlob]
             \/ DiskFails /\ UNCHANGED sealed
          /\ UNCHANGED <<vault, bundle, abandoned>>
       \/ /\ At(p, "clean_bundle") /\ Goto(p, "failed")
          /\ \/ bundle' = [bundle EXCEPT ![VaultOf(p)] = Nothing]
             \/ DiskFails /\ UNCHANGED bundle
          /\ UNCHANGED <<vault, sealed, abandoned>>
    /\ UNCHANGED <<hostVars, fresh, runs, worker>>

-----------------------------------------------------------------------------
(* The end of a command, and the host. *)

End(p) ==
    /\ cmd' = [cmd EXCEPT ![p] = NoCmd] /\ worker' = [worker EXCEPT ![p] = Nothing]
    /\ UNCHANGED <<files, hostVars, fresh, runs>>

Exit(p) == (At(p, "done") \/ At(p, "failed")) /\ End(p) /\ UNCHANGED abandoned

\* Killed, with its thread.
Kill(p) ==
    /\ Running(p) /\ ~At(p, "done") /\ ~At(p, "failed") /\ End(p)
    /\ abandoned' = abandoned \cup Minted(p)

\* A firmware update, and the PCR with it.
FirmwareUpdate ==
    /\ firmware < MaxFirmware /\ firmware' = firmware + 1
    /\ UNCHANGED <<files, keyring, counts, cmd, worker>>

\* What a process does by itself.
Step(p) ==
    \/ Exists(p) \/ Resolve(p) \/ Read(p) \/ OpenSealed(p) \/ Edit(p)
    \/ Returns(p) \/ Refuses(p) \/ Spawn(p) \/ Timeout(p)
    \/ Check(p) \/ Create(p) \/ Phrase(p) \/ WriteSealed(p) \/ WriteBundle(p) \/ Clean(p)
    \/ Exit(p)

Next ==
    \/ \E p \in Process : \/ \E line \in Line : Run(p, line)
                          \/ Step(p) \/ Prompt(p) \/ Answers(p) \/ AnswersNo(p) \/ Kill(p)
    \/ FirmwareUpdate

Spec == Init /\ [][Next]_vars

\* The TPM and systemd-creds return; the keyring need not, humans need not.
FairSpec == Spec /\ \A p \in Process : WF_vars(Step(p))

-----------------------------------------------------------------------------
(* Properties. *)

\* Whatever the keyring does, a command ends or asks its human: a keyring that
\* waits for an unlock prompt does not hang it.
KeyringNeverHangs ==
    \A p \in Process : (Running(p) /\ ~At(p, "prompt")) ~> (~Running(p) \/ At(p, "prompt"))

\* No backend, absent, refusing, silent, or with the passphrase of another vault or
\* of an earlier day, keeps open_vault from asking the human.  (A build without the
\* TPM stops at a blob of the TPM, and says so.)
BackendIsNeverFatal ==
    [][\A p \in Process :
          Running(p) /\ Opens(p) /\ ~At(p, "prompt") /\ ~At(p, "edit") /\ cmd' # cmd /\ cmd'[p] # NoCmd
          /\ cmd'[p].at = "failed" /\ cmd[p].at # "failed" => ~Tpm2Compiled]_vars

\* The passphrase of a machine vault is known to nobody.  Once its init-machine is
\* over, whatever step of it failed, the vault is gone or its recovery bundle is
\* there, for as long as it has that passphrase.  The exceptions: it was killed, or
\* the removal of the vault failed as well, whose error nobody sees.
MachineVaultHasItsBundle ==
    \A v \in Vault : vault[v] # NoVault /\ vault[v].pass = vault[v].dk =>
        \/ vault[v].rec /\ bundle[v] = vault[v].dk
        \/ vault[v].dk \in abandoned
        \/ \E p \in Process : Running(p) /\ Op(p) = "init-machine" /\ cmd[p].dk = vault[v].dk
                              /\ ~At(p, "done") /\ ~At(p, "failed")
=============================================================================
