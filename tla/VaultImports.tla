---------------------------- MODULE VaultImports -----------------------------
(***************************************************************************)
(* Moving plaintext into the vault: `import`, `import-env` and `scan       *)
(* --adopt` of main.rs.  Each reads a source file, stores what it read,    *)
(* saves, verifies, and then destroys what it read, which may be the last  *)
(* copy.  A process runs a job of this kind, or calls the methods of       *)
(* VaultStore in any order, as every other command does.                   *)
(*                                                                         *)
(* There is one source file.  A line of it holds a pair or nothing that    *)
(* matters; `import` takes the whole text for one value, and the value of  *)
(* line 1 stands for it.                                                   *)
(***************************************************************************)
EXTENDS VaultStore, FiniteSetsExt

CONSTANTS
    Job,            \* what a user may run, records with field `op`
    NoJob,
    LineNo,         \* 1 .. n for some n, the lines of a source
    Text,           \* the texts that users write, functions from LineNo
    NoLine,         \* a line that holds no pair: blank, a comment, a pointer, no value
    Wiped,          \* a file overwritten with zeros
    Nul,            \* the value that `import` makes of such a file
    NoSource,       \* no file at the path of the source
    MaxJobs         \* bound on the jobs run

VARIABLES
    source,         \* what is at the path of the source
    job,            \* job[p]: NoJob, or [job, at, items, taken, text]: the
                    \* pairs to store, the lines stored, what adopt writes back
    jobs

importVars == <<file, snapshot, lock, store, pc, arg, fresh, source, job, jobs>>

Pair  == [key: Key, value: Value]
Texts == [LineNo -> Pair \cup {NoLine}]

JobLine ==
    [op : {"import"}, key : Key, tier : Nat]
    \cup [op : {"import-env"}, tier : Nat, force : BOOLEAN, keep : BOOLEAN]
    \cup [op : {"adopt"}, force : BOOLEAN]

\* The places at which a job owns the lock, and those at which it destroys its
\* source or says that it did.
Destroying == {"wipe", "unlink", "truncate", "rewrite", "done"}
Locked     == {"reread", "edit", "save", "verify"} \cup Destroying

JobState == [job : JobLine, at : {"read", "open", "refresh", "failed"} \cup Locked,
             items : Texts, taken : SUBSET LineNo, text : Texts]

ASSUME ImportsAssumption ==
    /\ Max(LineNo) \in Nat /\ LineNo = 1 .. Max(LineNo) /\ 1 \in LineNo
    /\ Job \subseteq JobLine /\ NoJob \notin JobState
    /\ NoLine \notin Pair /\ Text \subseteq Texts
    /\ {Wiped, NoSource} \cap Texts = {} /\ Wiped # NoSource
    /\ Nul \in Value /\ MaxJobs \in Nat

Blank == [i \in LineNo |-> NoLine]

ImportsInit ==
    /\ Init
    /\ source \in Text
    /\ job = [p \in Process |-> NoJob]
    /\ jobs = 0

-----------------------------------------------------------------------------
(* Helpers. *)

Running(p)   == job[p] # NoJob
Op(p)        == job[p].job.op
At(p, label) == Running(p) /\ job[p].at = label

\* Faulty variant: adopt reads its files before it locks.
BeforeEditReading(j, at) ==
    CASE at = "read"    -> IF j.op = "adopt" THEN "reread" ELSE "open"
      [] at = "reread"  -> "open"
      [] at = "open"    -> "refresh"
      [] at = "refresh" -> "edit"

\* Faulty variant: the job edits what it opened, and `save` locks for itself.
BeforeEditUnlocked(j, at) ==
    CASE at = "read"    -> "open"
      [] at = "open"    -> IF j.op = "adopt" THEN "reread" ELSE "edit"
      [] at = "reread"  -> "edit"

\* What comes after each step.  adopt reads its files again, under the lock.
BeforeEdit(j, at) ==
    CASE at = "read"    -> "open"
      [] at = "open"    -> "refresh"
      [] at = "refresh" -> IF j.op = "adopt" THEN "reread" ELSE "edit"
      [] at = "reread"  -> "edit"

AfterEdit(j, at) ==
    CASE at = "edit"     -> "save"
      [] at = "save"     -> "verify"
      [] at = "verify"   -> CASE j.op = "adopt" -> "truncate"
                              [] j.op = "import-env" /\ j.keep -> "done"
                              [] OTHER -> "wipe"
      [] at = "wipe"     -> "unlink"
      [] at = "truncate" -> "rewrite"
      [] at \in {"unlink", "rewrite"} -> "done"

After(j, at) ==
    IF at \in {"read", "open", "refresh", "reread"} THEN BeforeEdit(j, at) ELSE AfterEdit(j, at)

\* A step returned: to the next one, or to the error exit.
Return(p, ok) ==
    /\ job' = [job EXCEPT ![p].at = IF ok THEN After(job[p].job, @) ELSE "failed"]
    /\ UNCHANGED jobs

Stay == UNCHANGED <<source, job, jobs>>

-----------------------------------------------------------------------------
(* Reading the source. *)

\* What `import` takes for a value, what the others take for lines.
Readable(p) ==
    /\ source # NoSource
    /\ IF Op(p) = "import"
       THEN source = Wiped \/ source[1] # NoLine
       ELSE source # Wiped /\ source # Blank

Start(p, j) ==
    /\ ~Running(p) /\ Idle(p) /\ ~Open(p) /\ jobs < MaxJobs
    /\ job' = [job EXCEPT ![p] = [job |-> j, at |-> "read", items |-> Blank, taken |-> {},
                                  text |-> Blank]]
    /\ jobs' = jobs + 1
    /\ UNCHANGED <<vars, source>>

\* The pairs to store.  A wiped file has the text of its zeros.
Items(j, text) ==
    IF j.op = "import"
    THEN [Blank EXCEPT ![1] = [key   |-> j.key,
                               value |-> IF text = Wiped THEN Nul ELSE text[1].value]]
    ELSE text

\* Nothing there, or nothing in it: the command ends before it opens the vault.
ReadSource(p) ==
    /\ At(p, "read")
    /\ IF Readable(p)
       THEN job' = [job EXCEPT ![p].at = After(job[p].job, @),
                               ![p].items = Items(job[p].job, source)]
       ELSE job' = [job EXCEPT ![p].at = "failed"]
    /\ UNCHANGED <<vars, source, jobs>>

\* adopt: the name comes from the scan, the value from the line as it is now; a
\* file that cannot be read and a line that vanished are left out.
Reread(p) ==
    /\ At(p, "reread")
    /\ LET found == job[p].items
           now   == IF source \in {NoSource, Wiped} THEN Blank ELSE source
       IN  job' = [job EXCEPT ![p].at = After(job[p].job, @), ![p].text = now,
                      ![p].items = [i \in LineNo |->
                          IF found[i] = NoLine \/ now[i] = NoLine THEN NoLine
                          ELSE [key |-> found[i].key, value |-> now[i].value]]]
    /\ UNCHANGED <<vars, source, jobs>>

-----------------------------------------------------------------------------
(* Into the vault. *)

OpenVault(p) ==
    /\ At(p, "open") /\ Idle(p)
    /\ \E pass \in Passphrase : OpenAtWithPassphrase(p, pass)
    /\ Stay

LoadReturns(p) ==
    /\ At(p, "open") /\ load_v2(p)
    /\ Return(p, store'[p] # Closed) /\ UNCHANGED source

CreateContinues(p) ==
    /\ At(p, "open")
    /\ CreateLock(p) \/ CreateYields(p) \/ create_new(p)
    /\ Stay

Refresh(p) == At(p, "refresh") /\ lock_and_refresh(p) /\ Stay

RefreshReturns(p) ==
    /\ At(p, "refresh") /\ RefreshRead(p)
    /\ Return(p, CanRefresh(p)) /\ UNCHANGED source

Forced(j)  == j.op = "import" \/ j.force
TierOf(j)  == IF j.op = "adopt" THEN TIER_USE_ONLY ELSE j.tier

\* The body, and the lines stored, after the loop over the items.  A key that
\* exists, also one that an earlier line stored, is skipped unless forced; of two
\* lines stored under one key the later one stays.
Stored(j, items, body) ==
    LET of(k)   == {n \in LineNo : items[n] # NoLine /\ items[n].key = k}
        kept(k) == {n \in of(k) : Forced(j) \/ (~Has(body, k) /\ \A i \in of(k) : n <= i)}
        entry(k, item) == SetEntry(body, k, item.value, TierOf(j))[k]
    IN  [body  |-> [k \in Key |-> IF kept(k) = {} THEN body[k]
                                  ELSE entry(k, items[Max(kept(k))])],
         taken |-> UNION {kept(k) : k \in Key}]

Edit(p) ==
    /\ At(p, "edit") /\ Idle(p)
    /\ LET j   == job[p].job
           new == Stored(j, job[p].items, store[p].body)
       IN  IF new.taken = {} \/ validate_tier(TierOf(j))
           THEN /\ SetBody(p, new.body)
                /\ job' = [job EXCEPT ![p].at = "save", ![p].taken = new.taken]
           ELSE /\ UNCHANGED vars
                /\ job' = [job EXCEPT ![p].at = "failed"]
    /\ UNCHANGED <<source, jobs>>

Save(p) == At(p, "save") /\ save(p) /\ Stay

SaveContinues(p) == Running(p) /\ SaveCheck(p) /\ Stay

\* Also the end of a creation.
SaveReturns(p) ==
    /\ Running(p) /\ UNCHANGED source
    /\ \/ SaveWrite(p) /\ Return(p, TRUE)
       \/ (SaveRefused(p) \/ SaveFails(p) \/ SaveFailsLate(p)) /\ Return(p, FALSE)

\* The vault at the path holds every pair that p stored.
VaultHasTaken(p) ==
    \A i \in job[p].taken :
        LET item == job[p].items[i] IN
        file # NoFile /\ Has(file.body, item.key) /\ file.body[item.key].value = item.value

\* verify_persisted; with --force, two lines of one key never both pass.
Verify(p) ==
    /\ At(p, "verify") /\ Idle(p)
    /\ Return(p, file # NoFile /\ file.dk = store[p].dk /\ VaultHasTaken(p))
    /\ UNCHANGED <<vars, source>>

-----------------------------------------------------------------------------
(* Out of the source. *)

\* secure_delete_file: zeros first, then the name goes.  Either may fail.
Wipe(p) ==
    /\ At(p, "wipe")
    /\ \/ source # NoSource /\ source' = Wiped /\ Return(p, TRUE)
       \/ /\ source = NoSource \/ DiskFails
          /\ UNCHANGED source /\ Return(p, FALSE)
    /\ UNCHANGED vars

Unlink(p) ==
    /\ At(p, "unlink")
    /\ \/ source # NoSource /\ source' = NoSource /\ Return(p, TRUE)
       \/ /\ source = NoSource \/ DiskFails
          /\ UNCHANGED source /\ Return(p, FALSE)
    /\ UNCHANGED vars

\* fs::write truncates, then writes: the text as it was read, with a pointer in
\* the place of every line that was stored.  No line stored, no write.
Truncate(p) ==
    /\ At(p, "truncate")
    /\ IF job[p].taken = {}
       THEN UNCHANGED source /\ job' = [job EXCEPT ![p].at = "done"] /\ UNCHANGED jobs
       ELSE source' = Blank /\ Return(p, TRUE)
    /\ UNCHANGED vars

Rewrite(p) ==
    /\ At(p, "rewrite")
    /\ \/ /\ source' = [i \in LineNo |-> IF i \in job[p].taken THEN NoLine ELSE job[p].text[i]]
          /\ Return(p, TRUE)
       \/ DiskFails /\ UNCHANGED source /\ Return(p, FALSE)
    /\ UNCHANGED vars

\* The command returns: its store is dropped, and the lock with it.
Exit(p) ==
    /\ Running(p) /\ Idle(p) /\ job[p].at \in {"done", "failed"}
    /\ IF Open(p) THEN Drop(p) ELSE UNCHANGED vars
    /\ job' = [job EXCEPT ![p] = NoJob]
    /\ UNCHANGED <<source, jobs>>

\* Killed, at any step.
Kill(p) ==
    /\ Running(p)
    /\ IF Idle(p) /\ ~Open(p) THEN UNCHANGED vars ELSE Crash(p)
    /\ job' = [job EXCEPT ![p] = NoJob]
    /\ UNCHANGED <<source, jobs>>

\* Somebody writes the source, at any moment.
UserWrites(text) == source' = text /\ UNCHANGED <<vars, job, jobs>>

\* Any other command, by what it can do to the pairs that a job has saved: remove
\* one, or replace the file.  Its calls come in any order.
OtherCommand(p) ==
    /\ ~Running(p)
    /\ \/ OpenStep(p) \/ SaveStep(p) \/ Drop(p) \/ Crash(p)
       \/ \E k \in Key : delete(p, k)
       \/ \E n \in Name : RestoreRead(p, n)
       \/ RestoreLock(p) \/ RestoreWrite(p) \/ RestoreFails(p) \/ RestoreReturns(p)
    /\ Stay

JobStep(p) ==
    \/ ReadSource(p) \/ Reread(p)
    \/ OpenVault(p)  \/ LoadReturns(p) \/ CreateContinues(p) \/ Refresh(p) \/ RefreshReturns(p)
    \/ Edit(p) \/ Save(p) \/ SaveContinues(p) \/ SaveReturns(p) \/ Verify(p)
    \/ Wipe(p) \/ Unlink(p) \/ Truncate(p) \/ Rewrite(p) \/ Exit(p)

ImportsNext ==
    \/ \E p \in Process : \/ \E j \in Job : Start(p, j)
                          \/ JobStep(p) \/ Kill(p) \/ OtherCommand(p)
    \/ \E text \in Text : UserWrites(text)

ImportsSpec == ImportsInit /\ [][ImportsNext]_importVars

-----------------------------------------------------------------------------
(* Properties. *)

\* Every pair that p read, stored or skipped, has an entry under its key.
VaultHasKeys(p) ==
    \A i \in LineNo : job[p].items[i] # NoLine =>
        file # NoFile /\ Has(file.body, job[p].items[i].key)

\* From the moment a job begins to destroy its source until its command returns, and
\* whatever the other commands do, the vault holds every pair that the job stored,
\* and no pair that it read is without an entry.  The value of a pair that it skipped
\* is not kept: `import-env` without --force leaves the entry that has the key, and
\* wipes the file all the same.
StoredBeforeDestroyed ==
    \A p \in Process :
        Running(p) /\ job[p].at \in Destroying => VaultHasTaken(p) /\ VaultHasKeys(p)

\* While an adopt holds the text that it will write back, no other command of this
\* program changes the source: it never brings back what another job removed.  (A
\* user may change the source in between, and loses the change.)
AdoptWritesBackWhatIsThere ==
    [][\A p \in Process :
          Running(p) /\ job[p].text # Blank /\ source' # source /\ job' # job
          => job'[p] # job[p]]_importVars
=============================================================================
