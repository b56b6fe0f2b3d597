--------------------------- MODULE AutoUnsealProofs ---------------------------
(***************************************************************************)
(* Theorems about AutoUnseal, for every set of vaults, processes, command  *)
(* lines and hosts, and every bound on draws, commands and updates.        *)
(***************************************************************************)
EXTENDS AutoUnseal, TLAPS

\* What is assumed of the bounds and of the values that stand for nothing.
LEMMA Bounds ==
  /\ MaxFresh \in Nat /\ MaxRuns \in Nat /\ MaxFirmware \in Nat
  /\ Typed \cap Nat = {} /\ Nothing \notin Typed
  /\ \A n \in 1 .. MaxFresh : n # Nothing
  BY UnsealAssumption DEF Passphrase

LEMMA Nulls ==
  /\ NoCmd \notin Command /\ NoVault \notin Contents /\ NoBlob \notin Blob
  /\ Nothing \notin Call /\ Nothing \notin Passphrase /\ Nothing \notin Backend
  /\ Line \subseteq UserLine /\ \A up \in Host : up \subseteq Backend
  BY UnsealAssumption

-----------------------------------------------------------------------------
(* Where a command can be, and what it has there.                          *)

\* The passphrases that exist after n draws: of humans, and of machines.
KnownBy(n) == Typed \cup 1 .. n

PlacesOf(op) ==
    CASE op = "init-machine" -> {"check", "resolve", "create", "phrase", "seal", "write", "bundle",
                                 "clean_vault", "clean_seal", "clean_bundle", "done", "failed"}
      [] op = "seal"         -> {"resolve", "prompt", "seal", "write", "done", "failed"}
      [] OTHER               -> {"exists", "resolve", "read", "unseal", "open", "prompt", "edit",
                                 "done", "failed"}

\* A command c whose thread is in `call`, after n draws.
CommandOK(c, call, n) ==
    /\ c.at \in PlacesOf(c.line.op)
    /\ c.at \in {"read", "unseal", "create", "phrase", "seal"} => c.hsm # Nothing
    /\ c.at = "prompt" /\ c.line.op = "seal" => c.hsm # Nothing
    /\ c.at = "unseal" => c.blob # NoBlob
    /\ c.at \in {"open", "phrase", "seal"} => c.pass # Nothing
    /\ c.at \in {"check", "exists", "resolve", "create"} => c.dk = 0
    /\ c.at \in {"phrase", "bundle"} => c.dk # 0
    /\ c.line.op = "init-machine" /\ c.at \in {"seal", "write"} => c.dk # 0
    /\ c.waits => /\ c.at \in {"unseal", "seal"} /\ c.hsm = "keyring"
                  /\ call # Nothing => (call.write <=> c.at = "seal")
    /\ c.dk <= n /\ c.pass \in KnownBy(n) \cup {Nothing}
    /\ c.blob # NoBlob => c.blob.pass \in KnownBy(n) \cup {Nothing}

CallOK(call, n) == call # Nothing /\ call.write => call.pass \in KnownBy(n)

CmdOK(p) ==
    /\ Running(p) => CommandOK(cmd[p], worker[p], fresh)
    /\ worker[p] # Nothing => Running(p)
    /\ CallOK(worker[p], fresh)

\* Every passphrase and every data key in a file was typed or drawn.
DrawnInv ==
    /\ \A v \in Vault : vault[v] # NoVault => vault[v].dk <= fresh /\ vault[v].pass \in KnownBy(fresh)
    /\ \A d \in Directory : sealed[d] # NoBlob => sealed[d].pass \in KnownBy(fresh) \cup {Nothing}
    /\ keyring \in KnownBy(fresh) \cup {Nothing}

TypeInv == TypeOK /\ DrawnInv /\ \A p \in Process : CmdOK(p)

-----------------------------------------------------------------------------
(* The records a step builds.                                              *)

LEMMA CmdFields ==
  ASSUME TypeInv, NEW p \in Process, Running(p)
  PROVE  /\ cmd[p] \in Command /\ cmd[p].line \in UserLine /\ cmd[p].at \in Place
         /\ cmd[p].hsm \in Backend \cup {Nothing} /\ cmd[p].waits \in BOOLEAN
         /\ cmd[p].blob \in Blob \cup {NoBlob} /\ cmd[p].pass \in Passphrase \cup {Nothing}
         /\ cmd[p].dk \in 0 .. MaxFresh
         /\ Op(p) \in {"init-machine", "seal", "set", "change-passphrase"}
         /\ VaultOf(p) \in Vault /\ Dir(p) \in Directory
         /\ CommandOK(cmd[p], worker[p], fresh)
<1>1. cmd[p] \in Command /\ CommandOK(cmd[p], worker[p], fresh)
  BY DEF TypeInv, TypeOK, Running, CmdOK
<1>2. cmd[p].line \in UserLine
  BY <1>1, Nulls DEF Command
<1>3. /\ Op(p) \in {"init-machine", "seal", "set", "change-passphrase"}
      /\ VaultOf(p) \in Vault
  BY <1>2 DEF UserLine, Op, VaultOf
<1>4. QED
  BY <1>1, <1>2, <1>3 DEF Command, Dir, Directory

LEMMA GotoSets ==
  ASSUME TypeInv, NEW p \in Process, Running(p), NEW a \in Place, Goto(p, a)
  PROVE  \E c \in Command :
            /\ cmd' = [cmd EXCEPT ![p] = c]
            /\ c.line = cmd[p].line /\ c.at = a /\ c.waits = FALSE /\ c.hsm = cmd[p].hsm
            /\ c.blob = cmd[p].blob /\ c.pass = cmd[p].pass /\ c.dk = cmd[p].dk
<1> DEFINE c == [cmd[p] EXCEPT !.at = a, !.waits = FALSE]
<1>1. /\ c \in Command /\ c.line = cmd[p].line /\ c.at = a /\ c.waits = FALSE
      /\ c.hsm = cmd[p].hsm /\ c.blob = cmd[p].blob /\ c.pass = cmd[p].pass /\ c.dk = cmd[p].dk
  BY CmdFields DEF Command
<1>2. cmd' = [cmd EXCEPT ![p] = c]
  BY DEF Goto
<1>3. QED
  BY <1>1, <1>2

\* Where an error leads.
LEMMA ErrorPlace ==
  ASSUME TypeInv, NEW p \in Process, Running(p)
  PROVE  \E a \in Place : /\ a = AfterError(p)
                          /\ Opens(p) => a = "prompt"
                          /\ Op(p) = "seal" => a = "failed"
                          /\ Op(p) = "init-machine" => a = "clean_vault"
<1>1. Op(p) \in {"init-machine", "seal", "set", "change-passphrase"}
  BY CmdFields
<1>2. /\ Opens(p) => AfterError(p) = "prompt"
      /\ Op(p) = "seal" => AfterError(p) = "failed"
      /\ Op(p) = "init-machine" => AfterError(p) = "clean_vault"
  BY <1>1 DEF AfterError, Opens
<1>3. AfterError(p) \in Place
  BY <1>1, <1>2 DEF Opens, Place
<1>4. QED
  BY <1>2, <1>3

LEMMA ErrorSets ==
  ASSUME TypeInv, NEW p \in Process, Running(p), Goto(p, AfterError(p))
  PROVE  \E c \in Command :
            /\ cmd' = [cmd EXCEPT ![p] = c]
            /\ c.line = cmd[p].line /\ c.waits = FALSE /\ c.hsm = cmd[p].hsm
            /\ c.blob = cmd[p].blob /\ c.pass = cmd[p].pass /\ c.dk = cmd[p].dk
            /\ Opens(p) => c.at = "prompt"
            /\ Op(p) = "seal" => c.at = "failed"
            /\ Op(p) = "init-machine" => c.at = "clean_vault"
<1>1. PICK a \in Place : /\ a = AfterError(p)
                         /\ Opens(p) => a = "prompt"
                         /\ Op(p) = "seal" => a = "failed"
                         /\ Op(p) = "init-machine" => a = "clean_vault"
  BY ErrorPlace
<1>2. Goto(p, a)
  BY <1>1
<1>3. PICK c \in Command :
          /\ cmd' = [cmd EXCEPT ![p] = c]
          /\ c.line = cmd[p].line /\ c.at = a /\ c.waits = FALSE /\ c.hsm = cmd[p].hsm
          /\ c.blob = cmd[p].blob /\ c.pass = cmd[p].pass /\ c.dk = cmd[p].dk
  BY <1>2, GotoSets
<1>4. QED
  BY <1>1, <1>3

-----------------------------------------------------------------------------
(* A step of p keeps TypeInv when it keeps what follows.                   *)

Frame(p) == \A q \in Process \ {p} : cmd'[q] = cmd[q] /\ worker'[q] = worker[q]

StepKept(p) == TypeOK' /\ DrawnInv' /\ CmdOK(p)' /\ Frame(p) /\ fresh' \in {fresh, fresh + 1}

LEMMA Later ==
  ASSUME NEW c, NEW call, NEW n \in Nat, NEW m \in Nat, n <= m
  PROVE  /\ (c.dk \in Nat /\ CommandOK(c, call, n)) => CommandOK(c, call, m)
         /\ CallOK(call, n) => CallOK(call, m)
         /\ KnownBy(n) \subseteq KnownBy(m)
<1>1. KnownBy(n) \subseteq KnownBy(m)
  BY DEF KnownBy
<1>2. c.dk \in Nat /\ c.dk <= n => c.dk <= m
  OBVIOUS
<1> HIDE DEF KnownBy
<1>3. CommandOK(c, call, n) /\ c.dk \in Nat => CommandOK(c, call, m)
  BY <1>1, <1>2 DEF CommandOK
<1>4. QED
  BY <1>1, <1>3 DEF CallOK

LEMMA KeptIsEnough ==
  ASSUME TypeInv, NEW p \in Process, StepKept(p)
  PROVE  TypeInv'
<1>1. fresh \in Nat /\ fresh' \in Nat /\ fresh <= fresh'
  BY DEF StepKept, TypeInv, TypeOK
<1>2. ASSUME NEW q \in Process, q # p
      PROVE  CmdOK(q)'
  <2>1. cmd'[q] = cmd[q] /\ worker'[q] = worker[q]
    BY <1>2 DEF StepKept, Frame
  <2>2. CmdOK(q) /\ (Running(q) => cmd[q].dk \in Nat)
    BY CmdFields DEF TypeInv
  <2>3. QED
    BY <1>1, <2>1, <2>2, Later DEF CmdOK, Running
<1>3. QED
  BY <1>2 DEF StepKept, TypeInv

\* What a step that sets the command of p leaves to show.
LEMMA CommandKept ==
  ASSUME TypeInv, NEW p \in Process, NEW c \in Command, cmd' = [cmd EXCEPT ![p] = c],
         UNCHANGED <<files, hostVars, counts, worker>>, CommandOK(c, worker[p], fresh)
  PROVE  StepKept(p)
<1>1. cmd' \in [Process -> Command \cup {NoCmd}] /\ cmd'[p] = c /\ Frame(p)
  BY DEF TypeInv, TypeOK, Frame
<1>2. TypeOK' /\ DrawnInv'
  BY <1>1 DEF TypeInv, TypeOK, DrawnInv, files, hostVars, counts
<1>3. Running(p)'
  BY <1>1, Nulls DEF Running
<1>4. CmdOK(p)'
  BY <1>1, <1>3 DEF TypeInv, CmdOK, counts
<1>5. QED
  BY <1>1, <1>2, <1>4 DEF StepKept, counts

\* open_vault up to its backend, and the first look of init-machine.
LEMMA LookKept ==
  ASSUME TypeInv, NEW p \in Process, Exists(p) \/ Check(p) \/ Resolve(p) \/ Read(p)
  PROVE  StepKept(p)
<1>1. Running(p) /\ UNCHANGED <<files, hostVars, counts, worker>>
  BY DEF Exists, Check, Resolve, Read, At
<1>2. /\ CommandOK(cmd[p], worker[p], fresh) /\ VaultOf(p) \in Vault /\ Dir(p) \in Directory
      /\ Op(p) \in {"init-machine", "seal", "set", "change-passphrase"}
      /\ cmd[p].hsm \in Backend \cup {Nothing} /\ cmd[p].blob \in Blob \cup {NoBlob}
      /\ cmd[p].pass \in Passphrase \cup {Nothing} /\ cmd[p].dk \in 0 .. MaxFresh
  BY <1>1, CmdFields
<1>3. CASE Exists(p) \/ Check(p)
  <2>1. PICK a \in Place : /\ Goto(p, a)
                           /\ \/ cmd[p].at = "exists" /\ a \in {"prompt", "failed", "resolve"}
                              \/ cmd[p].at = "check" /\ a \in {"resolve", "failed"}
    <3>1. Exists(p) => \E a \in {"prompt", "failed", "resolve"} : Goto(p, a)
      BY DEF Exists
    <3>2. Check(p) => \E a \in {"resolve", "failed"} : Goto(p, a)
      BY DEF Check
    <3>3. QED
      BY <1>3, <3>1, <3>2 DEF Exists, Check, At, Place
  <2>2. PICK c \in Command :
            /\ cmd' = [cmd EXCEPT ![p] = c]
            /\ c.line = cmd[p].line /\ c.at = a /\ c.waits = FALSE /\ c.hsm = cmd[p].hsm
            /\ c.blob = cmd[p].blob /\ c.pass = cmd[p].pass /\ c.dk = cmd[p].dk
    BY <1>1, <2>1, GotoSets
  <2>3. CommandOK(c, worker[p], fresh)
    BY <1>2, <2>1, <2>2 DEF CommandOK, PlacesOf, Op
  <2>4. QED
    BY <1>1, <2>2, <2>3, CommandKept
<1>4. CASE Resolve(p)
  <2>1. PICK up \in Host :
            LET h == Resolved(cmd[p].line.backend, up) IN
            cmd' = [cmd EXCEPT ![p].hsm = h, ![p].at =
               CASE h = Nothing -> IF Opens(p) THEN "prompt" ELSE "failed"
                 [] h # Nothing /\ Opens(p) -> "read"
                 [] h # Nothing /\ Op(p) = "seal" -> "prompt"
                 [] h # Nothing /\ Op(p) = "init-machine" -> "create"]
    BY <1>4 DEF Resolve
  <2> DEFINE h == Resolved(cmd[p].line.backend, up)
             a == CASE h = Nothing -> IF Opens(p) THEN "prompt" ELSE "failed"
                    [] h # Nothing /\ Opens(p) -> "read"
                    [] h # Nothing /\ Op(p) = "seal" -> "prompt"
                    [] h # Nothing /\ Op(p) = "init-machine" -> "create"
  <2>2. h \in Backend \cup {Nothing}
    BY DEF Resolved, Backend
  <2> HIDE DEF h
  <2>3. /\ a \in Place
        /\ h = Nothing => a = IF Opens(p) THEN "prompt" ELSE "failed"
        /\ h # Nothing => a = IF Opens(p) THEN "read"
                              ELSE IF Op(p) = "seal" THEN "prompt" ELSE "create"
    BY <1>2 DEF Opens, Place
  <2>4. cmd[p].at = "resolve" /\ cmd[p].waits = FALSE
    BY <1>1, <1>4, CmdFields DEF Resolve, At
  <2>5. cmd' = [cmd EXCEPT ![p].hsm = h, ![p].at = a]
    BY <2>1 DEF h
  <2> HIDE DEF a
  <2> DEFINE c == [cmd[p] EXCEPT !.hsm = h, !.at = a]
  <2>6. /\ c \in Command /\ c.line = cmd[p].line /\ c.at = a /\ c.waits = FALSE /\ c.hsm = h
        /\ c.blob = cmd[p].blob /\ c.pass = cmd[p].pass /\ c.dk = cmd[p].dk
    BY <1>1, <2>2, <2>3, <2>4, CmdFields DEF Command
  <2>7. cmd' = [cmd EXCEPT ![p] = c]
    BY <2>5
  <2> HIDE DEF c
  <2>8. CommandOK(c, worker[p], fresh)
    BY <1>2, <2>3, <2>4, <2>6 DEF CommandOK, PlacesOf, Op, Opens
  <2>9. QED
    BY <1>1, <2>6, <2>7, <2>8, CommandKept
<1>5. CASE Read(p)
  <2> DEFINE b == sealed[Dir(p)]
             a == IF b = NoBlob THEN "prompt" ELSE "unseal"
             c == [cmd[p] EXCEPT !.blob = b, !.at = a]
  <2>1. b \in Blob \cup {NoBlob} /\ (b # NoBlob => b.pass \in KnownBy(fresh) \cup {Nothing})
    BY <1>2 DEF TypeInv, TypeOK, DrawnInv
  <2>2. cmd[p].at = "read" /\ cmd[p].waits = FALSE
    BY <1>1, <1>5, CmdFields DEF Read, At
  <2>3. cmd' = [cmd EXCEPT ![p] = c]
    BY <1>5 DEF Read
  <2> HIDE DEF b
  <2>4. /\ c \in Command /\ c.line = cmd[p].line /\ c.at = a /\ c.waits = FALSE
        /\ c.hsm = cmd[p].hsm /\ c.blob = b /\ c.pass = cmd[p].pass /\ c.dk = cmd[p].dk
    BY <1>1, <2>1, <2>2, CmdFields DEF Command, Place
  <2> HIDE DEF c
  <2>5. CommandOK(c, worker[p], fresh)
    BY <1>2, <2>1, <2>2, <2>4 DEF CommandOK, PlacesOf, Op
  <2>6. QED
    BY <1>1, <2>3, <2>4, <2>5, CommandKept
<1>6. QED
  BY <1>3, <1>4, <1>5

\* A backend that is not the keyring answers or refuses; the deadline passes.
LEMMA BackendKept ==
  ASSUME TypeInv, NEW p \in Process, Returns(p) \/ Refuses(p) \/ Timeout(p)
  PROVE  StepKept(p)
<1>1. Running(p) /\ UNCHANGED <<files, hostVars, counts, worker>>
  BY DEF Returns, Refuses, Timeout, At, Fails
<1>2. /\ CommandOK(cmd[p], worker[p], fresh)
      /\ Op(p) \in {"init-machine", "seal", "set", "change-passphrase"}
      /\ cmd[p].hsm \in Backend \cup {Nothing} /\ cmd[p].blob \in Blob \cup {NoBlob}
      /\ cmd[p].pass \in Passphrase \cup {Nothing} /\ cmd[p].dk \in 0 .. MaxFresh
      /\ cmd[p].waits \in BOOLEAN
  BY <1>1, CmdFields
<1>3. cmd[p].at \in {"unseal", "seal"}
  BY <1>1, <1>2 DEF Returns, Refuses, Timeout, At, HasDeadline, CommandOK
<1>4. CASE Refuses(p) \/ Timeout(p)
  <2>1. Goto(p, AfterError(p))
    BY <1>1, <1>4 DEF Refuses, Timeout, Fails
  <2>2. PICK c \in Command :
            /\ cmd' = [cmd EXCEPT ![p] = c]
            /\ c.line = cmd[p].line /\ c.waits = FALSE /\ c.hsm = cmd[p].hsm
            /\ c.blob = cmd[p].blob /\ c.pass = cmd[p].pass /\ c.dk = cmd[p].dk
            /\ Opens(p) => c.at = "prompt"
            /\ Op(p) = "seal" => c.at = "failed"
            /\ Op(p) = "init-machine" => c.at = "clean_vault"
    BY <1>1, <2>1, ErrorSets
  <2>3. CommandOK(c, worker[p], fresh)
    BY <1>2, <1>3, <2>2 DEF CommandOK, PlacesOf, Op, Opens
  <2>4. QED
    BY <1>1, <2>2, <2>3, CommandKept
<1>5. CASE At(p, "unseal") /\ Returns(p)
  <2> DEFINE s == Unsealed(cmd[p].hsm, cmd[p].blob)
             c == [cmd[p] EXCEPT !.at = "open", !.pass = s]
  <2>1. s # Nothing /\ cmd' = [cmd EXCEPT ![p] = c]
    BY <1>5 DEF Returns, At
  <2>2. cmd[p].blob \in Blob /\ s = cmd[p].blob.pass /\ cmd[p].waits = FALSE
    BY <1>2, <1>5, <2>1 DEF CommandOK, Unsealed, At
  <2>3. s \in Passphrase /\ s \in KnownBy(fresh)
    BY <1>2, <2>1, <2>2, Nulls DEF CommandOK, Blob
  <2> HIDE DEF s
  <2>4. /\ c \in Command /\ c.line = cmd[p].line /\ c.at = "open" /\ c.waits = FALSE
        /\ c.hsm = cmd[p].hsm /\ c.blob = cmd[p].blob /\ c.pass = s /\ c.dk = cmd[p].dk
    BY <1>1, <2>2, <2>3, CmdFields DEF Command, Place
  <2> HIDE DEF c
  <2>5. CommandOK(c, worker[p], fresh)
    BY <1>2, <1>5, <2>1, <2>3, <2>4 DEF CommandOK, PlacesOf, Op, At
  <2>6. QED
    BY <1>1, <2>1, <2>4, <2>5, CommandKept
<1>6. CASE At(p, "seal") /\ Returns(p)
  <2> DEFINE b == Sealed(cmd[p].hsm, cmd[p].pass)
             c == [cmd[p] EXCEPT !.at = "write", !.blob = b]
  <2>1. cmd' = [cmd EXCEPT ![p] = c]
    BY <1>6 DEF Returns, At
  <2>2. cmd[p].hsm \in Backend /\ firmware \in 0 .. MaxFirmware /\ cmd[p].waits = FALSE
    BY <1>2, <1>6 DEF CommandOK, TypeInv, TypeOK, At
  <2>3. b \in Blob /\ b.pass \in KnownBy(fresh) \cup {Nothing} /\ b # NoBlob
    <3>1. b \in Blob /\ b.pass \in {cmd[p].pass, Nothing}
      BY <1>2, <2>2 DEF Sealed, Blob
    <3>2. QED
      BY <1>2, <3>1, Nulls DEF CommandOK
  <2> HIDE DEF b
  <2>4. /\ c \in Command /\ c.line = cmd[p].line /\ c.at = "write" /\ c.waits = FALSE
        /\ c.hsm = cmd[p].hsm /\ c.blob = b /\ c.pass = cmd[p].pass /\ c.dk = cmd[p].dk
    BY <1>1, <2>2, <2>3, CmdFields DEF Command, Place
  <2> HIDE DEF c
  <2>5. CommandOK(c, worker[p], fresh)
    BY <1>2, <1>6, <2>3, <2>4 DEF CommandOK, PlacesOf, Op, At
  <2>6. QED
    BY <1>1, <2>1, <2>4, <2>5, CommandKept
<1>7. QED
  BY <1>4, <1>5, <1>6 DEF Returns

\* The keyring and the thread that waits for it.
LEMMA KeyringKept ==
  ASSUME TypeInv, NEW p \in Process, Spawn(p) \/ Answers(p) \/ AnswersNo(p)
  PROVE  StepKept(p)
<1> DEFINE Own(c, call) == /\ cmd' \in [Process -> Command \cup {NoCmd}]
                           /\ worker' = [worker EXCEPT ![p] = call]
                           /\ cmd'[p] = c /\ \A q \in Process \ {p} : cmd'[q] = cmd[q]
<1>1. UNCHANGED <<files, firmware, counts>> /\ TypeOK /\ DrawnInv
  BY DEF Spawn, Answers, AnswersNo, hostVars, TypeInv
<1>2. ASSUME NEW c \in Command \cup {NoCmd}, NEW call \in Call \cup {Nothing}, Own(c, call),
             keyring' \in KnownBy(fresh) \cup {Nothing}, keyring' \in Passphrase \cup {Nothing},
             CallOK(call, fresh), c # NoCmd => CommandOK(c, call, fresh),
             call # Nothing => c # NoCmd
      PROVE  StepKept(p)
  <2>1. /\ worker' \in [Process -> Call \cup {Nothing}] /\ worker'[p] = call
        /\ \A q \in Process \ {p} : worker'[q] = worker[q]
    BY <1>1, <1>2 DEF TypeOK
  <2>2. TypeOK'
    BY <1>1, <1>2, <2>1 DEF TypeOK, files, counts
  <2>3. DrawnInv'
    BY <1>1, <1>2 DEF DrawnInv, files, counts
  <2>4. CmdOK(p)'
    BY <1>1, <1>2, <2>1, Nulls DEF CmdOK, Running, counts
  <2>5. QED
    BY <1>1, <1>2, <2>1, <2>2, <2>3, <2>4 DEF StepKept, Frame, counts
<1>3. keyring \in KnownBy(fresh) \cup {Nothing} /\ keyring \in Passphrase \cup {Nothing}
  BY <1>1 DEF DrawnInv, TypeOK
<1>4. Running(p) => /\ CommandOK(cmd[p], worker[p], fresh)
                    /\ Op(p) \in {"init-machine", "seal", "set", "change-passphrase"}
                    /\ cmd[p].hsm \in Backend \cup {Nothing} /\ cmd[p].waits \in BOOLEAN
                    /\ cmd[p].pass \in Passphrase \cup {Nothing}
                    /\ cmd[p].dk \in 0 .. MaxFresh /\ cmd[p].blob \in Blob \cup {NoBlob}
  BY CmdFields
<1>5. CASE Spawn(p)
  <2>1. /\ Running(p) /\ cmd[p].at \in {"unseal", "seal"} /\ cmd[p].hsm = "keyring"
        /\ UNCHANGED keyring
    BY <1>5 DEF Spawn, At, hostVars
  <2> DEFINE c == [cmd[p] EXCEPT !.waits = TRUE]
             call == IF cmd[p].at = "seal" THEN [write |-> TRUE, pass |-> cmd[p].pass]
                     ELSE [write |-> FALSE, label |-> NamesEntry(cmd[p].blob)]
  <2>2. cmd' = [cmd EXCEPT ![p] = c] /\ worker' = [worker EXCEPT ![p] = call]
    BY <1>5 DEF Spawn
  <2>3. /\ c \in Command /\ c.line = cmd[p].line /\ c.at = cmd[p].at /\ c.waits = TRUE
        /\ c.hsm = cmd[p].hsm /\ c.blob = cmd[p].blob /\ c.pass = cmd[p].pass /\ c.dk = cmd[p].dk
    BY <2>1, CmdFields DEF Command
  <2>4. /\ call \in Call /\ call.write = (cmd[p].at = "seal")
        /\ call.write => call.pass \in KnownBy(fresh)
    <3>1. CASE cmd[p].at = "seal"
      <4>1. cmd[p].pass \in Passphrase /\ cmd[p].pass \in KnownBy(fresh)
        BY <1>4, <2>1, <3>1 DEF CommandOK
      <4>2. [write |-> TRUE, pass |-> cmd[p].pass] \in Call
        BY <4>1 DEF Call
      <4>3. QED
        BY <3>1, <4>1, <4>2
    <3>2. CASE cmd[p].at # "seal"
      <4>1. NamesEntry(cmd[p].blob) \in BOOLEAN
        BY DEF NamesEntry
      <4>2. [write |-> FALSE, label |-> NamesEntry(cmd[p].blob)] \in Call
        BY <4>1 DEF Call
      <4>3. QED
        BY <3>2, <4>2
    <3>3. QED
      BY <3>1, <3>2
  <2> HIDE DEF c, call
  <2>5. Own(c, call)
    BY <1>1, <2>2, <2>3 DEF TypeOK
  <2>6. CommandOK(c, call, fresh) /\ CallOK(call, fresh)
    BY <1>4, <2>1, <2>3, <2>4 DEF CommandOK, CallOK
  <2>7. keyring' \in KnownBy(fresh) \cup {Nothing} /\ keyring' \in Passphrase \cup {Nothing}
    BY <1>3, <2>1
  <2>8. c # NoCmd
    BY <2>3, Nulls
  <2>9. QED
    BY <1>2, <2>3, <2>4, <2>5, <2>6, <2>7, <2>8
<1>6. ASSUME worker' = [worker EXCEPT ![p] = Nothing], cmd' = cmd, ~ (Running(p) /\ cmd[p].waits),
             keyring' \in KnownBy(fresh) \cup {Nothing}, keyring' \in Passphrase \cup {Nothing}
      PROVE  StepKept(p)
  <2>1. Own(cmd[p], Nothing) /\ cmd[p] \in Command \cup {NoCmd}
    BY <1>1, <1>6 DEF TypeOK
  <2>2. CallOK(Nothing, fresh) /\ (cmd[p] # NoCmd => CommandOK(cmd[p], Nothing, fresh))
    BY <1>4, <1>6 DEF CallOK, CommandOK, Running
  <2>3. QED
    BY <1>2, <1>6, <2>1, <2>2
<1>7. ASSUME worker' = [worker EXCEPT ![p] = Nothing], Goto(p, AfterError(p)),
             Running(p), cmd[p].waits, keyring' = keyring
      PROVE  StepKept(p)
  <2>1. Goto(p, AfterError(p))
    BY <1>7
  <2>2. PICK c \in Command :
            /\ cmd' = [cmd EXCEPT ![p] = c]
            /\ c.line = cmd[p].line /\ c.waits = FALSE /\ c.hsm = cmd[p].hsm
            /\ c.blob = cmd[p].blob /\ c.pass = cmd[p].pass /\ c.dk = cmd[p].dk
            /\ Opens(p) => c.at = "prompt"
            /\ Op(p) = "seal" => c.at = "failed"
            /\ Op(p) = "init-machine" => c.at = "clean_vault"
    BY <1>7, <2>1, ErrorSets
  <2>3. CommandOK(c, Nothing, fresh)
    BY <1>4, <1>7, <2>2 DEF CommandOK, PlacesOf, Op, Opens
  <2>4. Own(c, Nothing) /\ CallOK(Nothing, fresh)
    BY <1>1, <1>7, <2>2 DEF TypeOK, CallOK
  <2>5. QED
    BY <1>2, <1>3, <1>7, <2>3, <2>4
<1>8. CASE AnswersNo(p)
  <2>1. worker[p] # Nothing /\ worker' = [worker EXCEPT ![p] = Nothing] /\ UNCHANGED keyring
    BY <1>8 DEF AnswersNo, hostVars
  <2>2. Running(p)
    BY <2>1 DEF TypeInv, CmdOK
  <2>3. CASE cmd[p].waits
    BY <1>7, <1>8, <2>1, <2>2, <2>3 DEF AnswersNo
  <2>4. CASE ~cmd[p].waits
    BY <1>3, <1>6, <1>8, <2>1, <2>2, <2>4 DEF AnswersNo
  <2>5. QED
    BY <2>3, <2>4
<1>9. CASE Answers(p)
  <2> DEFINE call == worker[p]
  <2>1. call # Nothing /\ worker' = [worker EXCEPT ![p] = Nothing]
    BY <1>9 DEF Answers
  <2>2. Running(p) /\ call \in Call /\ CallOK(call, fresh)
    BY <1>1, <2>1 DEF TypeInv, TypeOK, CmdOK
  <2>3. keyring' = IF call.write THEN call.pass ELSE keyring
    BY <1>9 DEF Answers
  <2>4. keyring' \in KnownBy(fresh) \cup {Nothing} /\ keyring' \in Passphrase \cup {Nothing}
    <3>1. CASE call.write
      BY <2>1, <2>2, <2>3, <3>1 DEF CallOK, Call
    <3>2. CASE ~call.write
      BY <1>3, <2>3, <3>2
    <3>3. QED
      BY <3>1, <3>2
  <2>5. CASE ~cmd[p].waits
    <3>1. cmd' = cmd
      BY <1>9, <2>5 DEF Answers
    <3>2. QED
      BY <1>6, <2>1, <2>4, <2>5, <3>1
  <2>6. CASE cmd[p].waits /\ call.write
    <3> DEFINE b == Sealed("keyring", cmd[p].pass)
               c == [cmd[p] EXCEPT !.at = "write", !.waits = FALSE, !.blob = b]
    <3>1. cmd' = [cmd EXCEPT ![p] = c]
      BY <1>9, <2>6 DEF Answers
    <3>2. cmd[p].at = "seal"
      BY <1>4, <2>1, <2>2, <2>6 DEF CommandOK
    <3>3. b \in Blob /\ b.pass = Nothing /\ b # NoBlob
      BY <1>1, Nulls DEF Sealed, Blob, Backend, TypeOK
    <3> HIDE DEF b
    <3>4. /\ c \in Command /\ c.line = cmd[p].line /\ c.at = "write" /\ c.waits = FALSE
          /\ c.hsm = cmd[p].hsm /\ c.blob = b /\ c.pass = cmd[p].pass /\ c.dk = cmd[p].dk
      BY <2>2, <3>3, CmdFields DEF Command, Place
    <3> HIDE DEF c
    <3>5. CommandOK(c, Nothing, fresh) /\ CallOK(Nothing, fresh)
      BY <1>4, <2>2, <3>2, <3>3, <3>4 DEF CommandOK, CallOK, PlacesOf, Op
    <3>6. Own(c, Nothing)
      BY <1>1, <2>1, <3>1, <3>4 DEF TypeOK
    <3>7. QED
      BY <1>2, <2>4, <3>4, <3>5, <3>6
  <2>7. CASE cmd[p].waits /\ ~call.write /\ Found(call)
    <3> DEFINE c == [cmd[p] EXCEPT !.at = "open", !.waits = FALSE, !.pass = keyring]
    <3>1. cmd' = [cmd EXCEPT ![p] = c]
      BY <1>9, <2>7 DEF Answers
    <3>2. cmd[p].at = "unseal"
      BY <1>4, <2>1, <2>2, <2>7 DEF CommandOK
    <3>3. keyring # Nothing /\ keyring \in Passphrase
      BY <1>3, <2>7 DEF Found
    <3>4. /\ c \in Command /\ c.line = cmd[p].line /\ c.at = "open" /\ c.waits = FALSE
          /\ c.hsm = cmd[p].hsm /\ c.blob = cmd[p].blob /\ c.pass = keyring
          /\ c.dk = cmd[p].dk
      BY <2>2, <3>3, CmdFields DEF Command, Place
    <3> HIDE DEF c
    <3>5. CommandOK(c, Nothing, fresh) /\ CallOK(Nothing, fresh)
      BY <1>3, <1>4, <2>2, <3>2, <3>3, <3>4 DEF CommandOK, CallOK, PlacesOf, Op
    <3>6. Own(c, Nothing)
      BY <1>1, <2>1, <3>1, <3>4 DEF TypeOK
    <3>7. QED
      BY <1>2, <2>4, <3>4, <3>5, <3>6
  <2>8. CASE cmd[p].waits /\ ~call.write /\ ~Found(call)
    <3>1. Goto(p, AfterError(p)) /\ keyring' = keyring
      BY <1>9, <2>8 DEF Answers
    <3>2. QED
      BY <1>7, <2>1, <2>2, <2>8, <3>1
  <2>9. QED
    BY <2>5, <2>6, <2>7, <2>8
<1>10. QED
  BY <1>5, <1>8, <1>9

-----------------------------------------------------------------------------
(* The steps that write files.                                             *)

\* What a step of p that writes leaves to show.
LEMMA WriteKept ==
  ASSUME TypeInv, NEW p \in Process, NEW c \in Command, cmd' = [cmd EXCEPT ![p] = c],
         UNCHANGED <<hostVars, worker, runs>>, abandoned' \subseteq 1 .. MaxFresh,
         fresh' \in {fresh, fresh + 1}, fresh' <= MaxFresh, CommandOK(c, worker[p], fresh'),
         vault' \in [Vault -> Contents \cup {NoVault}],
         sealed' \in [Directory -> Blob \cup {NoBlob}],
         bundle' \in [Vault -> (1 .. MaxFresh) \cup {Nothing}],
         \A v \in Vault : vault'[v] # NoVault =>
            vault'[v].dk <= fresh' /\ vault'[v].pass \in KnownBy(fresh'),
         \A d \in Directory : sealed'[d] # NoBlob => sealed'[d].pass \in KnownBy(fresh') \cup {Nothing}
  PROVE  StepKept(p)
<1>1. cmd' \in [Process -> Command \cup {NoCmd}] /\ cmd'[p] = c /\ Frame(p) /\ worker' = worker
  BY DEF TypeInv, TypeOK, Frame
<1>2. fresh \in Nat /\ fresh' \in Nat /\ fresh <= fresh' /\ fresh' \in 0 .. MaxFresh
  BY Bounds DEF TypeInv, TypeOK
<1>3. TypeOK'
  BY <1>1, <1>2 DEF TypeInv, TypeOK, hostVars
<1>4. KnownBy(fresh) \subseteq KnownBy(fresh') /\ CallOK(worker[p], fresh')
  BY <1>2, Later DEF TypeInv, CmdOK
<1>5. DrawnInv'
  BY <1>4 DEF TypeInv, DrawnInv, hostVars
<1>6. Running(p)'
  BY <1>1, Nulls DEF Running
<1>7. CmdOK(p)'
  BY <1>1, <1>4, <1>6 DEF CmdOK
<1>8. QED
  BY <1>1, <1>3, <1>5, <1>7 DEF StepKept

\* Opening, with a passphrase that exists.
LEMMA OpenKept ==
  ASSUME TypeInv, NEW p \in Process, NEW pass \in Passphrase, pass \in KnownBy(fresh),
         NEW m \in Place, Open(p, pass, m),
         \/ At(p, "open") /\ m = "prompt"
         \/ At(p, "prompt") /\ m = "failed"
  PROVE  StepKept(p)
<1> DEFINE v == VaultOf(p)
<1>1. Running(p) /\ UNCHANGED <<sealed, bundle, hostVars, worker, runs, abandoned>> /\ TypeOK /\ DrawnInv
  BY DEF At, Open, TypeInv
<1>2. /\ CommandOK(cmd[p], worker[p], fresh) /\ v \in Vault
      /\ Op(p) \in {"init-machine", "seal", "set", "change-passphrase"}
      /\ cmd[p].hsm \in Backend \cup {Nothing} /\ cmd[p].blob \in Blob \cup {NoBlob}
      /\ cmd[p].pass \in Passphrase \cup {Nothing} /\ cmd[p].dk \in 0 .. MaxFresh
  BY <1>1, CmdFields
<1>3. /\ cmd[p].at \in {"open", "prompt"} /\ cmd[p].waits = FALSE
      /\ Op(p) # "init-machine" /\ (Op(p) = "seal" => cmd[p].hsm # Nothing)
      /\ Op(p) = "seal" => cmd[p].at = "prompt"
  BY <1>1, <1>2, CmdFields DEF At, CommandOK, PlacesOf, Op
<1>4. /\ fresh \in 0 .. MaxFresh /\ MaxFresh \in Nat /\ pass # Nothing
  BY <1>1, Bounds, Nulls DEF TypeOK
<1>5. ASSUME NEW d \in 1 .. MaxFresh, NEW n \in {fresh, fresh + 1}, d <= n,
             cmd' = [cmd EXCEPT ![p].at = AfterOpen(p), ![p].pass = pass, ![p].dk = d]
      PROVE  \E c \in Command : cmd' = [cmd EXCEPT ![p] = c] /\ CommandOK(c, worker[p], n)
  <2> DEFINE a == AfterOpen(p)
             c == [cmd[p] EXCEPT !.at = a, !.pass = pass, !.dk = d]
  <2>1. a \in Place /\ a = IF Op(p) = "seal" THEN "seal" ELSE "edit"
    BY DEF AfterOpen, Place
  <2> HIDE DEF a
  <2>2. cmd' = [cmd EXCEPT ![p] = c]
    BY <1>5 DEF a
  <2>3. d \in 0 .. MaxFresh /\ d # 0
    BY <1>4
  <2>4. /\ c \in Command /\ c.line = cmd[p].line /\ c.at = a /\ c.waits = FALSE
        /\ c.hsm = cmd[p].hsm /\ c.blob = cmd[p].blob /\ c.pass = pass /\ c.dk = d
    BY <1>1, <1>3, <2>1, <2>3, CmdFields DEF Command
  <2> HIDE DEF c
  <2>5. KnownBy(fresh) \subseteq KnownBy(n)
    <3>1. fresh \in Nat /\ n \in Nat /\ fresh <= n
      BY <1>4
    <3>2. QED
      BY <3>1, Later
  <2>6. /\ pass \in KnownBy(n)
        /\ c.blob # NoBlob => c.blob.pass \in KnownBy(n) \cup {Nothing}
    BY <1>2, <2>4, <2>5 DEF CommandOK
  <2>7. d <= n
    BY <1>5
  <2>8. CommandOK(c, worker[p], n)
    BY <1>2, <1>3, <1>4, <2>1, <2>3, <2>4, <2>6, <2>7 DEF CommandOK, PlacesOf, Op
  <2>9. QED
    BY <2>2, <2>4, <2>8
<1>6. CASE /\ vault[v] = NoVault /\ fresh < MaxFresh
           /\ vault' = [vault EXCEPT ![v] = Mint(fresh + 1, pass)]
           /\ cmd' = [cmd EXCEPT ![p].at = AfterOpen(p), ![p].pass = pass, ![p].dk = fresh + 1]
           /\ fresh' = fresh + 1
  <2>1. fresh + 1 \in 1 .. MaxFresh /\ fresh + 1 <= fresh + 1
    BY <1>4, <1>6
  <2>2. PICK c \in Command : cmd' = [cmd EXCEPT ![p] = c] /\ CommandOK(c, worker[p], fresh + 1)
    BY <1>5, <1>6, <2>1
  <2> DEFINE new == Mint(fresh + 1, pass)
  <2>3. new \in Contents /\ new.dk = fresh + 1 /\ new.pass = pass
    BY <2>1 DEF Mint, Contents
  <2> HIDE DEF new
  <2>4. vault' \in [Vault -> Contents \cup {NoVault}]
    BY <1>1, <1>6, <2>3 DEF TypeOK, new
  <2>5. KnownBy(fresh) \subseteq KnownBy(fresh')
    <3>1. fresh \in Nat /\ fresh' \in Nat /\ fresh <= fresh'
      BY <1>4, <1>6
    <3>2. QED
      BY <3>1, Later
  <2>6. ASSUME NEW w \in Vault, vault'[w] # NoVault
        PROVE  vault'[w].dk <= fresh' /\ vault'[w].pass \in KnownBy(fresh')
    <3>1. CASE w = v
      <4>1. vault'[w] = new
        BY <1>1, <1>2, <1>6, <3>1 DEF TypeOK, new
      <4>2. QED
        BY <1>4, <1>6, <2>3, <2>5, <4>1
    <3>2. CASE w # v
      <4>1. vault'[w] = vault[w]
        BY <1>1, <1>6, <3>2 DEF TypeOK
      <4>2. vault[w] \in Contents /\ vault[w].dk \in 1 .. MaxFresh
        BY <1>1, <2>6, <4>1 DEF TypeOK, Contents
      <4>3. vault[w].dk <= fresh /\ vault[w].pass \in KnownBy(fresh)
        BY <1>1, <2>6, <4>1 DEF DrawnInv
      <4>4. QED
        BY <1>4, <1>6, <2>5, <4>1, <4>2, <4>3
    <3>3. QED
      BY <3>1, <3>2
  <2>7. /\ sealed' \in [Directory -> Blob \cup {NoBlob}]
        /\ bundle' \in [Vault -> (1 .. MaxFresh) \cup {Nothing}]
        /\ \A d \in Directory : sealed'[d] # NoBlob => sealed'[d].pass \in KnownBy(fresh') \cup {Nothing}
    BY <1>1, <2>5 DEF TypeOK, DrawnInv
  <2>8. fresh' \in {fresh, fresh + 1} /\ fresh' <= MaxFresh
    BY <1>4, <1>6
  <2>10. abandoned' \subseteq 1 .. MaxFresh
    BY <1>1 DEF TypeOK
  <2>9. QED
    BY <1>1, <1>6, <2>2, <2>4, <2>6, <2>7, <2>8, <2>10, WriteKept
<1>7. CASE /\ vault[v] # NoVault
           /\ cmd' = [cmd EXCEPT ![p].at = AfterOpen(p), ![p].pass = pass, ![p].dk = vault[v].dk]
           /\ UNCHANGED <<vault, fresh>>
  <2> DEFINE k == vault[v].dk
  <2>1. k \in 1 .. MaxFresh /\ k <= fresh
    BY <1>1, <1>2, <1>7 DEF TypeOK, Contents, DrawnInv
  <2>2. cmd' = [cmd EXCEPT ![p].at = AfterOpen(p), ![p].pass = pass, ![p].dk = k]
    BY <1>7
  <2> HIDE DEF k
  <2>3. PICK c \in Command : cmd' = [cmd EXCEPT ![p] = c] /\ CommandOK(c, worker[p], fresh)
    BY <1>5, <2>1, <2>2
  <2>4. UNCHANGED <<files, hostVars, counts, worker>>
    BY <1>1, <1>7 DEF files, counts
  <2>5. QED
    BY <2>3, <2>4, CommandKept
<1>8. CASE Goto(p, m) /\ UNCHANGED <<vault, fresh>>
  <2>1. PICK c \in Command :
            /\ cmd' = [cmd EXCEPT ![p] = c]
            /\ c.line = cmd[p].line /\ c.at = m /\ c.waits = FALSE /\ c.hsm = cmd[p].hsm
            /\ c.blob = cmd[p].blob /\ c.pass = cmd[p].pass /\ c.dk = cmd[p].dk
    BY <1>1, <1>8, GotoSets
  <2>2. CommandOK(c, worker[p], fresh)
    BY <1>2, <1>3, <2>1 DEF CommandOK, PlacesOf, Op, At
  <2>3. UNCHANGED <<files, hostVars, counts, worker>>
    BY <1>1, <1>8 DEF files, counts
  <2>4. QED
    BY <2>1, <2>2, <2>3, CommandKept
<1>9. QED
  BY <1>6, <1>7, <1>8 DEF Open

\* What a step leaves of the files: typed, and of passphrases that exist.
FilesKept ==
    /\ fresh' \in {fresh, fresh + 1} /\ fresh' <= MaxFresh
    /\ vault' \in [Vault -> Contents \cup {NoVault}]
    /\ sealed' \in [Directory -> Blob \cup {NoBlob}]
    /\ bundle' \in [Vault -> (1 .. MaxFresh) \cup {Nothing}]
    /\ \A v \in Vault : vault'[v] # NoVault =>
          vault'[v].dk <= fresh' /\ vault'[v].pass \in KnownBy(fresh')
    /\ \A d \in Directory : sealed'[d] # NoBlob => sealed'[d].pass \in KnownBy(fresh') \cup {Nothing}

LEMMA FilesAreKept ==
  ASSUME TypeInv, fresh' \in {fresh, fresh + 1}, fresh' <= MaxFresh,
         \/ vault' = vault
         \/ \E v \in Vault, b \in Contents \cup {NoVault} :
               /\ vault' = [vault EXCEPT ![v] = b]
               /\ b # NoVault => b.dk <= fresh' /\ b.pass \in KnownBy(fresh'),
         \/ sealed' = sealed
         \/ \E d \in Directory, b \in Blob \cup {NoBlob} :
               /\ sealed' = [sealed EXCEPT ![d] = b]
               /\ b # NoBlob => b.pass \in KnownBy(fresh') \cup {Nothing},
         \/ bundle' = bundle
         \/ \E v \in Vault, b \in (1 .. MaxFresh) \cup {Nothing} :
               bundle' = [bundle EXCEPT ![v] = b]
  PROVE  FilesKept
<1>1. TypeOK /\ DrawnInv
  BY DEF TypeInv
<1>2. fresh \in Nat /\ fresh' \in Nat /\ fresh <= fresh'
  BY <1>1 DEF TypeOK
<1>3. KnownBy(fresh) \subseteq KnownBy(fresh')
  BY <1>2, Later
<1>4. ASSUME NEW v \in Vault, vault[v] # NoVault
      PROVE  vault[v].dk <= fresh' /\ vault[v].pass \in KnownBy(fresh')
  <2>1. vault[v].dk \in Nat
    BY <1>1, <1>4 DEF TypeOK, Contents
  <2>2. vault[v].dk <= fresh /\ vault[v].pass \in KnownBy(fresh)
    BY <1>1, <1>4 DEF DrawnInv
  <2>3. QED
    BY <1>2, <1>3, <2>1, <2>2
<1>5. /\ vault' \in [Vault -> Contents \cup {NoVault}]
      /\ \A v \in Vault : vault'[v] # NoVault =>
            vault'[v].dk <= fresh' /\ vault'[v].pass \in KnownBy(fresh')
  <2>1. CASE vault' = vault
    BY <1>1, <1>4, <2>1 DEF TypeOK
  <2>2. CASE vault' # vault
    <3>1. PICK v \in Vault, b \in Contents \cup {NoVault} :
              /\ vault' = [vault EXCEPT ![v] = b]
              /\ b # NoVault => b.dk <= fresh' /\ b.pass \in KnownBy(fresh')
      BY <2>2
    <3>2. vault' \in [Vault -> Contents \cup {NoVault}]
      BY <1>1, <3>1 DEF TypeOK
    <3>3. \A w \in Vault : vault'[w] = IF w = v THEN b ELSE vault[w]
      BY <1>1, <3>1 DEF TypeOK
    <3>4. QED
      BY <1>4, <3>1, <3>2, <3>3
  <2>3. QED
    BY <2>1, <2>2
<1>6. /\ sealed' \in [Directory -> Blob \cup {NoBlob}]
      /\ \A d \in Directory : sealed'[d] # NoBlob =>
            sealed'[d].pass \in KnownBy(fresh') \cup {Nothing}
  <2>1. \A d \in Directory : sealed[d] # NoBlob =>
           sealed[d].pass \in KnownBy(fresh') \cup {Nothing}
    BY <1>1, <1>3 DEF DrawnInv
  <2>2. CASE sealed' = sealed
    BY <1>1, <2>1, <2>2 DEF TypeOK
  <2>3. CASE sealed' # sealed
    <3>1. PICK d \in Directory, b \in Blob \cup {NoBlob} :
              /\ sealed' = [sealed EXCEPT ![d] = b]
              /\ b # NoBlob => b.pass \in KnownBy(fresh') \cup {Nothing}
      BY <2>3
    <3>2. sealed' \in [Directory -> Blob \cup {NoBlob}]
      BY <1>1, <3>1 DEF TypeOK
    <3>3. \A e \in Directory : sealed'[e] = IF e = d THEN b ELSE sealed[e]
      BY <1>1, <3>1 DEF TypeOK
    <3>4. QED
      BY <2>1, <3>1, <3>2, <3>3
  <2>4. QED
    BY <2>2, <2>3
<1>7. bundle' \in [Vault -> (1 .. MaxFresh) \cup {Nothing}]
  BY <1>1 DEF TypeOK
<1>8. QED
  BY <1>5, <1>6, <1>7 DEF FilesKept

\* A step that only moves the command on, and writes.
LEMMA MoveKept ==
  ASSUME TypeInv, NEW p \in Process, Running(p),
         NEW a \in {"seal", "bundle", "clean_vault", "clean_seal", "clean_bundle", "prompt",
                    "done", "failed"},
         a \in PlacesOf(Op(p)), Goto(p, a),
         a = "prompt" => Op(p) # "seal",
         a = "seal" => cmd[p].hsm # Nothing /\ cmd[p].pass # Nothing /\ cmd[p].dk # 0,
         a = "bundle" => cmd[p].dk # 0,
         UNCHANGED <<hostVars, worker, runs>>, abandoned' \subseteq 1 .. MaxFresh, FilesKept
  PROVE  StepKept(p)
<1>1. a \in Place
  BY DEF Place
<1>2. PICK c \in Command :
          /\ cmd' = [cmd EXCEPT ![p] = c]
          /\ c.line = cmd[p].line /\ c.at = a /\ c.waits = FALSE /\ c.hsm = cmd[p].hsm
          /\ c.blob = cmd[p].blob /\ c.pass = cmd[p].pass /\ c.dk = cmd[p].dk
  BY <1>1, GotoSets
<1>3. /\ CommandOK(cmd[p], worker[p], fresh) /\ cmd[p].dk \in Nat
  BY CmdFields
<1>4. fresh \in Nat /\ fresh' \in Nat /\ fresh <= fresh'
  BY DEF FilesKept, TypeInv, TypeOK
<1>5. CommandOK(cmd[p], worker[p], fresh')
  BY <1>3, <1>4, Later
<1>6. CommandOK(c, worker[p], fresh')
  BY <1>2, <1>5 DEF CommandOK, Op
<1>7. QED
  BY <1>2, <1>6, WriteKept DEF FilesKept

\* open_vault with a backend or with a human, and the edit that follows.
LEMMA VaultKept ==
  ASSUME TypeInv, NEW p \in Process, OpenSealed(p) \/ Prompt(p) \/ Edit(p)
  PROVE  StepKept(p)
<1>1. TypeOK /\ DrawnInv /\ fresh \in Nat /\ fresh <= MaxFresh
  BY Bounds DEF TypeInv, TypeOK
<1>2. CASE OpenSealed(p)
  <2>1. At(p, "open") /\ Running(p) /\ Open(p, cmd[p].pass, "prompt")
    BY <1>2 DEF OpenSealed, At
  <2>2. cmd[p].pass \in Passphrase /\ cmd[p].pass \in KnownBy(fresh)
    BY <2>1, CmdFields DEF CommandOK, At
  <2>3. QED
    BY <2>1, <2>2, OpenKept DEF Place
<1>3. CASE Prompt(p)
  <2>1. PICK pass \in Typed : Open(p, pass, "failed")
    BY <1>3 DEF Prompt
  <2>2. At(p, "prompt") /\ pass \in Passphrase /\ pass \in KnownBy(fresh)
    BY <1>3 DEF Prompt, Passphrase, KnownBy
  <2>3. QED
    BY <2>1, <2>2, OpenKept DEF Place
<1>4. CASE Edit(p)
  <2> DEFINE v == VaultOf(p)
  <2>1. /\ At(p, "edit") /\ Running(p) /\ UNCHANGED <<sealed, bundle, hostVars, counts, worker>>
    BY <1>4 DEF Edit, At
  <2>2. abandoned' \subseteq 1 .. MaxFresh
    BY <1>1, <2>1 DEF counts, TypeOK
  <2>3. /\ v \in Vault /\ Op(p) \in {"set", "change-passphrase"}
        /\ cmd[p].line \in UserLine
    <3>1. "edit" \in PlacesOf(Op(p)) /\ Op(p) \in {"init-machine", "seal", "set", "change-passphrase"}
      BY <2>1, CmdFields DEF CommandOK, At, Op
    <3>2. QED
      BY <2>1, <3>1, CmdFields DEF PlacesOf
  <2>4. "done" \in PlacesOf(Op(p)) /\ "failed" \in PlacesOf(Op(p))
    BY <2>3 DEF PlacesOf
  <2>5. CASE Goto(p, "failed") /\ UNCHANGED vault
    <3>1. FilesKept
      BY <1>1, <2>1, <2>5, FilesAreKept DEF counts
    <3>2. QED
      BY <2>1, <2>4, <2>5, <3>1, <2>2, MoveKept DEF counts
  <2>6. CASE /\ SameVault(p) /\ Goto(p, "done")
             /\ vault' = CASE Op(p) = "set" -> [vault EXCEPT ![v].creds = @ \cup {cmd[p].line.cred}]
                           [] Op(p) = "change-passphrase" ->
                                  [vault EXCEPT ![v].pass = cmd[p].line.pass]
    <3>1. /\ vault[v] \in Contents /\ vault[v].dk <= fresh /\ vault[v].pass \in KnownBy(fresh)
          /\ vault[v].pass \in Passphrase
      BY <1>1, <2>3, <2>6 DEF SameVault, TypeOK, DrawnInv, Contents
    <3>2. \E b \in Contents : /\ vault' = [vault EXCEPT ![v] = b]
                              /\ b.dk <= fresh /\ b.pass \in KnownBy(fresh)
      <4>1. CASE Op(p) = "set"
        <5> DEFINE b == [vault[v] EXCEPT !.creds = @ \cup {cmd[p].line.cred}]
        <5>1. cmd[p].line.cred \in Credential
          BY <2>3, <4>1 DEF UserLine, Op
        <5>2. b \in Contents /\ b.dk = vault[v].dk /\ b.pass = vault[v].pass
          BY <3>1, <5>1 DEF Contents
        <5>3. vault' = [vault EXCEPT ![v] = b]
          BY <2>6, <4>1
        <5> HIDE DEF b
        <5>4. QED
          BY <3>1, <5>2, <5>3
      <4>2. CASE Op(p) = "change-passphrase"
        <5> DEFINE b == [vault[v] EXCEPT !.pass = cmd[p].line.pass]
        <5>1. cmd[p].line.pass \in Typed
          BY <2>3, <4>2 DEF UserLine, Op
        <5>2. b \in Contents /\ b.dk = vault[v].dk /\ b.pass \in Typed
          BY <3>1, <5>1 DEF Contents, Passphrase
        <5>3. vault' = [vault EXCEPT ![v] = b]
          BY <2>6, <4>2
        <5> HIDE DEF b
        <5>4. QED
          BY <3>1, <5>2, <5>3 DEF KnownBy
      <4>3. QED
        BY <2>3, <4>1, <4>2
    <3>3. fresh' = fresh /\ sealed' = sealed /\ bundle' = bundle
      BY <2>1 DEF counts
    <3>4. FilesKept
      BY <1>1, <2>3, <3>2, <3>3, FilesAreKept
    <3>5. QED
      BY <2>1, <2>4, <2>6, <3>4, <2>2, MoveKept DEF counts
  <2>7. QED
    BY <1>4, <2>5, <2>6 DEF Edit
<1>5. QED
  BY <1>2, <1>3, <1>4

\* The steps of init-machine, two of which seal has too.
LEMMA MachineKept ==
  ASSUME TypeInv, NEW p \in Process,
         Create(p) \/ Phrase(p) \/ WriteSealed(p) \/ WriteBundle(p) \/ Clean(p)
  PROVE  StepKept(p)
<1> DEFINE v == VaultOf(p)
<1>1. Running(p) /\ UNCHANGED <<hostVars, worker, runs>> /\ TypeOK /\ DrawnInv
  BY DEF Create, Phrase, WriteSealed, WriteBundle, Clean, At, counts, TypeInv
<1>14. abandoned' \subseteq 1 .. MaxFresh
  <2>1. abandoned \subseteq 1 .. MaxFresh /\ Minted(p) \subseteq 1 .. MaxFresh
    BY <1>1, CmdFields, Bounds DEF TypeOK, Minted
  <2>2. abandoned' = abandoned \/ abandoned' = abandoned \cup Minted(p)
    BY DEF Create, Phrase, WriteSealed, WriteBundle, Clean, counts
  <2>3. QED
    BY <2>1, <2>2
<1>2. /\ CommandOK(cmd[p], worker[p], fresh) /\ v \in Vault /\ Dir(p) \in Directory
      /\ Op(p) \in {"init-machine", "seal", "set", "change-passphrase"}
      /\ cmd[p].hsm \in Backend \cup {Nothing} /\ cmd[p].blob \in Blob \cup {NoBlob}
      /\ cmd[p].pass \in Passphrase \cup {Nothing} /\ cmd[p].dk \in 0 .. MaxFresh
  BY <1>1, CmdFields
<1>3. /\ cmd[p].at \in {"create", "phrase", "write", "bundle", "clean_vault", "clean_seal",
                        "clean_bundle"}
      /\ cmd[p].waits = FALSE
  BY <1>1, CmdFields DEF Create, Phrase, WriteSealed, WriteBundle, Clean, At
<1>4. Op(p) = "init-machine" \/ (Op(p) = "seal" /\ WriteSealed(p))
  <2>1. cmd[p].at \in PlacesOf(Op(p))
    BY <1>2 DEF CommandOK, Op
  <2>2. cmd[p].at = "write" => WriteSealed(p)
    BY DEF Create, Phrase, WriteSealed, WriteBundle, Clean, At
  <2>3. Op(p) = "seal" => cmd[p].at = "write"
    BY <1>3, <2>1 DEF PlacesOf
  <2>4. Op(p) \notin {"set", "change-passphrase"}
    BY <1>3, <2>1 DEF PlacesOf
  <2>5. QED
    BY <1>2, <2>2, <2>3, <2>4
<1>5. fresh \in Nat /\ fresh <= MaxFresh /\ MaxFresh \in Nat
  BY <1>1, Bounds DEF TypeOK
\* An error of one of these steps.
<1>6. ASSUME Goto(p, AfterError(p)), FilesKept
      PROVE  StepKept(p)
  <2>1. PICK a \in Place : /\ a = AfterError(p)
                           /\ Op(p) = "seal" => a = "failed"
                           /\ Op(p) = "init-machine" => a = "clean_vault"
    BY <1>1, ErrorPlace
  <2>2. /\ Goto(p, a) /\ a \in PlacesOf(Op(p)) /\ a \in {"failed", "clean_vault"}
    BY <1>4, <1>6, <2>1 DEF PlacesOf
  <2>3. QED
    BY <1>1, <1>6, <2>2, <1>14, MoveKept
<1>7. CASE Create(p)
  <2> DEFINE n == fresh + 1
  <2>1. /\ At(p, "create") /\ fresh < MaxFresh /\ fresh' = n
        /\ UNCHANGED <<sealed, bundle>>
    BY <1>7 DEF Create
  <2>2. n \in 1 .. MaxFresh /\ n \in Nat
    BY <1>5, <2>1
  <2>3. CASE Goto(p, AfterError(p)) /\ UNCHANGED vault
    <3>1. FilesKept
      BY <1>1, <2>1, <2>2, <2>3, FilesAreKept
    <3>2. QED
      BY <1>6, <2>3, <3>1
  <2>4. CASE /\ vault[v] = NoVault
             /\ vault' = [vault EXCEPT ![v] = Mint(n, n)]
             /\ cmd' = [cmd EXCEPT ![p].at = "phrase", ![p].pass = n, ![p].dk = n]
    <3> DEFINE c == [cmd[p] EXCEPT !.at = "phrase", !.pass = n, !.dk = n]
               new == Mint(n, n)
    <3>1. cmd' = [cmd EXCEPT ![p] = c] /\ vault' = [vault EXCEPT ![v] = new]
      BY <2>4
    <3>2. /\ n \in Passphrase /\ n \in KnownBy(n) /\ n # 0 /\ n # Nothing /\ n \in 0 .. MaxFresh
          /\ fresh <= n
      BY <1>5, <2>2, Bounds DEF Passphrase, KnownBy
    <3>3. new \in Contents /\ new.dk = n /\ new.pass = n
      BY <2>2, <3>2 DEF Mint, Contents
    <3> HIDE DEF n
    <3>4. /\ c \in Command /\ c.line = cmd[p].line /\ c.at = "phrase" /\ c.waits = FALSE
          /\ c.hsm = cmd[p].hsm /\ c.blob = cmd[p].blob /\ c.pass = n /\ c.dk = n
      <4>1. cmd[p] \in Command /\ cmd[p].waits = FALSE
        BY <1>1, <1>3, CmdFields
      <4>2. QED
        BY <3>2, <4>1 DEF Command, Place
    <3> HIDE DEF c, new
    <3>5. CommandOK(cmd[p], worker[p], n)
      BY <1>2, <1>5, <2>2, <3>2, Later
    <3>6. Op(p) = "init-machine" /\ cmd[p].hsm # Nothing
      BY <1>2, <1>4, <2>1 DEF CommandOK, At, WriteSealed
    <3>7. CommandOK(c, worker[p], n)
      BY <3>2, <3>4, <3>5, <3>6, <2>2 DEF CommandOK, PlacesOf, Op
    <3>8. FilesKept
      <4>1. fresh' \in {fresh, fresh + 1} /\ fresh' <= MaxFresh
        BY <1>5, <2>1 DEF n
      <4>2. new.dk <= fresh' /\ new.pass \in KnownBy(fresh')
        BY <2>1, <2>2, <3>2, <3>3
      <4>3. QED
        BY <1>2, <2>1, <3>1, <3>3, <4>1, <4>2, FilesAreKept
    <3>9. QED
      BY <1>1, <2>1, <3>1, <3>4, <3>7, <3>8, <1>14, WriteKept DEF FilesKept
  <2>5. QED
    BY <1>7, <2>3, <2>4 DEF Create
<1>8. CASE Phrase(p)
  <2>1. At(p, "phrase") /\ fresh' = fresh /\ UNCHANGED <<sealed, bundle>>
    BY <1>8 DEF Phrase, counts
  <2>2. /\ Op(p) = "init-machine" /\ cmd[p].hsm # Nothing /\ cmd[p].pass # Nothing
        /\ cmd[p].dk # 0
    BY <1>2, <1>4, <2>1 DEF CommandOK, At, WriteSealed
  <2>3. CASE SameVault(p) /\ vault' = [vault EXCEPT ![v].rec = TRUE] /\ Goto(p, "seal")
    <3> DEFINE b == [vault[v] EXCEPT !.rec = TRUE]
    <3>1. /\ vault[v] \in Contents /\ vault[v].dk <= fresh /\ vault[v].pass \in KnownBy(fresh)
      BY <1>1, <1>2, <2>3 DEF SameVault, TypeOK, DrawnInv
    <3>2. b \in Contents /\ b.dk = vault[v].dk /\ b.pass = vault[v].pass
      BY <3>1 DEF Contents
    <3>3. vault' = [vault EXCEPT ![v] = b]
      BY <2>3
    <3> HIDE DEF b
    <3>4. FilesKept
      BY <1>1, <1>2, <1>5, <2>1, <3>1, <3>2, <3>3, FilesAreKept
    <3>5. "seal" \in PlacesOf(Op(p))
      BY <2>2 DEF PlacesOf
    <3>6. QED
      BY <1>1, <2>2, <2>3, <3>4, <3>5, <1>14, MoveKept
  <2>4. CASE Goto(p, AfterError(p)) /\ UNCHANGED vault
    <3>1. FilesKept
      BY <1>1, <1>5, <2>1, <2>4, FilesAreKept
    <3>2. QED
      BY <1>6, <2>4, <3>1
  <2>5. QED
    BY <1>8, <2>3, <2>4 DEF Phrase
<1>9. CASE WriteSealed(p)
  <2>1. At(p, "write") /\ fresh' = fresh /\ UNCHANGED <<vault, bundle>>
    BY <1>9 DEF WriteSealed, counts
  <2>2. Op(p) = "init-machine" => cmd[p].dk # 0
    BY <1>2, <2>1 DEF CommandOK, At, Op
  <2>3. CASE /\ sealed' = [sealed EXCEPT ![Dir(p)] = cmd[p].blob]
             /\ Goto(p, IF Op(p) = "seal" THEN "done" ELSE "bundle")
    <3>1. cmd[p].blob # NoBlob => cmd[p].blob.pass \in KnownBy(fresh) \cup {Nothing}
      BY <1>2 DEF CommandOK
    <3>2. FilesKept
      BY <1>1, <1>2, <1>5, <2>1, <2>3, <3>1, FilesAreKept
    <3>3. CASE Op(p) = "seal"
      <4>1. Goto(p, "done") /\ "done" \in PlacesOf(Op(p))
        BY <2>3, <3>3 DEF PlacesOf
      <4>2. QED
        BY <1>1, <3>2, <4>1, <1>14, MoveKept
    <3>4. CASE Op(p) = "init-machine"
      <4>1. Goto(p, "bundle") /\ "bundle" \in PlacesOf(Op(p))
        BY <2>3, <3>4 DEF PlacesOf
      <4>2. QED
        BY <1>1, <2>2, <3>2, <3>4, <4>1, <1>14, MoveKept
    <3>5. QED
      BY <1>4, <3>3, <3>4
  <2>4. CASE Goto(p, AfterError(p)) /\ UNCHANGED sealed
    <3>1. FilesKept
      BY <1>1, <1>5, <2>1, <2>4, FilesAreKept
    <3>2. QED
      BY <1>6, <2>4, <3>1
  <2>5. QED
    BY <1>9, <2>3, <2>4 DEF WriteSealed
<1>10. CASE WriteBundle(p)
  <2>1. At(p, "bundle") /\ fresh' = fresh /\ UNCHANGED <<vault, sealed>>
    BY <1>10 DEF WriteBundle, counts
  <2>2. cmd[p].dk \in 1 .. MaxFresh /\ Op(p) = "init-machine"
    BY <1>2, <1>4, <2>1, <1>5 DEF CommandOK, At, WriteSealed
  <2>3. CASE bundle' = [bundle EXCEPT ![v] = cmd[p].dk] /\ Goto(p, "done")
    <3>1. FilesKept
      BY <1>1, <1>2, <1>5, <2>1, <2>2, <2>3, FilesAreKept
    <3>2. "done" \in PlacesOf(Op(p))
      BY <2>2 DEF PlacesOf
    <3>3. QED
      BY <1>1, <2>3, <3>1, <3>2, <1>14, MoveKept
  <2>4. CASE UNCHANGED bundle /\ Goto(p, AfterError(p))
    <3>1. FilesKept
      BY <1>1, <1>5, <2>1, <2>4, FilesAreKept
    <3>2. QED
      BY <1>6, <2>4, <3>1
  <2>5. QED
    BY <1>10, <2>3, <2>4 DEF WriteBundle
<1>11. CASE Clean(p)
  <2>1. fresh' = fresh /\ Op(p) = "init-machine"
    BY <1>4, <1>11 DEF Clean, WriteSealed, At
  <2>2. PICK a \in {"clean_seal", "clean_bundle", "failed"} :
            /\ Goto(p, a)
            /\ vault' = vault \/ vault' = [vault EXCEPT ![v] = NoVault]
            /\ sealed' = sealed \/ sealed' = [sealed EXCEPT ![Dir(p)] = NoBlob]
            /\ bundle' = bundle \/ bundle' = [bundle EXCEPT ![v] = Nothing]
    BY <1>11 DEF Clean
  <2>3. a \in PlacesOf(Op(p))
    BY <2>1 DEF PlacesOf
  <2>4. FilesKept
    BY <1>1, <1>2, <1>5, <2>1, <2>2, FilesAreKept
  <2>5. QED
    BY <1>1, <2>2, <2>3, <2>4, <1>14, MoveKept
<1>12. QED
  BY <1>7, <1>8, <1>9, <1>10, <1>11

-----------------------------------------------------------------------------
(* Every step.                                                             *)

LEMMA RunKept ==
  ASSUME TypeInv, NEW p \in Process, NEW line \in Line, Run(p, line)
  PROVE  StepKept(p)
<1> DEFINE a == Entry(line.op)
           c == [line |-> line, at |-> a, hsm |-> Nothing,
                 waits |-> FALSE, blob |-> NoBlob, pass |-> Nothing, dk |-> 0]
<1>1. /\ cmd' = [cmd EXCEPT ![p] = c] /\ runs' = runs + 1 /\ runs < MaxRuns /\ ~Running(p)
      /\ UNCHANGED <<files, hostVars, fresh, abandoned, worker>>
  BY DEF Run
<1>2. /\ a \in PlacesOf(line.op) /\ a \in {"resolve", "check", "exists"}
  BY DEF Entry, PlacesOf
<1>3. MaxFresh \in Nat /\ MaxRuns \in Nat /\ fresh \in 0 .. MaxFresh /\ runs \in 0 .. MaxRuns
  BY Bounds DEF TypeInv, TypeOK
<1> HIDE DEF a
<1>4. /\ c \in Command /\ c.line = line /\ c.at = a /\ c.hsm = Nothing /\ c.waits = FALSE
      /\ c.blob = NoBlob /\ c.pass = Nothing /\ c.dk = 0
  BY <1>2, <1>3 DEF Command, Place
<1> HIDE DEF c
<1>5. CommandOK(c, worker[p], fresh)
  BY <1>2, <1>3, <1>4 DEF CommandOK
<1>6. /\ cmd' \in [Process -> Command \cup {NoCmd}] /\ cmd'[p] = c /\ Frame(p)
  BY <1>1, <1>4 DEF TypeInv, TypeOK, Frame
<1>7. runs' \in 0 .. MaxRuns
  BY <1>1, <1>3
<1>8. TypeOK' /\ DrawnInv'
  BY <1>1, <1>6, <1>7 DEF TypeInv, TypeOK, DrawnInv, files, hostVars
<1>9. CmdOK(p)'
  <2>1. Running(p)'
    BY <1>4, <1>6, Nulls DEF Running
  <2>2. QED
    BY <1>1, <1>5, <1>6, <2>1 DEF TypeInv, CmdOK
<1>10. QED
  BY <1>1, <1>6, <1>8, <1>9 DEF StepKept

LEMMA EndKept ==
  ASSUME TypeInv, NEW p \in Process, Exit(p) \/ Kill(p)
  PROVE  StepKept(p)
<1>1. /\ End(p) /\ Running(p)
      /\ \/ abandoned' = abandoned
         \/ Op(p) = "init-machine" /\ cmd[p].dk # 0 /\ abandoned' = abandoned \cup {cmd[p].dk}
  <2>1. Exit(p) => End(p) /\ Running(p) /\ abandoned' = abandoned
    BY DEF Exit, At
  <2>2. Kill(p) => /\ End(p) /\ Running(p)
                   /\ \/ abandoned' = abandoned
                      \/ Op(p) = "init-machine" /\ cmd[p].dk # 0 /\ abandoned' = abandoned \cup {cmd[p].dk}
    BY DEF Kill, Minted
  <2>3. QED
    BY <2>1, <2>2
<1>2. /\ cmd' = [cmd EXCEPT ![p] = NoCmd] /\ worker' = [worker EXCEPT ![p] = Nothing]
      /\ UNCHANGED <<files, hostVars, fresh, runs>>
  BY <1>1 DEF End
<1>3. /\ cmd' \in [Process -> Command \cup {NoCmd}] /\ cmd'[p] = NoCmd
      /\ worker' \in [Process -> Call \cup {Nothing}] /\ worker'[p] = Nothing /\ Frame(p)
  BY <1>2 DEF TypeInv, TypeOK, Frame
<1>4. abandoned' \subseteq 1 .. MaxFresh
  <2>1. abandoned \subseteq 1 .. MaxFresh
    BY DEF TypeInv, TypeOK
  <2>2. CASE abandoned' = abandoned
    BY <2>1, <2>2
  <2>3. CASE cmd[p].dk # 0 /\ abandoned' = abandoned \cup {cmd[p].dk}
    <3>1. cmd[p].dk \in 0 .. MaxFresh /\ MaxFresh \in Nat
      BY <1>1, CmdFields, Bounds
    <3>2. cmd[p].dk \in 1 .. MaxFresh
      BY <2>3, <3>1
    <3>3. QED
      BY <2>1, <2>3, <3>2
  <2>4. QED
    BY <1>1, <2>2, <2>3
<1>5. TypeOK' /\ DrawnInv'
  BY <1>2, <1>3, <1>4 DEF TypeInv, TypeOK, DrawnInv, files, hostVars
<1>6. CmdOK(p)'
  BY <1>3 DEF CmdOK, Running, CallOK
<1>7. QED
  BY <1>2, <1>3, <1>5, <1>6 DEF StepKept

LEMMA FirmwareKept ==
  ASSUME TypeInv, FirmwareUpdate
  PROVE  TypeInv'
<1>1. /\ firmware' = firmware + 1 /\ firmware < MaxFirmware
      /\ UNCHANGED <<files, keyring, counts, cmd, worker>>
  BY DEF FirmwareUpdate
<1>2. firmware' \in 0 .. MaxFirmware
  BY <1>1, Bounds DEF TypeInv, TypeOK
<1>3. TypeOK' /\ DrawnInv'
  BY <1>1, <1>2 DEF TypeInv, TypeOK, DrawnInv, files, counts
<1>4. ASSUME NEW p \in Process
      PROVE  CmdOK(p)'
  BY <1>1 DEF TypeInv, CmdOK, Running, counts
<1>5. QED
  BY <1>3, <1>4 DEF TypeInv

LEMMA TypeInit == Init => TypeInv
<1> SUFFICES ASSUME Init
             PROVE  TypeInv
  OBVIOUS
<1>1. MaxFresh \in Nat /\ MaxRuns \in Nat /\ MaxFirmware \in Nat
  BY Bounds
<1>2. LeftBehind \subseteq Blob /\ \A b \in LeftBehind : b.pass \in Typed \cup {Nothing}
  BY <1>1 DEF LeftBehind, Blob, Backend, Passphrase
<1>3. TypeOK
  BY <1>1, <1>2 DEF Init, TypeOK, Passphrase
<1>4. DrawnInv
  BY <1>2 DEF Init, DrawnInv, KnownBy
<1>5. \A p \in Process : CmdOK(p)
  BY DEF Init, CmdOK, CallOK, Running
<1>6. QED
  BY <1>3, <1>4, <1>5 DEF TypeInv

LEMMA TypeStep == TypeInv /\ [Next]_vars => TypeInv'
<1> SUFFICES ASSUME TypeInv, [Next]_vars
             PROVE  TypeInv'
  OBVIOUS
<1>1. ASSUME NEW p \in Process,
             \/ \E line \in Line : Run(p, line)
             \/ Step(p) \/ Prompt(p) \/ Answers(p) \/ AnswersNo(p) \/ Kill(p)
      PROVE  TypeInv'
  <2>1. StepKept(p)
    BY <1>1, RunKept, LookKept, VaultKept, BackendKept, KeyringKept, MachineKept, EndKept
       DEF Step
  <2>2. QED
    BY <2>1, KeptIsEnough
<1>2. CASE FirmwareUpdate
  BY <1>2, FirmwareKept
<1>3. CASE UNCHANGED vars
  <2>1. UNCHANGED <<vault, sealed, bundle, keyring, firmware, fresh, runs, abandoned, cmd, worker>>
    BY <1>3 DEF vars, files, hostVars, counts
  <2>2. TypeOK' /\ DrawnInv'
    BY <2>1 DEF TypeInv, TypeOK, DrawnInv
  <2>3. ASSUME NEW p \in Process
        PROVE  CmdOK(p)'
    BY <2>1 DEF TypeInv, CmdOK, Running
  <2>4. QED
    BY <2>2, <2>3 DEF TypeInv
<1>4. QED
  BY <1>1, <1>2, <1>3 DEF Next

LEMMA TypeAlways == Spec => []TypeInv
<1>1. QED
  BY TypeInit, TypeStep, PTL DEF Spec

\* The files, the keyring, every command and every keyring call have the shape the code
\* gives them, whatever the backends answer (main.rs, hsm/).
THEOREM TypeCorrect == Spec => []TypeOK
<1>1. TypeInv => TypeOK
  BY DEF TypeInv
<1>2. QED
  BY <1>1, TypeAlways, PTL

-----------------------------------------------------------------------------
(* No backend stops open_vault.                                            *)

LEMMA GotoPlace ==
  ASSUME TypeInv, NEW p \in Process, Running(p), NEW a \in Place, Goto(p, a)
  PROVE  cmd'[p].at = a
<1>1. PICK c \in Command : cmd' = [cmd EXCEPT ![p] = c] /\ c.at = a
  BY GotoSets
<1>2. QED
  BY <1>1 DEF TypeInv, TypeOK

LEMMA ErrorAsks ==
  ASSUME TypeInv, NEW p \in Process, Running(p), Opens(p), Goto(p, AfterError(p))
  PROVE  cmd'[p].at = "prompt"
<1>1. PICK c \in Command : cmd' = [cmd EXCEPT ![p] = c] /\ c.at = "prompt"
  BY ErrorSets
<1>2. QED
  BY <1>1 DEF TypeInv, TypeOK

LEMMA NotFatal ==
  ASSUME TypeInv, NEW p \in Process, Running(p), Opens(p),
         Step(p) \/ Answers(p) \/ AnswersNo(p), ~Edit(p),
         cmd'[p] # NoCmd, cmd'[p].at = "failed", cmd[p].at # "failed"
  PROVE  ~Tpm2Compiled
<1>1. /\ cmd \in [Process -> Command \cup {NoCmd}] /\ cmd[p] \in Command
      /\ cmd[p].at \in {"exists", "resolve", "read", "unseal", "open", "prompt", "edit", "done"}
  <2>1. CommandOK(cmd[p], worker[p], fresh) /\ cmd[p] \in Command
        /\ Op(p) \in {"init-machine", "seal", "set", "change-passphrase"}
    BY CmdFields
  <2>2. Op(p) \notin {"init-machine", "seal"} /\ cmd[p].at \in PlacesOf(Op(p))
    BY <2>1 DEF Opens, CommandOK, Op
  <2>3. QED
    BY <2>1, <2>2 DEF PlacesOf, TypeInv, TypeOK
<1>2. ~Check(p) /\ ~Create(p) /\ ~Phrase(p) /\ ~WriteSealed(p) /\ ~WriteBundle(p) /\ ~Clean(p)
  BY <1>1 DEF Check, Create, Phrase, WriteSealed, WriteBundle, Clean, At
<1>3. CASE Exists(p)
  <2> DEFINE blob == sealed[Dir(p)]
             a == CASE blob = NoBlob -> "prompt"
                    [] blob # NoBlob /\ blob.by = "tpm2" /\ ~Tpm2Compiled -> "failed"
                    [] OTHER -> "resolve"
  <2>1. Goto(p, a)
    BY <1>3 DEF Exists
  <2>2. a \in Place /\ (a = "failed" => ~Tpm2Compiled)
    BY DEF Place
  <2> HIDE DEF a
  <2>3. cmd'[p].at = a
    BY <2>1, <2>2, GotoPlace
  <2>4. QED
    BY <2>2, <2>3
<1>4. CASE Resolve(p)
  <2>1. PICK up \in Host :
            LET h == Resolved(cmd[p].line.backend, up) IN
            cmd' = [cmd EXCEPT ![p].hsm = h, ![p].at =
               CASE h = Nothing -> IF Opens(p) THEN "prompt" ELSE "failed"
                 [] h # Nothing /\ Opens(p) -> "read"
                 [] h # Nothing /\ Op(p) = "seal" -> "prompt"
                 [] h # Nothing /\ Op(p) = "init-machine" -> "create"]
    BY <1>4 DEF Resolve
  <2> DEFINE h == Resolved(cmd[p].line.backend, up)
             a == CASE h = Nothing -> IF Opens(p) THEN "prompt" ELSE "failed"
                    [] h # Nothing /\ Opens(p) -> "read"
                    [] h # Nothing /\ Op(p) = "seal" -> "prompt"
                    [] h # Nothing /\ Op(p) = "init-machine" -> "create"
  <2>2. cmd' = [cmd EXCEPT ![p].hsm = h, ![p].at = a]
    BY <2>1
  <2> HIDE DEF h
  <2>3. a \in {"prompt", "read"}
    BY DEF Opens
  <2> HIDE DEF a
  <2>4. cmd'[p].at = a
    BY <1>1, <2>2 DEF Command
  <2>5. QED
    BY <2>3, <2>4
<1>5. CASE Read(p)
  <2> DEFINE a == IF sealed[Dir(p)] = NoBlob THEN "prompt" ELSE "unseal"
  <2>1. cmd' = [cmd EXCEPT ![p].blob = sealed[Dir(p)], ![p].at = a]
    BY <1>5 DEF Read
  <2>2. a \in {"prompt", "unseal"}
    OBVIOUS
  <2> HIDE DEF a
  <2>3. cmd'[p].at = a
    BY <1>1, <2>1 DEF Command
  <2>4. QED
    BY <2>2, <2>3
<1>6. CASE OpenSealed(p)
  <2>1. CASE Goto(p, "prompt")
    <3>1. cmd'[p].at = "prompt"
      BY <2>1, GotoPlace DEF Place
    <3>2. QED
      BY <3>1
  <2>2. ASSUME NEW dk, cmd' = [cmd EXCEPT ![p].at = AfterOpen(p), ![p].pass = cmd[p].pass, ![p].dk = dk]
        PROVE  FALSE
    <3> DEFINE a == AfterOpen(p)
    <3>1. a = "edit"
      BY DEF AfterOpen, Opens
    <3> HIDE DEF a
    <3>2. cmd'[p].at = a
      BY <1>1, <2>2 DEF Command, a
    <3>3. QED
      BY <3>1, <3>2
  <2>3. QED
    BY <1>6, <2>1, <2>2 DEF OpenSealed, Open
<1>7. CASE Returns(p)
  <2>1. cmd[p].at # "seal"
    BY <1>1
  <2>2. cmd' = [cmd EXCEPT ![p].at = "open", ![p].pass = Unsealed(cmd[p].hsm, cmd[p].blob)]
    BY <1>7, <2>1 DEF Returns, At
  <2>3. cmd'[p].at = "open"
    BY <1>1, <2>2 DEF Command
  <2>4. QED
    BY <2>3
<1>8. CASE Refuses(p) \/ Timeout(p)
  <2>1. Goto(p, AfterError(p))
    BY <1>8 DEF Refuses, Timeout, Fails
  <2>2. QED
    BY <2>1, ErrorAsks
<1>9. CASE Spawn(p)
  <2>1. cmd' = [cmd EXCEPT ![p].waits = TRUE]
    BY <1>9 DEF Spawn
  <2>2. cmd'[p].at = cmd[p].at
    BY <1>1, <2>1 DEF Command
  <2>3. QED
    BY <2>2
<1>10. CASE Exit(p)
  BY <1>1, <1>10 DEF Exit, End
<1>11. CASE AnswersNo(p)
  <2>1. Goto(p, AfterError(p)) \/ cmd' = cmd
    BY <1>11 DEF AnswersNo
  <2>2. QED
    BY <2>1, ErrorAsks
<1>12. CASE Answers(p)
  <2>1. \/ cmd' = cmd
        \/ cmd' = [cmd EXCEPT ![p].at = "write", ![p].waits = FALSE,
                              ![p].blob = Sealed("keyring", cmd[p].pass)]
        \/ cmd' = [cmd EXCEPT ![p].at = "open", ![p].waits = FALSE, ![p].pass = keyring]
        \/ Goto(p, AfterError(p))
    BY <1>12 DEF Answers
  <2>2. ASSUME cmd' = [cmd EXCEPT ![p].at = "write", ![p].waits = FALSE,
                                  ![p].blob = Sealed("keyring", cmd[p].pass)]
        PROVE  cmd'[p].at = "write"
    BY <1>1, <2>2 DEF Command
  <2>3. ASSUME cmd' = [cmd EXCEPT ![p].at = "open", ![p].waits = FALSE, ![p].pass = keyring]
        PROVE  cmd'[p].at = "open"
    BY <1>1, <2>3 DEF Command
  <2>4. QED
    BY <2>1, <2>2, <2>3, ErrorAsks
<1>13. QED
  BY <1>2, <1>3, <1>4, <1>5, <1>6, <1>7, <1>8, <1>9, <1>10, <1>11, <1>12 DEF Step

\* No backend, absent, refusing, silent, or with the passphrase of another vault or of an
\* earlier day, keeps open_vault from asking the human (main.rs, open_vault).
THEOREM BackendsFallBack == Spec => BackendIsNeverFatal
<1>1. ASSUME TypeInv, [Next]_vars, NEW p \in Process, Running(p), Opens(p), ~At(p, "prompt"),
             ~At(p, "edit"), cmd' # cmd, cmd'[p] # NoCmd, cmd'[p].at = "failed",
             cmd[p].at # "failed"
      PROVE  ~Tpm2Compiled
  <2>1. ASSUME NEW q \in Process,
               \/ \E line \in Line : Run(q, line)
               \/ Step(q) \/ Prompt(q) \/ Answers(q) \/ AnswersNo(q) \/ Kill(q)
        PROVE  ~Tpm2Compiled
    <3>1. StepKept(q)
      BY <1>1, <2>1, RunKept, LookKept, VaultKept, BackendKept, KeyringKept, MachineKept, EndKept
         DEF Step
    <3>2. p = q
      BY <1>1, <3>1 DEF StepKept, Frame
    <3>3. ~Prompt(p) /\ ~Edit(p) /\ ~(\E line \in Line : Run(p, line))
      BY <1>1 DEF Prompt, Edit, Run
    <3>4. ~Kill(p)
      <4>1. cmd \in [Process -> Command \cup {NoCmd}]
        BY <1>1 DEF TypeInv, TypeOK
      <4>2. QED
        BY <1>1, <4>1 DEF Kill, End
    <3>5. Step(p) \/ Answers(p) \/ AnswersNo(p)
      BY <2>1, <3>2, <3>3, <3>4
    <3>6. QED
      BY <1>1, <3>3, <3>5, NotFatal
  <2>2. CASE FirmwareUpdate \/ UNCHANGED vars
    BY <1>1, <2>2 DEF FirmwareUpdate, vars
  <2>3. QED
    BY <1>1, <2>1, <2>2 DEF Next
<1> DEFINE Asks == \A p \in Process :
        Running(p) /\ Opens(p) /\ ~At(p, "prompt") /\ ~At(p, "edit") /\ cmd' # cmd /\ cmd'[p] # NoCmd
        /\ cmd'[p].at = "failed" /\ cmd[p].at # "failed" => ~Tpm2Compiled
<1>2. TypeInv /\ [Next]_vars => [Asks]_vars
  BY <1>1
<1>3. Spec => [][Asks]_vars
  BY <1>2, TypeAlways, PTL DEF Spec
<1>4. QED
  BY <1>3 DEF BackendIsNeverFatal

-----------------------------------------------------------------------------
(* A machine vault has its recovery bundle.  What the property leaves out  *)
(* is where init-machine is: before it has created its vault there is no   *)
(* machine vault at its path, until it is over the one there is its own,   *)
(* and once it has removed it there is none again, or it is abandoned.     *)

\* The vault v opens with what only init-machine draws.
Machine(v) == vault[v] # NoVault /\ vault[v].pass = vault[v].dk

\* The init-machine of p answers for v.
Answerable(p, v) ==
    /\ Running(p) /\ Op(p) = "init-machine" /\ cmd[p].dk = vault[v].dk
    /\ ~At(p, "done") /\ ~At(p, "failed")

VaultOK(v) ==
    Machine(v) => \/ vault[v].rec /\ bundle[v] = vault[v].dk
                  \/ vault[v].dk \in abandoned
                  \/ \E p \in Process : Answerable(p, v)

\* What init-machine may count on, at each place.
PlaceOK(p) ==
    /\ cmd[p].at \in {"resolve", "create"} => ~Machine(VaultOf(p))
    /\ cmd[p].at \in {"phrase", "seal", "write", "bundle", "clean_vault"} /\ Machine(VaultOf(p)) =>
          /\ vault[VaultOf(p)].dk = cmd[p].dk
          /\ cmd[p].at \notin {"phrase", "clean_vault"} => vault[VaultOf(p)].rec
    /\ cmd[p].at \in {"clean_seal", "clean_bundle"} /\ Machine(VaultOf(p)) =>
          vault[VaultOf(p)].dk \in abandoned

InstallOK(p) ==
    Running(p) /\ Op(p) = "init-machine" =>
        /\ p \in Installer /\ PlaceOK(p)
        /\ \A v \in Vault : Machine(v) /\ vault[v].dk = cmd[p].dk => v = VaultOf(p)

MachineInv == (\A v \in Vault : VaultOK(v)) /\ \A p \in Process : InstallOK(p)

OneInstaller == \A p, q \in Installer : p = q

LEMMA VaultFields ==
  ASSUME TypeInv, NEW v \in Vault, vault[v] # NoVault
  PROVE  /\ vault[v] \in Contents /\ vault[v].dk \in 1 .. MaxFresh /\ vault[v].dk <= fresh
         /\ fresh \in Nat /\ MaxFresh \in Nat
BY Bounds DEF TypeInv, TypeOK, DrawnInv, Contents

\* A step that no init-machine takes, and that makes no machine vault.
LEMMA TameStep ==
  ASSUME TypeInv, MachineInv,
         \A v \in Vault : Machine(v)' => /\ Machine(v) /\ vault'[v].dk = vault[v].dk
                                         /\ vault[v].rec => vault'[v].rec,
         bundle' = bundle, abandoned \subseteq abandoned',
         \A p \in Process : (Running(p) /\ Op(p) = "init-machine")
                               \/ (Running(p)' /\ (Op(p) = "init-machine")')
                            => cmd'[p] = cmd[p]
  PROVE  MachineInv'
<1>1. ASSUME NEW v \in Vault
      PROVE  VaultOK(v)'
  <2>1. VaultOK(v)
    BY DEF MachineInv
  <2>2. SUFFICES ASSUME Machine(v)'
                 PROVE  \/ vault'[v].rec /\ bundle'[v] = vault'[v].dk
                        \/ vault'[v].dk \in abandoned'
                        \/ \E p \in Process : Answerable(p, v)'
    BY DEF VaultOK
  <2>3. Machine(v) /\ vault'[v].dk = vault[v].dk /\ (vault[v].rec => vault'[v].rec)
    BY <2>2
  <2>4. ASSUME NEW p \in Process, Answerable(p, v)
        PROVE  Answerable(p, v)'
    <3>1. cmd'[p] = cmd[p]
      BY <2>4 DEF Answerable
    <3>2. QED
      BY <2>3, <2>4, <3>1 DEF Answerable, Running, Op, At
  <2>5. QED
    BY <2>1, <2>3, <2>4 DEF VaultOK
<1>2. ASSUME NEW p \in Process
      PROVE  InstallOK(p)'
  <2>1. SUFFICES ASSUME Running(p)', (Op(p) = "init-machine")'
                 PROVE  /\ p \in Installer /\ PlaceOK(p)'
                        /\ \A v \in Vault : Machine(v)' /\ vault'[v].dk = cmd'[p].dk => v = VaultOf(p)'
    BY DEF InstallOK
  <2>2. cmd'[p] = cmd[p]
    BY <2>1
  <2>3. Running(p) /\ Op(p) = "init-machine" /\ VaultOf(p)' = VaultOf(p)
    BY <2>1, <2>2 DEF Running, Op, VaultOf
  <2>4. InstallOK(p)
    BY DEF MachineInv
  <2>5. VaultOf(p) \in Vault
    BY <2>3, CmdFields
  <2>6. PlaceOK(p)'
    BY <2>2, <2>3, <2>4, <2>5 DEF InstallOK, PlaceOK
  <2>7. QED
    BY <2>2, <2>3, <2>4, <2>6 DEF InstallOK
<1>3. QED
  BY <1>1, <1>2 DEF MachineInv

\* Only the one init-machine answers for a vault, and only for the one at its path.
LEMMA OnlyOne ==
  ASSUME TypeInv, MachineInv, OneInstaller, NEW p \in Process, Running(p), Op(p) = "init-machine"
  PROVE  /\ \A q \in Process : Running(q) /\ Op(q) = "init-machine" => q = p
         /\ \A v \in Vault, q \in Process : Machine(v) /\ Answerable(q, v) => q = p /\ v = VaultOf(p)
<1>1. \A q \in Process : Running(q) /\ Op(q) = "init-machine" => q = p
  BY DEF MachineInv, InstallOK, OneInstaller
<1>2. ASSUME NEW v \in Vault, NEW q \in Process, Machine(v), Answerable(q, v)
      PROVE  q = p /\ v = VaultOf(p)
  <2>1. q = p
    BY <1>1, <1>2 DEF Answerable
  <2>2. QED
    BY <1>2, <2>1 DEF MachineInv, InstallOK, Answerable
<1>3. QED
  BY <1>1, <1>2

\* What a step of init-machine leaves to show.
LEMMA InstallStep ==
  ASSUME TypeInv, MachineInv, OneInstaller, NEW p \in Process, Running(p), Op(p) = "init-machine",
         Frame(p), abandoned \subseteq abandoned', NEW v \in Vault, v = VaultOf(p),
         \A w \in Vault \ {v} : vault'[w] = vault[w] /\ bundle'[w] = bundle[w],
         VaultOK(v)',
         Running(p)' => /\ cmd'[p].line = cmd[p].line /\ cmd'[p].dk \in {cmd[p].dk, fresh + 1}
                        /\ PlaceOK(p)'
  PROVE  MachineInv'
<1>1. ASSUME NEW w \in Vault, w # v, Machine(w)'
      PROVE  /\ Machine(w) /\ vault'[w] = vault[w] /\ bundle'[w] = bundle[w]
             /\ (vault[w].rec /\ bundle[w] = vault[w].dk) \/ vault[w].dk \in abandoned
  <2>1. vault'[w] = vault[w] /\ bundle'[w] = bundle[w]
    BY <1>1
  <2>2. Machine(w)
    BY <1>1, <2>1 DEF Machine
  <2>3. \A q \in Process : ~Answerable(q, w)
    BY <1>1, <2>2, OnlyOne
  <2>4. VaultOK(w)
    BY DEF MachineInv
  <2>5. QED
    BY <2>1, <2>2, <2>3, <2>4 DEF VaultOK
<1>2. \A w \in Vault \ {v} : VaultOK(w)'
  BY <1>1 DEF VaultOK
<1>3. ASSUME NEW q \in Process, q # p
      PROVE  InstallOK(q)'
  <2>1. cmd'[q] = cmd[q]
    BY <1>3 DEF Frame
  <2>2. ~(Running(q) /\ Op(q) = "init-machine")
    BY <1>3, OnlyOne
  <2>3. ~(Running(q)' /\ Op(q)' = "init-machine")
    BY <2>1, <2>2 DEF Running, Op
  <2>4. QED
    BY <2>3 DEF InstallOK
<1>4. InstallOK(p)'
  <2>1. SUFFICES ASSUME Running(p)'
                 PROVE  /\ p \in Installer /\ PlaceOK(p)'
                        /\ \A w \in Vault : Machine(w)' /\ vault'[w].dk = cmd'[p].dk => w = VaultOf(p)'
    BY DEF InstallOK
  <2>2. VaultOf(p)' = v /\ p \in Installer
    BY <2>1 DEF VaultOf, MachineInv, InstallOK
  <2>3. ASSUME NEW w \in Vault, Machine(w)', vault'[w].dk = cmd'[p].dk, w # v
        PROVE  FALSE
    <3>1. Machine(w) /\ vault'[w] = vault[w]
      BY <1>1, <2>3
    <3>2. vault[w].dk # cmd[p].dk
      BY <2>3, <3>1 DEF MachineInv, InstallOK
    <3>3. vault[w].dk # fresh + 1
      BY <3>1, VaultFields DEF Machine
    <3>4. QED
      BY <2>1, <2>3, <3>1, <3>2, <3>3
  <2>4. QED
    BY <2>1, <2>2, <2>3
<1>5. QED
  BY <1>2, <1>3, <1>4 DEF MachineInv

\* A step of init-machine that touches neither its vault nor the bundle.
LEMMA InstallMoves ==
  ASSUME TypeInv, MachineInv, OneInstaller, NEW p \in Process, Running(p), Op(p) = "init-machine",
         Frame(p), vault' = vault, bundle' = bundle, abandoned \subseteq abandoned',
         Running(p)' => /\ cmd'[p].line = cmd[p].line /\ cmd'[p].dk = cmd[p].dk /\ PlaceOK(p)',
         \/ At(p, "done") \/ At(p, "failed")
         \/ cmd[p].dk = 0
         \/ cmd[p].dk \in abandoned'
         \/ Running(p)' /\ ~At(p, "done")' /\ ~At(p, "failed")'
  PROVE  MachineInv'
<1>1. PICK v \in Vault : v = VaultOf(p)
  BY CmdFields
<1>2. VaultOK(v)
  BY <1>1 DEF MachineInv
<1>3. \A q \in Process : Machine(v) /\ Answerable(q, v) => q = p
  BY <1>1, OnlyOne
<1>4. ASSUME Machine(v), Answerable(p, v)
      PROVE  Answerable(p, v)' \/ vault[v].dk \in abandoned'
  <2>1. vault[v].dk # 0
    BY <1>1, <1>4, VaultFields DEF Machine
  <2>2. QED
    BY <1>4, <2>1 DEF Answerable, Op
<1>5. VaultOK(v)'
  <2>1. SUFFICES ASSUME Machine(v)'
                 PROVE  \/ vault'[v].rec /\ bundle'[v] = vault'[v].dk
                        \/ vault'[v].dk \in abandoned'
                        \/ \E q \in Process : Answerable(q, v)'
    BY DEF VaultOK
  <2>2. Machine(v)
    BY <2>1 DEF Machine
  <2>3. QED
    BY <1>2, <1>3, <1>4, <2>2 DEF VaultOK
<1>6. QED
  BY <1>1, <1>5, InstallStep

LEMMA InstallGoes ==
  ASSUME TypeInv, MachineInv, OneInstaller, NEW p \in Process, Running(p), Op(p) = "init-machine",
         Frame(p), vault' = vault, bundle' = bundle, abandoned' = abandoned,
         cmd'[p] # NoCmd, cmd'[p].line = cmd[p].line, cmd'[p].dk = cmd[p].dk,
         \/ cmd'[p].at = cmd[p].at
         \/ /\ cmd'[p].at = "clean_vault"
            /\ cmd[p].at \in {"create", "phrase", "seal", "write", "bundle"}
         \/ cmd'[p].at \in {"write", "bundle"} /\ cmd[p].at \in {"seal", "write"}
         \/ cmd'[p].at = "failed" /\ cmd[p].dk = 0
         \/ cmd'[p].at \in {"resolve", "create"} /\ ~Machine(VaultOf(p))
  PROVE  MachineInv'
<1>1. VaultOf(p)' = VaultOf(p) /\ Running(p)'
  BY DEF VaultOf, Running
<1>2. Machine(VaultOf(p))' <=> Machine(VaultOf(p))
  BY <1>1 DEF Machine
<1>3. PlaceOK(p)
  BY DEF MachineInv, InstallOK
<1>4. PlaceOK(p)'
  BY <1>1, <1>2, <1>3 DEF PlaceOK
<1>5. \/ At(p, "done") \/ At(p, "failed")
      \/ cmd[p].dk = 0
      \/ Running(p)' /\ ~At(p, "done")' /\ ~At(p, "failed")'
  <2>1. CASE cmd'[p].at \in {"done", "failed"}
    <3>1. cmd[p].at \in {"done", "failed"} \/ cmd[p].dk = 0
      BY <2>1
    <3>2. cmd[p].at \in {"done", "failed"} => ~cmd[p].waits
      BY CmdFields DEF CommandOK
    <3>3. QED
      BY <3>1, <3>2 DEF At
  <2>2. CASE cmd'[p].at \notin {"done", "failed"}
    BY <1>1, <2>2 DEF At
  <2>3. QED
    BY <2>1, <2>2
<1>6. QED
  BY <1>4, <1>5, InstallMoves

\* An error, and a step to another place.
LEMMA InstallErrs ==
  ASSUME TypeInv, MachineInv, OneInstaller, NEW p \in Process, Running(p), Op(p) = "init-machine",
         Frame(p), vault' = vault, bundle' = bundle, abandoned' = abandoned, Goto(p, AfterError(p)),
         cmd[p].at \in {"create", "phrase", "seal", "write", "bundle"}
  PROVE  MachineInv'
<1>1. PICK c \in Command :
          /\ cmd' = [cmd EXCEPT ![p] = c] /\ c.line = cmd[p].line /\ c.dk = cmd[p].dk
          /\ c.at = "clean_vault"
  BY ErrorSets
<1>2. cmd'[p] = c /\ c # NoCmd
  BY <1>1, Nulls DEF TypeInv, TypeOK
<1>3. QED
  BY <1>1, <1>2, InstallGoes

LEMMA InstallTurns ==
  ASSUME TypeInv, MachineInv, OneInstaller, NEW p \in Process, Running(p), Op(p) = "init-machine",
         Frame(p), vault' = vault, bundle' = bundle, abandoned' = abandoned,
         NEW a \in Place, Goto(p, a),
         \/ a = "bundle" /\ cmd[p].at = "write"
         \/ a = "failed" /\ cmd[p].dk = 0
         \/ a = "resolve" /\ ~Machine(VaultOf(p))
  PROVE  MachineInv'
<1>1. PICK c \in Command :
          /\ cmd' = [cmd EXCEPT ![p] = c] /\ c.line = cmd[p].line /\ c.dk = cmd[p].dk
          /\ c.at = a
  BY GotoSets
<1>2. cmd'[p] = c /\ c # NoCmd
  BY <1>1, Nulls DEF TypeInv, TypeOK
<1>3. QED
  BY <1>1, <1>2, InstallGoes

\* The steps of init-machine that write neither the vault nor the bundle.
LEMMA InstallLooks ==
  ASSUME TypeInv, MachineInv, OneInstaller, NEW p \in Process, Running(p), Op(p) = "init-machine",
         Frame(p),
         \/ Check(p) \/ Resolve(p) \/ Returns(p) \/ Refuses(p) \/ Timeout(p) \/ Spawn(p)
         \/ Answers(p) \/ AnswersNo(p) \/ WriteSealed(p) \/ Exit(p) \/ Kill(p)
  PROVE  MachineInv'
<1>1. /\ cmd \in [Process -> Command \cup {NoCmd}] /\ cmd[p] \in Command /\ ~Opens(p)
      /\ CommandOK(cmd[p], worker[p], fresh) /\ VaultOf(p) \in Vault
  BY CmdFields DEF TypeInv, TypeOK, Opens
<1>2. /\ vault' = vault /\ bundle' = bundle
      /\ abandoned' = abandoned \/ Kill(p)
  BY DEF Check, Resolve, Returns, Refuses, Timeout, Spawn, Answers, AnswersNo, WriteSealed, Exit, Kill,
         Fails, End, files, counts
<1>3. ASSUME NEW c \in Command, cmd' = [cmd EXCEPT ![p] = c], c.line = cmd[p].line,
             c.dk = cmd[p].dk, abandoned' = abandoned,
             \/ c.at = cmd[p].at
             \/ c.at = "write" /\ cmd[p].at = "seal"
             \/ c.at = "failed" /\ cmd[p].dk = 0
             \/ c.at = "create" /\ ~Machine(VaultOf(p))
      PROVE  MachineInv'
  <2>1. cmd'[p] = c /\ c # NoCmd
    BY <1>1, <1>3, Nulls
  <2>2. QED
    BY <1>2, <1>3, <2>1, InstallGoes
<1>4. CASE Check(p)
  <2> DEFINE a == IF vault[VaultOf(p)] = NoVault /\ bundle[VaultOf(p)] = Nothing
                  THEN "resolve" ELSE "failed"
  <2>1. Goto(p, a) /\ cmd[p].at = "check" /\ abandoned' = abandoned
    BY <1>4 DEF Check, At, counts
  <2>2. a \in Place /\ (a = "failed" \/ (a = "resolve" /\ ~Machine(VaultOf(p))))
    BY DEF Place, Machine
  <2>3. cmd[p].dk = 0
    BY <1>1, <2>1 DEF CommandOK
  <2> HIDE DEF a
  <2>4. QED
    BY <1>2, <2>1, <2>2, <2>3, InstallTurns
<1>5. CASE Resolve(p)
  <2>1. cmd[p].at = "resolve" /\ abandoned' = abandoned /\ cmd[p].dk = 0
    BY <1>1, <1>5 DEF Resolve, At, counts, CommandOK
  <2>2. ~Machine(VaultOf(p))
    BY <2>1 DEF MachineInv, InstallOK, PlaceOK
  <2>3. PICK up \in Host :
            LET h == Resolved(cmd[p].line.backend, up) IN
            cmd' = [cmd EXCEPT ![p].hsm = h, ![p].at =
               CASE h = Nothing -> IF Opens(p) THEN "prompt" ELSE "failed"
                 [] h # Nothing /\ Opens(p) -> "read"
                 [] h # Nothing /\ Op(p) = "seal" -> "prompt"
                 [] h # Nothing /\ Op(p) = "init-machine" -> "create"]
    BY <1>5 DEF Resolve
  <2> DEFINE h == Resolved(cmd[p].line.backend, up)
             a == CASE h = Nothing -> IF Opens(p) THEN "prompt" ELSE "failed"
                    [] h # Nothing /\ Opens(p) -> "read"
                    [] h # Nothing /\ Op(p) = "seal" -> "prompt"
                    [] h # Nothing /\ Op(p) = "init-machine" -> "create"
             c == [cmd[p] EXCEPT !.hsm = h, !.at = a]
  <2>4. h \in Backend \cup {Nothing}
    BY DEF Resolved, Backend
  <2> HIDE DEF h
  <2>5. cmd' = [cmd EXCEPT ![p].hsm = h, ![p].at = a]
    BY <2>3 DEF h
  <2>6. a \in {"failed", "create"}
    BY <1>1
  <2> HIDE DEF a
  <2>7. c \in Command /\ c.line = cmd[p].line /\ c.dk = cmd[p].dk /\ c.at = a
    BY <1>1, <2>4, <2>6 DEF Command, Place
  <2>8. cmd' = [cmd EXCEPT ![p] = c]
    BY <2>5
  <2> HIDE DEF c
  <2>9. QED
    BY <1>3, <2>1, <2>2, <2>6, <2>7, <2>8
<1>14. cmd[p].waits => cmd[p].at = "seal"
  BY <1>1 DEF CommandOK, PlacesOf, Op
<1>6. CASE Refuses(p) \/ Timeout(p)
  <2>1. cmd[p].at = "seal"
    BY <1>1, <1>6, <1>14 DEF Refuses, Timeout, HasDeadline, At, CommandOK, PlacesOf, Op
  <2>2. Goto(p, AfterError(p)) /\ abandoned' = abandoned
    BY <1>6 DEF Refuses, Timeout, Fails, counts
  <2>3. QED
    BY <1>2, <2>1, <2>2, InstallErrs
<1>7. CASE Spawn(p)
  <2> DEFINE c == [cmd[p] EXCEPT !.waits = TRUE]
  <2>1. cmd' = [cmd EXCEPT ![p] = c] /\ abandoned' = abandoned
    BY <1>7 DEF Spawn, counts
  <2>2. c \in Command /\ c.line = cmd[p].line /\ c.dk = cmd[p].dk /\ c.at = cmd[p].at
    BY <1>1 DEF Command
  <2> HIDE DEF c
  <2>3. QED
    BY <1>3, <2>1, <2>2
\* The seal is made, by the keyring or by another.
<1>8. ASSUME NEW b, cmd' = [cmd EXCEPT ![p].at = "write", ![p].blob = b]
                    \/ cmd' = [cmd EXCEPT ![p].at = "write", ![p].waits = FALSE, ![p].blob = b],
             b \in Blob, cmd[p].at = "seal", abandoned' = abandoned
      PROVE  MachineInv'
  <2> DEFINE c == cmd'[p]
  <2>1. cmd' = [cmd EXCEPT ![p] = c]
    BY <1>1, <1>8
  <2>2. c \in Command /\ c.line = cmd[p].line /\ c.dk = cmd[p].dk /\ c.at = "write"
    BY <1>1, <1>8 DEF Command, Place
  <2> HIDE DEF c
  <2>3. QED
    BY <1>3, <1>8, <2>1, <2>2
<1>9. CASE Returns(p)
  <2> DEFINE b == Sealed(cmd[p].hsm, cmd[p].pass)
  <2>1. cmd[p].at # "unseal"
    BY <1>1 DEF CommandOK, PlacesOf, Op
  <2>2. /\ cmd[p].at = "seal" /\ abandoned' = abandoned
        /\ cmd' = [cmd EXCEPT ![p].at = "write", ![p].blob = b]
    BY <1>9, <2>1 DEF Returns, At, counts
  <2>3. b \in Blob
    BY <1>1, <2>2 DEF Sealed, Blob, CommandOK, Command, TypeInv, TypeOK
  <2> HIDE DEF b
  <2>4. QED
    BY <1>8, <2>2, <2>3
<1>10. CASE Answers(p) \/ AnswersNo(p)
  <2>1. abandoned' = abandoned
    BY <1>10 DEF Answers, AnswersNo, counts
  <2>2. CASE cmd' = cmd
    <3>1. cmd' = [cmd EXCEPT ![p] = cmd[p]]
      BY <1>1, <2>2
    <3>2. QED
      BY <1>1, <1>3, <2>1, <3>1
  <2>3. CASE cmd' # cmd /\ Goto(p, AfterError(p))
    <3>1. cmd[p].at = "seal"
      BY <1>10, <1>14, <2>3 DEF Answers, AnswersNo
    <3>2. QED
      BY <1>2, <2>1, <2>3, <3>1, InstallErrs
  <2>4. CASE cmd' # cmd /\ ~Goto(p, AfterError(p))
    <3>1. /\ Answers(p) /\ cmd[p].waits /\ worker[p] # Nothing
      BY <1>10, <2>4 DEF Answers, AnswersNo
    <3>2. cmd[p].at = "seal" /\ worker[p].write
      BY <1>1, <3>1 DEF CommandOK, PlacesOf, Op
    <3> DEFINE b == Sealed("keyring", cmd[p].pass)
    <3>3. cmd' = [cmd EXCEPT ![p].at = "write", ![p].waits = FALSE, ![p].blob = b]
      BY <3>1, <3>2 DEF Answers
    <3>4. b \in Blob
      BY <1>1 DEF Sealed, Blob, Backend, TypeInv, TypeOK
    <3> HIDE DEF b
    <3>5. QED
      BY <1>8, <2>1, <3>2, <3>3, <3>4
  <2>5. QED
    BY <2>2, <2>3, <2>4
<1>11. CASE WriteSealed(p)
  <2>1. cmd[p].at = "write" /\ abandoned' = abandoned
    BY <1>11 DEF WriteSealed, At, counts
  <2>2. Goto(p, "bundle") \/ Goto(p, AfterError(p))
    BY <1>11 DEF WriteSealed
  <2>3. QED
    BY <1>2, <2>1, <2>2, InstallErrs, InstallTurns DEF Place
<1>12. CASE Exit(p) \/ Kill(p)
  <2>1. ~Running(p)' /\ abandoned \subseteq abandoned'
    BY <1>1, <1>12 DEF Exit, Kill, End, Running
  <2>2. \/ At(p, "done") \/ At(p, "failed") \/ cmd[p].dk = 0 \/ cmd[p].dk \in abandoned'
    BY <1>12 DEF Exit, Kill, Minted
  <2>3. QED
    BY <1>2, <2>1, <2>2, InstallMoves
<1>13. QED
  BY <1>4, <1>5, <1>6, <1>7, <1>9, <1>10, <1>11, <1>12

\* The steps of init-machine that write its vault or its bundle.
LEMMA InstallWrites ==
  ASSUME TypeInv, MachineInv, OneInstaller, NEW p \in Process, Running(p), Op(p) = "init-machine",
         Frame(p), Create(p) \/ Phrase(p) \/ WriteBundle(p) \/ Clean(p)
  PROVE  MachineInv'
<1>1. /\ cmd \in [Process -> Command \cup {NoCmd}] /\ cmd[p] \in Command /\ abandoned \subseteq abandoned'
      /\ vault \in [Vault -> Contents \cup {NoVault}] /\ CommandOK(cmd[p], worker[p], fresh)
      /\ bundle \in [Vault -> (1 .. MaxFresh) \cup {Nothing}]
  BY CmdFields DEF TypeInv, TypeOK, Create, Phrase, WriteBundle, Clean, counts
<1>2. PICK v \in Vault : v = VaultOf(p)
  BY CmdFields
<1>3. /\ VaultOK(v) /\ PlaceOK(p) /\ p \in Installer
      /\ \A w \in Vault : Machine(w) /\ vault[w].dk = cmd[p].dk => w = v
      /\ \A q \in Process : Machine(v) /\ Answerable(q, v) => q = p
  BY <1>2, OnlyOne DEF MachineInv, InstallOK
\* The step goes to the place a, and leaves the rest of its command.
<1>4. ASSUME NEW a \in Place, Goto(p, a)
      PROVE  /\ Running(p)' /\ cmd'[p].line = cmd[p].line /\ cmd'[p].dk = cmd[p].dk
             /\ cmd'[p].at = a /\ VaultOf(p)' = v /\ Op(p)' = "init-machine" /\ cmd'[p].waits = FALSE
  <2>1. PICK c \in Command :
            /\ cmd' = [cmd EXCEPT ![p] = c] /\ c.line = cmd[p].line /\ c.dk = cmd[p].dk
            /\ c.at = a /\ c.waits = FALSE
    BY <1>4, GotoSets
  <2>2. cmd'[p] = c /\ c # NoCmd
    BY <1>1, <2>1, Nulls
  <2>3. QED
    BY <1>2, <2>1, <2>2 DEF Running, VaultOf, Op
<1>5. ASSUME Goto(p, AfterError(p)), vault' = vault, bundle' = bundle, abandoned' = abandoned,
             cmd[p].at \in {"create", "phrase", "bundle"}
      PROVE  MachineInv'
  BY <1>1, <1>5, InstallErrs
<1>6. CASE Create(p)
  <2> DEFINE n == fresh + 1
  <2>1. CASE Goto(p, AfterError(p)) /\ UNCHANGED vault
    BY <1>5, <1>6, <2>1 DEF Create, At
  <2>2. CASE /\ vault[v] = NoVault
             /\ vault' = [vault EXCEPT ![v] = Mint(n, n)]
             /\ cmd' = [cmd EXCEPT ![p].at = "phrase", ![p].pass = n, ![p].dk = n]
    <3>1. bundle' = bundle /\ cmd[p].at = "create" /\ fresh \in Nat
      BY <1>6 DEF Create, At, TypeInv, TypeOK
    <3>2. /\ cmd'[p].at = "phrase" /\ cmd'[p].dk = n /\ cmd'[p].line = cmd[p].line
      BY <1>1, <2>2 DEF Command
    <3>3. Running(p)'
      <4>1. n \in Passphrase /\ n \in 0 .. MaxFresh
        BY <1>6, <3>1, Bounds DEF Create, Passphrase
      <4> DEFINE c == [cmd[p] EXCEPT !.at = "phrase", !.pass = n, !.dk = n]
      <4>2. cmd'[p] = c
        BY <1>1, <2>2
      <4> HIDE DEF n
      <4>3. c \in Command
        BY <1>1, <4>1 DEF Command, Place
      <4> HIDE DEF c
      <4>4. QED
        BY <4>2, <4>3, Nulls DEF Running
    <3>4. /\ vault'[v].dk = n /\ VaultOf(p)' = v
          /\ \A w \in Vault \ {v} : vault'[w] = vault[w]
      BY <1>1, <1>2, <2>2, <3>2 DEF Mint, VaultOf
    <3>5. Answerable(p, v)'
      BY <3>2, <3>3, <3>4 DEF Answerable, At, Op
    <3>6. VaultOK(v)'
      BY <3>5 DEF VaultOK
    <3>7. PlaceOK(p)'
      BY <3>2, <3>4 DEF PlaceOK
    <3>8. QED
      BY <1>1, <1>2, <3>1, <3>2, <3>4, <3>6, <3>7, InstallStep
  <2>3. QED
    BY <1>2, <1>6, <2>1, <2>2 DEF Create
<1>7. CASE Phrase(p)
  <2>1. CASE Goto(p, AfterError(p)) /\ UNCHANGED vault
    BY <1>5, <1>7, <2>1 DEF Phrase, At, counts
  <2>2. CASE SameVault(p) /\ vault' = [vault EXCEPT ![v].rec = TRUE] /\ Goto(p, "seal")
    <3>1. /\ bundle' = bundle /\ vault[v] \in Contents /\ vault[v].dk = cmd[p].dk
          /\ vault[v] # NoVault
      BY <1>1, <1>2, <1>7, <2>2 DEF Phrase, SameVault
    <3>2. /\ vault'[v].dk = cmd[p].dk /\ vault'[v].rec
          /\ \A w \in Vault \ {v} : vault'[w] = vault[w]
      BY <1>1, <2>2, <3>1 DEF Contents
    <3>3. /\ Running(p)' /\ cmd'[p].line = cmd[p].line /\ cmd'[p].dk = cmd[p].dk
          /\ cmd'[p].at = "seal" /\ VaultOf(p)' = v /\ Op(p)' = "init-machine"
      BY <1>4, <2>2 DEF Place
    <3>4. Answerable(p, v)'
      BY <3>2, <3>3 DEF Answerable, At
    <3>5. VaultOK(v)'
      BY <3>4 DEF VaultOK
    <3>6. PlaceOK(p)'
      BY <3>2, <3>3 DEF PlaceOK
    <3>7. QED
      BY <1>1, <1>2, <3>1, <3>2, <3>3, <3>5, <3>6, InstallStep
  <2>3. QED
    BY <1>2, <1>7, <2>1, <2>2 DEF Phrase
<1>8. CASE WriteBundle(p)
  <2>1. CASE UNCHANGED bundle /\ Goto(p, AfterError(p))
    BY <1>5, <1>8, <2>1 DEF WriteBundle, At, counts
  <2>2. CASE bundle' = [bundle EXCEPT ![v] = cmd[p].dk] /\ Goto(p, "done")
    <3>1. vault' = vault /\ cmd[p].at = "bundle"
      BY <1>8 DEF WriteBundle, At
    <3>2. /\ bundle'[v] = cmd[p].dk
          /\ \A w \in Vault \ {v} : bundle'[w] = bundle[w]
      BY <1>1, <2>2
    <3>3. /\ Running(p)' /\ cmd'[p].line = cmd[p].line /\ cmd'[p].dk = cmd[p].dk
          /\ cmd'[p].at = "done" /\ VaultOf(p)' = v
      BY <1>4, <2>2 DEF Place
    <3>4. Machine(v) => vault[v].dk = cmd[p].dk /\ vault[v].rec
      BY <1>2, <1>3, <3>1 DEF PlaceOK
    <3>5. Machine(v)' => Machine(v)
      BY <3>1 DEF Machine
    <3>6. VaultOK(v)'
      BY <3>1, <3>2, <3>4, <3>5 DEF VaultOK
    <3>7. PlaceOK(p)'
      BY <3>3 DEF PlaceOK
    <3>8. QED
      BY <1>1, <1>2, <3>1, <3>2, <3>3, <3>6, <3>7, InstallStep
  <2>3. QED
    BY <1>2, <1>8, <2>1, <2>2 DEF WriteBundle
\* Its vault is gone or abandoned, and stays so for itself.
<1>9. CASE Clean(p)
  <2>1. PICK a \in {"clean_seal", "clean_bundle", "failed"} :
            /\ Goto(p, a)
            /\ \/ vault' = [vault EXCEPT ![v] = NoVault]
               \/ /\ cmd[p].at = "clean_vault" /\ vault' = vault
                  /\ abandoned' = abandoned \cup Minted(p)
               \/ cmd[p].at \in {"clean_seal", "clean_bundle"} /\ vault' = vault
            /\ bundle' = bundle \/ bundle' = [bundle EXCEPT ![v] = Nothing]
    BY <1>2, <1>9 DEF Clean, At
  <2>2. Machine(v)' => vault'[v].dk \in abandoned'
    <3>1. CASE vault' = [vault EXCEPT ![v] = NoVault]
      BY <1>1, <3>1 DEF Machine
    <3>2. CASE cmd[p].at = "clean_vault" /\ vault' = vault /\ abandoned' = abandoned \cup Minted(p)
      <4>1. SUFFICES ASSUME Machine(v)
                     PROVE  vault[v].dk \in Minted(p)
        BY <3>2 DEF Machine
      <4>2. vault[v].dk = cmd[p].dk /\ vault[v].dk # 0
        BY <1>2, <1>3, <3>2, <4>1, VaultFields DEF PlaceOK, Machine
      <4>3. QED
        BY <4>2 DEF Minted
    <3>3. CASE cmd[p].at \in {"clean_seal", "clean_bundle"} /\ vault' = vault
      <4>1. Machine(v) => vault[v].dk \in abandoned
        BY <1>2, <1>3, <3>3 DEF PlaceOK
      <4>2. QED
        BY <1>1, <3>3, <4>1 DEF Machine
    <3>4. QED
      BY <2>1, <3>1, <3>2, <3>3
  <2>3. \A w \in Vault \ {v} : vault'[w] = vault[w] /\ bundle'[w] = bundle[w]
    BY <1>1, <2>1
  <2>4. /\ Running(p)' /\ cmd'[p].line = cmd[p].line /\ cmd'[p].dk = cmd[p].dk
        /\ cmd'[p].at = a /\ VaultOf(p)' = v
    BY <1>4, <2>1 DEF Place
  <2>5. VaultOK(v)'
    BY <2>2 DEF VaultOK
  <2>6. PlaceOK(p)'
    BY <2>1, <2>2, <2>4 DEF PlaceOK, Machine
  <2>7. QED
    BY <1>1, <1>2, <2>3, <2>4, <2>5, <2>6, InstallStep
<1>10. QED
  BY <1>6, <1>7, <1>8, <1>9

-----------------------------------------------------------------------------
(* The other commands: they make no machine vault, and keep the one there. *)

LEMMA LineKept ==
  ASSUME TypeInv, NEW p \in Process, Running(p), cmd'[p] # NoCmd,
         Step(p) \/ Prompt(p) \/ Answers(p) \/ AnswersNo(p) \/ Kill(p)
  PROVE  cmd'[p].line = cmd[p].line
<1>1. cmd \in [Process -> Command \cup {NoCmd}] /\ cmd[p] \in Command
  BY CmdFields DEF TypeInv, TypeOK
<1>2. ASSUME NEW a, Goto(p, a)
      PROVE  cmd'[p].line = cmd[p].line
  BY <1>1, <1>2 DEF Goto, Command
<1>3. ~Kill(p) /\ ~Exit(p)
  BY <1>1 DEF Kill, Exit, End
<1>4. CASE Exists(p) \/ Check(p) \/ Edit(p) \/ Refuses(p) \/ Timeout(p) \/ Phrase(p)
           \/ WriteSealed(p) \/ WriteBundle(p) \/ Clean(p) \/ AnswersNo(p)
  <2>1. cmd' = cmd \/ \E a : Goto(p, a)
    BY <1>4 DEF Exists, Check, Edit, Refuses, Timeout, Phrase, WriteSealed, WriteBundle, Clean,
                AnswersNo, Fails
  <2>2. QED
    BY <1>2, <2>1
<1>5. CASE Resolve(p)
  <2>1. \E h, a : cmd' = [cmd EXCEPT ![p].hsm = h, ![p].at = a]
    BY <1>5 DEF Resolve
  <2>2. QED
    BY <1>1, <2>1 DEF Command
<1>6. CASE Read(p)
  <2>1. \E b, a : cmd' = [cmd EXCEPT ![p].blob = b, ![p].at = a]
    BY <1>6 DEF Read
  <2>2. QED
    BY <1>1, <2>1 DEF Command
<1>7. ASSUME NEW w, NEW m, Open(p, w, m)
      PROVE  cmd'[p].line = cmd[p].line
  <2>1. CASE Goto(p, m)
    BY <1>2, <2>1
  <2>2. CASE cmd' = [cmd EXCEPT ![p].at = AfterOpen(p), ![p].pass = w, ![p].dk = fresh + 1]
    BY <1>1, <2>2 DEF Command
  <2>3. CASE cmd' = [cmd EXCEPT ![p].at = AfterOpen(p), ![p].pass = w, ![p].dk = vault[VaultOf(p)].dk]
    BY <1>1, <2>3 DEF Command
  <2>4. QED
    BY <1>7, <2>1, <2>2, <2>3 DEF Open
<1>8. CASE Create(p)
  <2>1. CASE Goto(p, AfterError(p))
    BY <1>2, <2>1
  <2>2. CASE cmd' = [cmd EXCEPT ![p].at = "phrase", ![p].pass = fresh + 1, ![p].dk = fresh + 1]
    BY <1>1, <2>2 DEF Command
  <2>3. QED
    BY <1>8, <2>1, <2>2 DEF Create
<1>9. CASE OpenSealed(p) \/ Prompt(p)
  BY <1>7, <1>9 DEF OpenSealed, Prompt
<1>10. CASE Returns(p)
  <2>1. \/ \E w : cmd' = [cmd EXCEPT ![p].at = "open", ![p].pass = w]
        \/ \E b : cmd' = [cmd EXCEPT ![p].at = "write", ![p].blob = b]
    BY <1>10 DEF Returns
  <2>2. QED
    BY <1>1, <2>1 DEF Command
<1>11. CASE Spawn(p)
  <2>1. cmd' = [cmd EXCEPT ![p].waits = TRUE]
    BY <1>11 DEF Spawn
  <2>2. QED
    BY <1>1, <2>1 DEF Command
<1>12. CASE Answers(p)
  <2>1. \/ cmd' = cmd
        \/ \E b : cmd' = [cmd EXCEPT ![p].at = "write", ![p].waits = FALSE, ![p].blob = b]
        \/ \E w : cmd' = [cmd EXCEPT ![p].at = "open", ![p].waits = FALSE, ![p].pass = w]
        \/ \E a : Goto(p, a)
    BY <1>12 DEF Answers
  <2>2. QED
    BY <1>1, <1>2, <2>1 DEF Command
<1>13. QED
  BY <1>3, <1>4, <1>5, <1>6, <1>8, <1>9, <1>10, <1>11, <1>12 DEF Step

\* open_vault creates a vault with a passphrase that is not its data key.
LEMMA OpenTame ==
  ASSUME TypeInv, NEW p \in Process, Running(p), NEW pass \in KnownBy(fresh), NEW m,
         Open(p, pass, m), NEW v \in Vault, Machine(v)'
  PROVE  vault'[v] = vault[v]
<1>1. fresh \in Nat /\ Typed \cap Nat = {} /\ vault \in [Vault -> Contents \cup {NoVault}]
  BY Bounds DEF TypeInv, TypeOK
<1>2. pass # fresh + 1
  BY <1>1 DEF KnownBy
<1>3. CASE vault' = [vault EXCEPT ![VaultOf(p)] = Mint(fresh + 1, pass)]
  <2>1. v = VaultOf(p) => vault'[v].dk = fresh + 1 /\ vault'[v].pass = pass
    BY <1>1, <1>3 DEF Mint
  <2>2. v # VaultOf(p)
    BY <1>2, <2>1 DEF Machine
  <2>3. QED
    BY <1>1, <1>3, <2>2
<1>4. CASE vault' = vault
  BY <1>4
<1>5. QED
  BY <1>3, <1>4 DEF Open

LEMMA OthersTame ==
  ASSUME TypeInv, NEW p \in Process, Running(p), Op(p) # "init-machine",
         Step(p) \/ Prompt(p) \/ Answers(p) \/ AnswersNo(p) \/ Kill(p)
  PROVE  /\ bundle' = bundle /\ abandoned' = abandoned
         /\ \A v \in Vault : Machine(v)' => /\ Machine(v) /\ vault'[v].dk = vault[v].dk
                                            /\ vault[v].rec => vault'[v].rec
<1>1. /\ cmd[p].at \in PlacesOf(Op(p)) /\ Op(p) \in {"seal", "set", "change-passphrase"}
      /\ VaultOf(p) \in Vault /\ cmd[p].line \in UserLine
      /\ CommandOK(cmd[p], worker[p], fresh)
  BY CmdFields DEF CommandOK, Op
<1>2. cmd[p].at \notin {"check", "create", "phrase", "bundle", "clean_vault", "clean_seal",
                        "clean_bundle"}
  BY <1>1 DEF PlacesOf
<1>3. ~Check(p) /\ ~Create(p) /\ ~Phrase(p) /\ ~WriteBundle(p) /\ ~Clean(p)
  BY <1>2 DEF Check, Create, Phrase, WriteBundle, Clean, At
<1>4. bundle' = bundle /\ abandoned' = abandoned
  <2>1. CASE Exists(p) \/ Resolve(p) \/ Read(p) \/ Returns(p) \/ Refuses(p) \/ Spawn(p)
             \/ Timeout(p) \/ WriteSealed(p) \/ Answers(p) \/ AnswersNo(p)
    BY <2>1 DEF Exists, Resolve, Read, Returns, Refuses, Spawn, Timeout, WriteSealed, Answers,
                AnswersNo, Fails, files, counts
  <2>2. CASE OpenSealed(p) \/ Prompt(p) \/ Edit(p)
    BY <2>2 DEF OpenSealed, Prompt, Open, Edit, counts
  <2>3. CASE Exit(p) \/ Kill(p)
    BY <1>1, <2>3 DEF Exit, Kill, End, files, Minted
  <2>4. QED
    BY <1>3, <2>1, <2>2, <2>3 DEF Step
<1>5. ASSUME NEW v \in Vault, Machine(v)'
      PROVE  /\ Machine(v) /\ vault'[v].dk = vault[v].dk
             /\ vault[v].rec => vault'[v].rec
  <2>1. ASSUME vault'[v] = vault[v]
        PROVE  Machine(v) /\ vault'[v].dk = vault[v].dk /\ (vault[v].rec => vault'[v].rec)
    BY <1>5, <2>1 DEF Machine
  <2>2. CASE OpenSealed(p)
    <3>1. At(p, "open") /\ Open(p, cmd[p].pass, "prompt")
      BY <2>2 DEF OpenSealed
    <3>2. cmd[p].pass \in KnownBy(fresh)
      BY <1>1, <3>1 DEF CommandOK, At
    <3>3. QED
      BY <1>5, <2>1, <3>1, <3>2, OpenTame
  <2>3. CASE Prompt(p)
    <3>1. PICK pass \in Typed : Open(p, pass, "failed")
      BY <2>3 DEF Prompt
    <3>2. pass \in KnownBy(fresh)
      BY DEF KnownBy
    <3>3. QED
      BY <1>5, <2>1, <3>1, <3>2, OpenTame
  <2>4. CASE Edit(p)
    <3> DEFINE u == VaultOf(p)
    <3>1. CASE vault' = vault
      BY <2>1, <3>1
    <3>2. CASE Op(p) = "set" /\ SameVault(p)
               /\ vault' = [vault EXCEPT ![u].creds = @ \cup {cmd[p].line.cred}]
      <4>1. vault \in [Vault -> Contents \cup {NoVault}] /\ vault[u] \in Contents
        BY <1>1, <3>2 DEF SameVault, TypeInv, TypeOK
      <4>2. /\ v # u => vault'[v] = vault[v]
            /\ vault'[u].dk = vault[u].dk /\ vault'[u].pass = vault[u].pass
            /\ vault'[u].rec = vault[u].rec /\ vault[u] # NoVault
        BY <1>1, <3>2, <4>1, Nulls DEF Contents
      <4>3. CASE v = u
        BY <1>5, <4>2, <4>3 DEF Machine
      <4>4. QED
        BY <2>1, <4>2, <4>3
    <3>3. CASE Op(p) = "change-passphrase" /\ SameVault(p)
               /\ vault' = [vault EXCEPT ![u].pass = cmd[p].line.pass]
      <4>1. vault \in [Vault -> Contents \cup {NoVault}] /\ vault[u] \in Contents
        BY <1>1, <3>3 DEF SameVault, TypeInv, TypeOK
      <4>2. cmd[p].line.pass \in Typed /\ Typed \cap Nat = {} /\ vault[u].dk \in Nat
        BY <1>1, <3>3, <4>1, Bounds DEF UserLine, Op, Contents
      <4>3. /\ v # u => vault'[v] = vault[v]
            /\ vault'[u].dk = vault[u].dk /\ vault'[u].pass = cmd[p].line.pass
        BY <1>1, <3>3, <4>1 DEF Contents
      <4>4. v # u
        BY <1>5, <4>2, <4>3 DEF Machine
      <4>5. QED
        BY <2>1, <4>3, <4>4
    <3>4. Op(p) \in {"set", "change-passphrase"}
      <4>1. cmd[p].at = "edit"
        BY <2>4 DEF Edit, At
      <4>2. QED
        BY <1>1, <4>1 DEF PlacesOf
    <3>5. \/ vault' = vault
          \/ /\ SameVault(p)
             /\ vault' =
                   CASE Op(p) = "set" -> [vault EXCEPT ![u].creds = @ \cup {cmd[p].line.cred}]
                     [] Op(p) = "change-passphrase" -> [vault EXCEPT ![u].pass = cmd[p].line.pass]
      BY <2>4 DEF Edit
    <3>6. QED
      BY <3>1, <3>2, <3>3, <3>4, <3>5
  <2>5. CASE ~OpenSealed(p) /\ ~Prompt(p) /\ ~Edit(p)
    <3>1. vault' = vault
      BY <1>3, <2>5 DEF Step, Exists, Resolve, Read, Returns, Refuses, Spawn, Timeout, WriteSealed,
         Answers, AnswersNo, Exit, Kill, End, Fails, files
    <3>2. QED
      BY <2>1, <3>1
  <2>6. QED
    BY <2>2, <2>3, <2>4, <2>5
<1>6. QED
  BY <1>4, <1>5

-----------------------------------------------------------------------------
(* The theorem.                                                            *)

LEMMA MachineRun ==
  ASSUME TypeInv, MachineInv, OneInstaller, NEW p \in Process, NEW line \in Line, Run(p, line)
  PROVE  MachineInv'
<1>1. /\ vault' = vault /\ bundle' = bundle /\ abandoned' = abandoned /\ ~Running(p)
      /\ line.op = "init-machine" => p \in Installer
  BY DEF Run, files
<1>2. /\ cmd'[p].line = line /\ cmd'[p].dk = 0 /\ cmd'[p].at = Entry(line.op)
      /\ \A q \in Process \ {p} : cmd'[q] = cmd[q]
  BY DEF Run, TypeInv, TypeOK
<1>3. ASSUME NEW v \in Vault
      PROVE  VaultOK(v)'
  <2>1. VaultOK(v) /\ (Machine(v)' => Machine(v))
    BY <1>1 DEF MachineInv, Machine
  <2>2. ASSUME NEW q \in Process, Answerable(q, v)
        PROVE  Answerable(q, v)'
    <3>1. q # p
      BY <1>1, <2>2 DEF Answerable
    <3>2. cmd'[q] = cmd[q]
      BY <1>2, <3>1
    <3>3. QED
      BY <1>1, <2>2, <3>2 DEF Answerable, Running, Op, At
  <2>3. QED
    BY <1>1, <2>1, <2>2 DEF VaultOK
<1>4. ASSUME NEW q \in Process
      PROVE  InstallOK(q)'
  <2>1. CASE q # p
    <3>1. cmd'[q] = cmd[q] /\ InstallOK(q)
      BY <1>2, <2>1 DEF MachineInv
    <3>2. Running(q)' => Running(q) /\ VaultOf(q)' = VaultOf(q) /\ Op(q)' = Op(q)
      BY <3>1 DEF Running, VaultOf, Op
    <3>3. Running(q)' => (Machine(VaultOf(q))' <=> Machine(VaultOf(q)))
      BY <1>1, <3>2 DEF Machine
    <3>4. Running(q)' /\ PlaceOK(q) => PlaceOK(q)'
      BY <1>1, <3>1, <3>2, <3>3 DEF PlaceOK
    <3>5. \A v \in Vault : Machine(v)' => Machine(v)
      BY <1>1 DEF Machine
    <3>6. QED
      BY <1>1, <3>1, <3>2, <3>4, <3>5 DEF InstallOK
  <2>2. CASE q = p
    <3>1. SUFFICES ASSUME (Op(p) = "init-machine")'
                   PROVE  /\ p \in Installer /\ PlaceOK(p)'
                          /\ \A v \in Vault : Machine(v)' /\ vault'[v].dk = cmd'[p].dk => v = VaultOf(p)'
      BY <2>2 DEF InstallOK
    <3>2. line.op = "init-machine" /\ cmd'[p].at = "check"
      BY <1>2, <3>1 DEF Op, Entry
    <3>3. PlaceOK(p)'
      BY <3>2 DEF PlaceOK
    <3>4. ASSUME NEW v \in Vault, Machine(v)'
          PROVE  vault'[v].dk # cmd'[p].dk
      <4>1. Machine(v)
        BY <1>1, <3>4 DEF Machine
      <4>2. vault[v].dk # 0
        BY <4>1, VaultFields DEF Machine
      <4>3. QED
        BY <1>1, <1>2, <4>2
    <3>5. QED
      BY <1>1, <3>2, <3>3, <3>4
  <2>3. QED
    BY <2>1, <2>2
<1>5. QED
  BY <1>3, <1>4 DEF MachineInv

LEMMA MachineOther ==
  ASSUME TypeInv, MachineInv, NEW p \in Process, Running(p), Op(p) # "init-machine", Frame(p),
         Step(p) \/ Prompt(p) \/ Answers(p) \/ AnswersNo(p) \/ Kill(p)
  PROVE  MachineInv'
<1>1. (Running(p)' => Op(p)' = Op(p)) /\ \A q \in Process \ {p} : cmd'[q] = cmd[q]
  BY LineKept DEF Running, Op, Frame
<1>2. ASSUME NEW q \in Process,
             \/ Running(q) /\ Op(q) = "init-machine"
             \/ Running(q)' /\ (Op(q) = "init-machine")'
      PROVE  cmd'[q] = cmd[q]
  <2>1. q # p
    BY <1>1, <1>2
  <2>2. QED
    BY <1>1, <2>1
<1>3. /\ bundle' = bundle /\ abandoned \subseteq abandoned'
      /\ \A v \in Vault : Machine(v)' => /\ Machine(v) /\ vault'[v].dk = vault[v].dk
                                         /\ vault[v].rec => vault'[v].rec
  BY OthersTame
<1>4. QED
  BY <1>2, <1>3, TameStep

LEMMA MachineStep == OneInstaller => (TypeInv /\ MachineInv /\ [Next]_vars => MachineInv')
<1> SUFFICES ASSUME OneInstaller, TypeInv, MachineInv, [Next]_vars
             PROVE  MachineInv'
  OBVIOUS
<1>1. ASSUME NEW p \in Process, NEW line \in Line, Run(p, line)
      PROVE  MachineInv'
  BY <1>1, MachineRun
<1>2. ASSUME NEW p \in Process, Step(p) \/ Prompt(p) \/ Answers(p) \/ AnswersNo(p) \/ Kill(p)
      PROVE  MachineInv'
  <2>1. Frame(p)
    BY <1>2, LookKept, VaultKept, BackendKept, KeyringKept, MachineKept, EndKept DEF Step, StepKept
  <2>2. Running(p)
    <3>1. worker[p] # Nothing => Running(p)
      BY DEF TypeInv, CmdOK
    <3>2. QED
      BY <1>2, <3>1 DEF Step, Exists, Resolve, Read, OpenSealed, Edit, Returns, Refuses, Spawn, Timeout,
         Check, Create, Phrase, WriteSealed, WriteBundle, Clean, Exit, Prompt, Answers, AnswersNo, Kill, At
  <2>3. CASE Op(p) = "init-machine"
    <3>1. cmd[p].at \notin {"exists", "read", "open", "prompt", "edit"}
      BY <2>2, <2>3, CmdFields DEF CommandOK, PlacesOf, Op
    <3>2. ~Exists(p) /\ ~Read(p) /\ ~OpenSealed(p) /\ ~Prompt(p) /\ ~Edit(p)
      BY <3>1 DEF Exists, Read, OpenSealed, Prompt, Edit, At
    <3>3. QED
      BY <1>2, <2>1, <2>2, <2>3, <3>2, InstallLooks, InstallWrites DEF Step
  <2>4. CASE Op(p) # "init-machine"
    BY <1>2, <2>1, <2>2, <2>4, MachineOther
  <2>5. QED
    BY <2>3, <2>4
<1>3. CASE FirmwareUpdate \/ UNCHANGED vars
  <2>1. vault' = vault /\ bundle' = bundle /\ abandoned' = abandoned /\ cmd' = cmd
    BY <1>3 DEF FirmwareUpdate, vars, files, counts
  <2>2. \A v \in Vault : Machine(v)' => Machine(v)
    BY <2>1 DEF Machine
  <2>3. QED
    BY <2>1, <2>2, TameStep
<1>4. QED
  BY <1>1, <1>2, <1>3 DEF Next

LEMMA MachineInit == Init => MachineInv
BY DEF Init, MachineInv, VaultOK, InstallOK, Machine, Running

\* The passphrase of a machine vault is known to nobody.  Once its init-machine is over,
\* whatever step of it failed, the vault is gone or its recovery bundle is there, unless it
\* was killed or the removal of the vault failed as well.  The hypothesis is that one
\* process only runs init-machine: with two of them the clean-up of one removes the bundle
\* of the other (main.rs, cmd_init_machine).
THEOREM MachineVaultsAreRecoverable ==
  ASSUME OneInstaller
  PROVE  Spec => []MachineVaultHasItsBundle
<1>1. MachineInv => MachineVaultHasItsBundle
  BY DEF MachineInv, VaultOK, Machine, Answerable, MachineVaultHasItsBundle
<1>2. TypeInv /\ MachineInv /\ [Next]_vars => MachineInv'
  BY MachineStep
<1>3. QED
  BY <1>1, <1>2, MachineInit, TypeAlways, PTL DEF Spec
==============================================================================
