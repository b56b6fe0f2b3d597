--------------------------- MODULE MCVaultCommands ---------------------------
(***************************************************************************)
(* VaultCommands on small sets, and the menus.  Each menu asks a question  *)
(* of its own, and all lines at once would be too many.                    *)
(***************************************************************************)
EXTENDS VaultCommands, TLC

CONSTANTS k1, k2, v1, v2, pa, pb

NoInput == {}

\* Processes are interchangeable; not used where liveness is checked.
Symmetry == Permutations(Process)

SetLine(k, v, t, rotate, pin) ==
    [op |-> "set", key |-> k, value |-> v, tier |-> t, rotate |-> rotate, pin |-> pin]
DeleteLine(k, b) == [op |-> "delete", key |-> k, no_backup |-> b]
RenameLine(k, l) == [op |-> "rename", key |-> k, to |-> l]
RetierLine(k, t) == [op |-> "retier", key |-> k, tier |-> t]
PassLine(via, pass) == [op |-> "change-passphrase", via |-> via, pass |-> pass]
Plain(op)        == [op |-> op]
RestoreLine(n)   == [op |-> "restore", name |-> n]

\* Storing, moving, retiering and deleting two keys, with and without a snapshot.
EditLines ==
    {SetLine(k1, v1, {}, {}, FALSE), SetLine(k1, v2, {}, {TRUE}, TRUE),
     RenameLine(k1, k2), RenameLine(k1, k1), RetierLine(k1, 2), RetierLine(k1, 4), RetierLine(k2, 1),
     DeleteLine(k1, TRUE), DeleteLine(k1, FALSE)}

\* Everything that touches the wraps, with an edit to race against.
KeyLines ==
    {SetLine(k1, v1, {}, {}, FALSE), PassLine("open", pb), PassLine("unlock", pb)}
    \cup {Plain(op) : op \in {"new-recovery-key", "recover", "init"}}

\* Sharing, with another vault and with itself, while tiers and keys change.
ShareLine(cap) == [op |-> "share", cap |-> cap]
ReceiveLine(force, l) == [op |-> "receive", force |-> force, all_to |-> l]
ShareLines ==
    {SetLine(k1, v1, {1}, {}, FALSE), RetierLine(k1, 4), RestoreLine(Imported),
     ShareLine({1}), ShareLine({3}),
     ReceiveLine(FALSE, {}), ReceiveLine(TRUE, {}), ReceiveLine(TRUE, {k2})}

HeldBy(v, t) == [value |-> v, tier |-> t, rotate |-> FALSE, due |-> "never"]
Teammates == {[k \in Key |-> IF k = k1 THEN HeldBy(v2, 2) ELSE HeldBy(v1, 4)],
              [k \in Key |-> IF k = k1 THEN HeldBy(v2, 1) ELSE HeldBy(v1, 3)]}

\* Snapshots, by name of the second.
OneSecond  == 0 .. 1
TwoSeconds == 0 .. 2
CopyLines ==
    {SetLine(k1, v1, {}, {}, FALSE), Plain("backup"), DeleteLine(k1, FALSE),
     RestoreLine(Imported), RestoreLine(1)}

MenuOf(lines, n, pass, others) ==
    [lines |-> lines, runs |-> n, pass |-> pass, others |-> others]

Menus == ("edit"  :> MenuOf(EditLines, 4, {pa}, {}))
      @@ ("keys"  :> MenuOf(KeyLines, 3, {pa, pb}, {}))
      @@ ("share" :> MenuOf(ShareLines, 3, {pa}, Teammates))

ThreeCopies == "copies" :> MenuOf(CopyLines, 3, {pa}, {})
FourCopies  == "copies" :> MenuOf(CopyLines, 4, {pa}, {})
=============================================================================
