--------------------------- MODULE MCVaultImports ----------------------------
(* VaultImports with one source of two lines. *)
EXTENDS VaultImports, TLC

CONSTANTS k1, k2, v1, v2

Symmetry == Permutations(Process)

Two   == 1 .. 2
NoInput == {}

Line(k, v) == [key |-> k, value |-> v]
TwoLines == [i \in Two |-> IF i = 1 THEN Line(k1, v1) ELSE Line(k2, v2)]
SameKey  == [i \in Two |-> IF i = 1 THEN Line(k1, v1) ELSE Line(k1, v2)]
UserTexts == {TwoLines, SameKey}

Jobs == {[op |-> "import", key |-> k1, tier |-> 3],
         [op |-> "import-env", tier |-> 3, force |-> FALSE, keep |-> FALSE],
         [op |-> "import-env", tier |-> 0, force |-> TRUE, keep |-> TRUE],
         [op |-> "adopt", force |-> FALSE], [op |-> "adopt", force |-> TRUE]}
=============================================================================
