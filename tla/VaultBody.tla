------------------------------ MODULE VaultBody ------------------------------
(***************************************************************************)
(* The decrypted body of a vault: what `VaultBody.entries` maps each key   *)
(* to, and what every mutator of `VaultStore` does to it (store.rs).  The  *)
(* module has no variables.  Its operators take a body and return a body,  *)
(* and the `Can...` operators are the conditions under which the method    *)
(* returns Ok.                                                             *)
(*                                                                         *)
(* Abstracted: created_at / updated_at, and the calendar.  A due date is   *)
(* "never" (expires_at = None), "policy" (now + rotate_days) or "pinned"   *)
(* (a date the provider dictates, `set --expires`).                        *)
(***************************************************************************)
EXTENDS Naturals

CONSTANTS
    Key,        \* names of credentials
    Value,      \* secret values
    NoEntry     \* what a body maps a key to that is not in the BTreeMap

TIER_MAX       == 4
TIER_USE_ONLY  == 3
TIER_SIGN_ONLY == 4

Tier == 1 .. TIER_MAX

BodyEntry == [value: Value, tier: Tier, rotate: BOOLEAN,
              due: {"never", "policy", "pinned"}]

ASSUME NoEntryAssumption == NoEntry \notin BodyEntry

Body      == [Key -> BodyEntry \cup {NoEntry}]
EmptyBody == [k \in Key |-> NoEntry]

Has(body, k) == body[k] # NoEntry

\* Faulty variant: the upper bound is forgotten.
validate_tier_unbounded(t) == t # 0

validate_tier(t) == t # 0 /\ t <= TIER_MAX

\* `due_from`: the due date that follows from a rotation policy.
DueFrom(rotate) == IF rotate THEN "policy" ELSE "never"

-----------------------------------------------------------------------------
(* Mutators. *)

CanSet(body, k, t) == validate_tier(t)

\* A new value keeps the policy of the key and moves its due date forward; a
\* pinned date does not survive it.
SetEntry(body, k, v, t) ==
    LET rotate == Has(body, k) /\ body[k].rotate
    IN  [body EXCEPT ![k] = [value  |-> v,      tier |-> t,
                             rotate |-> rotate, due  |-> DueFrom(rotate)]]

SetRotation(body, k, rotate) ==
    [body EXCEPT ![k] = [@ EXCEPT !.rotate = rotate, !.due = DueFrom(rotate)]]

SetExpiry(body, k) ==
    [body EXCEPT ![k] = [@ EXCEPT !.due = "pinned"]]

Delete(body, k) == [body EXCEPT ![k] = NoEntry]

CanRename(body, from, to) ==
    from = to \/ (Has(body, from) /\ ~Has(body, to))

Rename(body, from, to) ==
    IF from = to THEN body
                 ELSE [body EXCEPT ![from] = NoEntry, ![to] = body[from]]

CanRetier(body, k, t) == validate_tier(t) /\ Has(body, k)

Retier(body, k, t) == [body EXCEPT ![k] = [@ EXCEPT !.tier = t]]
=============================================================================
