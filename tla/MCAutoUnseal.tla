---------------------------- MODULE MCAutoUnseal -----------------------------
(* AutoUnseal with one vault; what other vaults left behind is in the first state. *)
EXTENDS AutoUnseal

CONSTANTS va, dir, ta, c

InDir == [w \in Vault |-> dir]

Plain(op) == [op |-> op, vault |-> va, backend |-> Detect]

\* change-passphrase runs with another --backend than the rest.
Lines == {Plain("init-machine"), Plain("seal"),
          [op |-> "set", vault |-> va, backend |-> Detect, cred |-> c],
          [op |-> "change-passphrase", vault |-> va, backend |-> "systemd-creds", pass |-> ta]}

Hosts == {{"tpm2", "keyring"}, {"keyring"}, {"systemd-creds"}}
=============================================================================
