---------------------------- MODULE MCWalletCore ----------------------------
(* Small instances of the reducer for TLC. *)
EXTENDS WalletCore, TLC

CONSTANTS h1, h2, i1, i2, w1, w2

Symmetry == Permutations({h1, h2}) \cup Permutations({i1, i2})
              \cup Permutations({w1, w2})

\* One kind per class that the reducer tells apart.
KindClasses == {"ShowAddress", "ExportPublicKey", "SignTransaction", "Custom"}

StrictPolicy == [pin_exhaustion |-> "Wipe", disconnect |-> "Lock",
                 signing_hosts |-> "AnySessionHost", blind_signing |-> "Deny"]
OnlyStrict == {StrictPolicy}

SecurityChanges(fields) ==
    [tag: {"Security"}, setting: {s \in SecuritySetting : s.field \in fields}]

\* What the review of an operation depends on.
SigningChanges ==
    SecurityChanges({"signing_hosts", "blind_signing"})
    \cup [tag: {"RevokeHost"}, host: Hosts]
    \cup [tag: {"RevokeAllHosts"}]
\* What an unlock attempt depends on.
UnlockChanges ==
    SecurityChanges({"pin_exhaustion", "disconnect"})
    \cup [tag: {"Passphrase"}, mode: PassphraseMode]
=============================================================================
