-------------------------- MODULE MCDurableDevice --------------------------
(* Small instances of the device for TLC. *)
EXTENDS DurableDevice

StrictPolicy == [pin_exhaustion |-> "Wipe", disconnect |-> "Lock",
                 signing_hosts |-> "AnySessionHost", blind_signing |-> "Deny"]
OnlyStrict == {StrictPolicy}

\* The settings an unlock depends on, and hosts that can be revoked.
SomeChanges ==
    [tag: {"Security"}, setting: {s \in SecuritySetting : s.field = "pin_exhaustion"}]
    \cup [tag: {"Passphrase"}, mode: {"Optional", "Disabled"}]
    \cup [tag: {"RevokeHost"}, host: {1}]
    \cup [tag: {"RevokeAllHosts"}]
=============================================================================
