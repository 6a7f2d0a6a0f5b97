--------------------------- MODULE MCSecretDevice ---------------------------
(* Small instances of the device for TLC. *)
EXTENDS SecretDevice, TLC

CONSTANTS r1, r2

StrictPolicy == [pin_exhaustion |-> "Wipe", disconnect |-> "Lock",
                 signing_hosts |-> "AnySessionHost", blind_signing |-> "Deny"]
OnlyStrict == {StrictPolicy}
=============================================================================
