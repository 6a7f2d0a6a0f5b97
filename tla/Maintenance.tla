----------------------------- MODULE Maintenance -----------------------------
(***************************************************************************)
(* PIN change, backup check, factory reset, wipe, and the failure events:  *)
(* reducer/maintenance.rs, and runtime_failure and tamper_detected of      *)
(* reducer/common.rs.                                                      *)
(***************************************************************************)
EXTENDS WalletState

MaintenanceRequested(id, host, kind, request) ==
    \/ RequestRefusal(host) # Accepted /\ Reject(RequestRefusal(host))
    \/ /\ RequestRefusal(host) = Accepted
       /\ flow' = [tag |-> "Maintenance", id |-> id, kind |-> kind]
       /\ effect' = [tag |-> request, id |-> id]
       /\ UNCHANGED <<lifecycle, auth, policy>>

ChangePinRequested(id, host) ==
    MaintenanceRequested(id, host, "ChangePin", "ChangePin")
BackupCheckRequested(id, host) ==
    MaintenanceRequested(id, host, "VerifyBackup", "VerifyBackup")

IsMaintenance == flow.tag = "Maintenance"

\* maintenance_completed tests the id before the kind.
PinChangedRefusal(id) ==
    LET refusal == CallbackRefusal(IsMaintenance, flow.id, id)
    IN IF refusal = Accepted /\ flow.kind # "ChangePin" THEN "InvalidState"
       ELSE refusal

PinChanged(id) ==
    \/ PinChangedRefusal(id) # Accepted /\ Reject(PinChangedRefusal(id))
    \/ /\ PinChangedRefusal(id) = Accepted
       /\ flow' = Idle
       /\ effect' = [tag |-> "MaintenanceComplete", id |-> id]
       /\ UNCHANGED <<lifecycle, auth, policy>>

BackupCheckRefusal(id) ==
    CallbackRefusal(IsMaintenance /\ flow.kind = "VerifyBackup", flow.id, id)

BackupCheckCompleted(id, valid) ==
    \/ BackupCheckRefusal(id) # Accepted /\ Reject(BackupCheckRefusal(id))
    \/ /\ BackupCheckRefusal(id) = Accepted
       /\ flow' = Idle
       /\ lifecycle' = IF valid /\ IsProvisioned
                       THEN [lifecycle EXCEPT !.metadata.backup = "Verified"]
                       ELSE lifecycle
       /\ effect' = IF ~valid THEN [tag |-> "ReportBackupInvalid", id |-> id]
                    ELSE IF IsProvisioned
                    THEN [tag |-> "MaintenanceComplete", id |-> id]
                    ELSE Rejection("NotProvisioned")
       /\ UNCHANGED <<auth, policy>>

FactoryResetRequested(id, host) ==
    \/ RequestRefusal(host) # Accepted /\ Reject(RequestRefusal(host))
    \/ /\ RequestRefusal(host) = Accepted
       /\ flow' = [tag |-> "FactoryReset", id |-> id, host |-> host]
       /\ effect' = [tag |-> "RenderFactoryResetWarning", id |-> id]
       /\ UNCHANGED <<lifecycle, auth, policy>>

FactoryResetRefusal(id) ==
    CallbackRefusal(flow.tag = "FactoryReset", flow.id, id)

FactoryResetConfirmed(id) ==
    \/ FactoryResetRefusal(id) # Accepted /\ Reject(FactoryResetRefusal(id))
    \/ FactoryResetRefusal(id) = Accepted /\ StartWipe

FactoryResetRejected(id) ==
    \/ FactoryResetRefusal(id) # Accepted /\ Reject(FactoryResetRefusal(id))
    \/ /\ FactoryResetRefusal(id) = Accepted
       /\ flow' = Idle
       /\ effect' = [tag |-> "FactoryResetRejected", id |-> id]
       /\ UNCHANGED <<lifecycle, auth, policy>>

ResetToEmpty ==
    /\ lifecycle' = Empty
    /\ auth' = Unavailable
    /\ flow' = Idle
    /\ UNCHANGED policy

WipeCompleted ==
    \/ lifecycle # Wiping /\ Reject("InvalidState")
    \/ /\ lifecycle = Wiping
       /\ ResetToEmpty
       /\ effect' = [tag |-> "WalletWiped"]

-----------------------------------------------------------------------------
(* Failure events *)

\* Mutant: a failure abandons a wipe like a setup.
RuntimeFailure_AbandonsWipe ==
    \/ /\ IsProvisioned
       /\ LockWallet
    \/ /\ ~IsProvisioned
       /\ ResetToEmpty
       /\ effect' = [tag |-> "ClearSensitiveState"]
\* Mutant: a failure clears the secrets and leaves the flow waiting.
RuntimeFailure_KeepsWaiting ==
    /\ effect' = [tag |-> "ClearSensitiveState"]
    /\ UNCHANGED wallet
RuntimeFailure ==
    \/ /\ IsProvisioned
       /\ LockWallet
    \/ /\ lifecycle.tag = "Provisioning"
       /\ ResetToEmpty
       /\ effect' = [tag |-> "ClearSensitiveState"]
    \/ /\ lifecycle \in {Empty, Wiping}
       /\ effect' = NoEffect
       /\ UNCHANGED wallet

TamperDetected ==
    \/ /\ lifecycle = Empty
       /\ effect' = NoEffect
       /\ UNCHANGED wallet
    \/ /\ lifecycle # Empty
       /\ StartWipe
=============================================================================
