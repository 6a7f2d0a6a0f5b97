---------------------------- MODULE Provisioning ----------------------------
(***************************************************************************)
(* Wallet creation and recovery: reducer/provisioning.rs.                  *)
(***************************************************************************)
EXTENDS WalletState

IsProvisioning == lifecycle.tag = "Provisioning"

\* start_create and start_recovery differ in the mode, stage and effect.
StartSetup(id, mode, passphrase, stage, request) ==
    \/ /\ lifecycle # Empty
       /\ Reject("AlreadyProvisioned")
    \/ /\ lifecycle = Empty
       /\ lifecycle' = [tag |-> "Provisioning", id |-> id, mode |-> mode,
                        passphrase |-> passphrase, stage |-> stage]
       /\ effect' = request
       /\ UNCHANGED <<auth, flow, policy>>

StartCreate(id, passphrase) ==
    StartSetup(id, "Create", passphrase, "CreatingKeyMaterial",
               [tag |-> "GenerateKeyMaterial", id |-> id])

StartRecovery(id, format, passphrase) ==
    StartSetup(id, format, passphrase, "CapturingRecoveryMaterial",
               [tag |-> "CaptureRecoveryMaterial", id |-> id,
                format |-> format])

AdvanceStage(stage, request) ==
    /\ lifecycle' = [lifecycle EXCEPT !.stage = stage]
    /\ effect' = [tag |-> request, id |-> lifecycle.id]
    /\ UNCHANGED <<auth, flow, policy>>

RecoveryMaterialRefusal(id) ==
    LET refusal == CallbackRefusal(
            IsProvisioning /\ lifecycle.stage = "CapturingRecoveryMaterial",
            lifecycle.id, id)
    IN IF refusal = Accepted /\ lifecycle.mode = "Create"
       THEN "InvalidState" ELSE refusal

RecoveryMaterialCaptured(id) ==
    \/ /\ RecoveryMaterialRefusal(id) # Accepted
       /\ Reject(RecoveryMaterialRefusal(id))
    \/ /\ RecoveryMaterialRefusal(id) = Accepted
       /\ AdvanceStage("DerivingRecoveredKeyMaterial",
                       "DeriveRecoveredKeyMaterial")

\* The (mode, stage) pairs key_material_ready answers.
IsCreatingKey == /\ lifecycle.mode = "Create"
                 /\ lifecycle.stage = "CreatingKeyMaterial"
IsDerivingKey == /\ lifecycle.mode # "Create"
                 /\ lifecycle.stage = "DerivingRecoveredKeyMaterial"

KeyMaterialRefusal(id) ==
    LET refusal == CallbackRefusal(IsProvisioning, lifecycle.id, id)
    IN IF refusal = Accepted /\ ~IsCreatingKey /\ ~IsDerivingKey
       THEN "InvalidState" ELSE refusal

KeyMaterialReady(id) ==
    \/ /\ KeyMaterialRefusal(id) # Accepted
       /\ Reject(KeyMaterialRefusal(id))
    \/ /\ KeyMaterialRefusal(id) = Accepted
       /\ \/ IsCreatingKey /\ AdvanceStage("ShowingBackup", "ShowBackup")
          \/ IsDerivingKey /\ AdvanceStage("ConfiguringPin", "ConfigurePin")

StageRefusal(id, expected) ==
    LET refusal == CallbackRefusal(IsProvisioning, lifecycle.id, id)
    IN IF refusal = Accepted /\ lifecycle.stage # expected
       THEN "InvalidState" ELSE refusal

AdvanceProvisioning(id, expected, next, request) ==
    \/ /\ StageRefusal(id, expected) # Accepted
       /\ Reject(StageRefusal(id, expected))
    \/ /\ StageRefusal(id, expected) = Accepted
       /\ AdvanceStage(next, request)

\* Mutant: the words are shown and never asked back.
BackupShown_SkipsChallenge(id) ==
    AdvanceProvisioning(id, "ShowingBackup", "ConfiguringPin", "ConfigurePin")
BackupShown(id) ==
    AdvanceProvisioning(id, "ShowingBackup", "VerifyingBackup",
                        "ChallengeBackup")
BackupVerified(id) ==
    AdvanceProvisioning(id, "VerifyingBackup", "ConfiguringPin",
                        "ConfigurePin")
PinConfigured(id) ==
    AdvanceProvisioning(id, "ConfiguringPin", "Persisting",
                        "PersistProvisioning")

\* Mutant: a recovered wallet claims a verified backup.
NewMetadata_Verified(mode, passphrase) ==
    [origin |-> IF mode = "Create" THEN "Generated" ELSE mode,
     backup |-> "Verified", passphrase |-> passphrase]
NewMetadata(mode, passphrase) ==
    [origin |-> IF mode = "Create" THEN "Generated" ELSE mode,
     backup |-> IF mode = "Create" THEN "Verified" ELSE "RecoverySource",
     passphrase |-> passphrase]

ProvisioningPersistedRefusal(id) ==
    CallbackRefusal(IsProvisioning /\ lifecycle.stage = "Persisting",
                    lifecycle.id, id)

ProvisioningPersisted(id) ==
    \/ /\ ProvisioningPersistedRefusal(id) # Accepted
       /\ Reject(ProvisioningPersistedRefusal(id))
    \/ /\ ProvisioningPersistedRefusal(id) = Accepted
       /\ lifecycle' = Provisioned(NewMetadata(lifecycle.mode,
                                               lifecycle.passphrase))
       /\ auth' = Locked(0)
       /\ flow' = Idle
       /\ effect' = [tag |-> "ProvisioningComplete", id |-> id]
       /\ UNCHANGED policy
=============================================================================
