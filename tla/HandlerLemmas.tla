--------------------------- MODULE HandlerLemmas ---------------------------
(***************************************************************************)
(* Lemmas the proofs about the reducer and the devices share: every        *)
(* handler of the reducer takes a well-formed state and effect to a        *)
(* well-formed state and effect, for every set of hosts, ids and wallet    *)
(* contexts, every choice of kinds, formats, modes, policies and changes,  *)
(* and every PIN budget; and what the operations on a queue do to its      *)
(* contents.                                                               *)
(***************************************************************************)
EXTENDS BackendProtocol, Operation, SequencesExt, SequenceTheorems, TLAPS

StateOK ==
    /\ lifecycle \in Lifecycle
    /\ auth \in AuthState
    /\ flow \in FlowState
    /\ policy \in SecurityPolicy
    /\ effect \in Effect

\* The handlers by the file they come from.
SetupHandlers(id) ==
    \/ \E p \in Modes : StartCreate(id, p)
    \/ \E f \in Formats, p \in Modes : StartRecovery(id, f, p)
    \/ RecoveryMaterialCaptured(id) \/ KeyMaterialReady(id)
    \/ BackupShown(id) \/ BackupVerified(id) \/ PinConfigured(id)
    \/ ProvisioningPersisted(id)
AuthHandlers(id) ==
    \/ \E h \in Hosts : UnlockRequested(id, h)
    \/ \E t \in HostTrust : HostTrustResolved(id, t)
    \/ PinVerified(id)
    \/ \E n \in RetryCount : PinRejected(id, n)
    \/ PassphraseProvided(id) \/ PassphraseSkipped(id)
    \/ \E s \in Ids, w \in Wallets : SessionOpened(id, s, w)
    \/ SessionExpired(id)
PairingHandlers(id) ==
    \/ \E h \in Hosts : PairingRequested(id, h)
    \/ PairingConfirmed(id) \/ PairingRejected(id) \/ TrustedHostPersisted(id)
OperationHandlers(id) ==
    \/ \E h \in Hosts : OperationRequested(id, h)
    \/ \E plan \in ReviewPlan : ReviewPrepared(id, plan)
    \/ ReviewDisplayed(id) \/ OperationConfirmed(id) \/ OperationRejected(id)
    \/ OperationCompleted(id) \/ OperationFailed(id) \/ OperationCancelled(id)
SettingsHandlers(id) ==
    \/ \E h \in Hosts, c \in Changes : SettingChangeRequested(id, h, c)
    \/ SettingChangeConfirmed(id) \/ SettingChangeRejected(id)
    \/ SettingChangePersisted(id)
MaintenanceHandlers(id) ==
    \/ \E h \in Hosts : \/ ChangePinRequested(id, h)
                         \/ BackupCheckRequested(id, h)
                         \/ FactoryResetRequested(id, h)
    \/ PinChanged(id)
    \/ \E valid \in BOOLEAN : BackupCheckCompleted(id, valid)
    \/ FactoryResetConfirmed(id) \/ FactoryResetRejected(id)
BoardHandlers ==
    \/ LockRequested
    \/ \E h \in Hosts : HostDisconnected(h)
    \/ WipeCompleted \/ RuntimeFailure \/ TamperDetected

LEMMA RejectTypes ==
    ASSUME StateOK, NEW reason \in RejectReason, Reject(reason)
    PROVE  StateOK'
  BY DEF StateOK, Reject, Rejection, wallet, Effect

LEMMA RejectOperationTypes ==
    ASSUME StateOK, NEW id \in Ids, NEW reason \in RejectReason,
           RejectOperation(id, reason)
    PROVE  StateOK'
  BY DEF StateOK, RejectOperation, wallet, Effect

\* The refusals are reasons, or Accepted, which is none.
LEMMA RefusalTypes ==
    /\ Accepted \notin RejectReason
    /\ \A host : RequestRefusal(host) \in RejectReason \cup {Accepted}
    /\ \A expected, id, actual :
          CallbackRefusal(expected, id, actual) \in RejectReason \cup {Accepted}
  BY DEF Accepted, RejectReason, RequestRefusal, CallbackRefusal

LEMMA LockTypes ==
    ASSUME StateOK, LockWallet
    PROVE  StateOK'
  BY RetryAssumption
  DEF StateOK, LockWallet, Locked, Idle, NoEffect, FailedAttempts, AuthState,
      FlowState, Effect, RetryCount

LEMMA WipeTypes ==
    ASSUME StateOK, StartWipe
    PROVE  StateOK'
  BY DEF StateOK, StartWipe, Wiping, Unavailable, Idle, Lifecycle, AuthState,
         FlowState, Effect

LEMMA StageTypes ==
    ASSUME StateOK, IsProvisioning, NEW stage \in ProvisioningStage,
           NEW request \in {"DeriveRecoveredKeyMaterial", "ShowBackup",
                            "ChallengeBackup", "ConfigurePin",
                            "PersistProvisioning"},
           AdvanceStage(stage, request)
    PROVE  StateOK'
  BY DEF StateOK, IsProvisioning, AdvanceStage, Lifecycle, Effect

LEMMA SetupTypes ==
    ASSUME StateOK, NEW id \in Ids, SetupHandlers(id)
    PROVE  StateOK'
<1> USE RefusalTypes, RejectTypes
<1>1. ASSUME NEW p \in Modes, StartCreate(id, p) PROVE StateOK'
  BY <1>1, ModesAssumption
  DEF StateOK, StartCreate, StartSetup, Lifecycle, Effect, ProvisioningMode,
      ProvisioningStage, Empty, RejectReason
<1>2. ASSUME NEW f \in Formats, NEW p \in Modes, StartRecovery(id, f, p)
      PROVE  StateOK'
  BY <1>2, ModesAssumption
  DEF StateOK, StartRecovery, StartSetup, Lifecycle, Effect, ProvisioningMode,
      ProvisioningStage, Empty, RejectReason
<1>3. CASE RecoveryMaterialCaptured(id)
  BY <1>3, StageTypes
  DEF RecoveryMaterialCaptured, RecoveryMaterialRefusal, CallbackRefusal,
      Accepted, RejectReason, ProvisioningStage
<1>4. CASE KeyMaterialReady(id)
  BY <1>4, StageTypes
  DEF KeyMaterialReady, KeyMaterialRefusal, CallbackRefusal,
      Accepted, RejectReason, ProvisioningStage
<1>5. CASE BackupShown(id) \/ BackupVerified(id) \/ PinConfigured(id)
  BY <1>5, StageTypes
  DEF BackupShown, BackupVerified, PinConfigured, AdvanceProvisioning,
      StageRefusal, CallbackRefusal, Accepted, RejectReason, ProvisioningStage
<1>6. CASE ProvisioningPersisted(id)
  <2>1. CASE ProvisioningPersistedRefusal(id) # Accepted
    BY <1>6, <2>1 DEF ProvisioningPersisted, ProvisioningPersistedRefusal
  <2>2. CASE ProvisioningPersistedRefusal(id) = Accepted
    <3>1. IsProvisioning
      BY <2>2
      DEF ProvisioningPersistedRefusal, CallbackRefusal, Accepted
    <3>2. NewMetadata(lifecycle.mode, lifecycle.passphrase) \in WalletMetadata
      BY <3>1
      DEF StateOK, IsProvisioning, Lifecycle, NewMetadata, WalletMetadata,
          ProvisioningMode, WalletOrigin, BackupStatus
    <3>3. QED
      BY <1>6, <2>2, <3>2, RetryAssumption
      DEF ProvisioningPersisted, StateOK, Provisioned, Locked, Idle,
          Lifecycle, AuthState, FlowState, Effect, RetryCount
  <2>3. QED
    BY <2>1, <2>2
<1>7. QED
  BY <1>1, <1>2, <1>3, <1>4, <1>5, <1>6 DEF SetupHandlers

LEMMA AttemptTypes ==
    ASSUME StateOK, auth.tag \notin {"Unavailable", "Locked", "Unlocked"},
           NEW stage \in {"VerifyingPin", "AwaitingPassphrase",
                          "OpeningSession"},
           NEW trust \in HostTrust, NEW failed \in RetryCount
    PROVE  Attempt(stage, trust, failed) \in AuthState
  BY DEF StateOK, Attempt, AuthState

LEMMA OpenSessionTypes ==
    ASSUME StateOK, auth.tag \in {"VerifyingPin", "AwaitingPassphrase"},
           NEW failed \in RetryCount, OpenSession(failed)
    PROVE  StateOK'
<1>1. auth.trust \in HostTrust /\ auth.id \in Ids /\ auth.host \in Hosts
  BY DEF StateOK, AuthState
<1>2. auth' \in AuthState
  BY <1>1, AttemptTypes DEF OpenSession
<1>3. QED
  BY <1>1, <1>2 DEF StateOK, OpenSession, Effect

LEMMA AuthTypes ==
    ASSUME StateOK, NEW id \in Ids, AuthHandlers(id)
    PROVE  StateOK'
<1> USE RefusalTypes, RejectTypes
<1>0. 0 \in RetryCount
  BY RetryAssumption DEF RetryCount
<1>1. ASSUME NEW h \in Hosts, UnlockRequested(id, h) PROVE StateOK'
  <2>1. CASE UnlockRefusal # Accepted
    BY <1>1, <2>1
    DEF UnlockRequested, UnlockRefusal, RejectReason
  <2>2. CASE UnlockRefusal = Accepted
    BY <1>1, <2>2
    DEF UnlockRequested, UnlockRefusal, Accepted, StateOK, AuthState, Effect
  <2>3. QED
    BY <2>1, <2>2
<1>2. ASSUME NEW t \in HostTrust, HostTrustResolved(id, t) PROVE StateOK'
  <2> DEFINE refusal == CallbackRefusal(auth.tag = "ResolvingHost", auth.id, id)
  <2>1. CASE refusal # Accepted
    BY <1>2, <2>1 DEF HostTrustResolved
  <2>2. CASE refusal = Accepted
    <3>1. auth.tag = "ResolvingHost"
      BY <2>2 DEF CallbackRefusal, Accepted
    <3>2. auth.failed \in RetryCount /\ auth.host \in Hosts
      BY <3>1 DEF StateOK, AuthState
    <3>3. auth' \in AuthState
      BY <1>2, <2>2, <3>1, <3>2, AttemptTypes DEF HostTrustResolved
    <3>4. QED
      BY <1>2, <2>2, <3>2, <3>3 DEF HostTrustResolved, StateOK, Effect
  <2>3. QED
    BY <2>1, <2>2
<1>3. CASE PinVerified(id)
  <2>1. CASE PinVerifiedRefusal(id) # Accepted
    BY <1>3, <2>1 DEF PinVerified, PinVerifiedRefusal, RejectReason
  <2>2. CASE PinVerifiedRefusal(id) = Accepted
    <3>1. auth.tag = "VerifyingPin"
      BY <2>2 DEF PinVerifiedRefusal, CallbackRefusal, Accepted
    <3>2. CASE OpenSession(0)
      BY <1>0, <3>1, <3>2, OpenSessionTypes
    <3>3. CASE ~OpenSession(0)
      <4>1. auth.trust \in HostTrust
        BY <3>1 DEF StateOK, AuthState
      <4>2. auth' \in AuthState
        BY <1>0, <1>3, <2>2, <3>1, <3>3, <4>1, AttemptTypes DEF PinVerified
      <4>3. QED
        BY <1>3, <2>2, <3>3, <4>2 DEF PinVerified, StateOK, Effect
    <3>4. QED
      BY <3>2, <3>3
  <2>3. QED
    BY <2>1, <2>2
<1>4. ASSUME NEW n \in RetryCount, PinRejected(id, n) PROVE StateOK'
  <2>1. CASE PinRejectedRefusal(id, n) # Accepted
    BY <1>4, <2>1 DEF PinRejected, PinRejectedRefusal, RejectReason
  <2>2. CASE PinRejectedRefusal(id, n) = Accepted /\ StartWipe
    BY <2>2, WipeTypes
  <2>3. CASE PinRejectedRefusal(id, n) = Accepted /\ ~StartWipe
    BY <1>4, <2>3, RetryAssumption
    DEF PinRejected, Remaining, StateOK, Locked, AuthState, Effect, RetryCount
  <2>4. QED
    BY <2>1, <2>2, <2>3
<1>5. CASE PassphraseProvided(id) \/ PassphraseSkipped(id)
  <2>1. CASE OpenSession(auth.failed) /\ auth.tag = "AwaitingPassphrase"
    <3>1. auth.failed \in RetryCount
      BY <2>1 DEF StateOK, AuthState
    <3>2. QED
      BY <2>1, <3>1, OpenSessionTypes
  <2>2. CASE ~(OpenSession(auth.failed) /\ auth.tag = "AwaitingPassphrase")
    BY <1>5, <2>2
    DEF PassphraseProvided, PassphraseSkipped, PassphraseRefusal, SkipRefusal,
        CallbackRefusal, Accepted, RejectReason
  <2>3. QED
    BY <2>1, <2>2
<1>6. ASSUME NEW s \in Ids, NEW w \in Wallets, SessionOpened(id, s, w)
      PROVE  StateOK'
  <2> DEFINE refusal == CallbackRefusal(auth.tag = "OpeningSession", auth.id, id)
  <2>1. CASE refusal # Accepted
    BY <1>6, <2>1 DEF SessionOpened
  <2>2. CASE refusal = Accepted
    BY <1>6, <2>2
    DEF SessionOpened, CallbackRefusal, Accepted, StateOK, AuthState, Effect
  <2>3. QED
    BY <2>1, <2>2
<1>7. CASE SessionExpired(id)
  BY <1>7, LockTypes DEF SessionExpired
<1>8. QED
  BY <1>1, <1>2, <1>3, <1>4, <1>5, <1>6, <1>7 DEF AuthHandlers

LEMMA EndFlowTypes ==
    ASSUME StateOK, NEW report \in Effect, flow' = Idle, effect' = report,
           UNCHANGED <<lifecycle, auth, policy>>
    PROVE  StateOK'
  BY DEF StateOK, Idle, FlowState

LEMMA PairingFlowType ==
    ASSUME NEW id \in Ids, NEW h \in Hosts, NEW b \in BOOLEAN
    PROVE  [tag |-> "Pairing", id |-> id, host |-> h, persisted |-> b]
               \in FlowState
  BY DEF FlowState

LEMMA PairingTypes ==
    ASSUME StateOK, NEW id \in Ids, PairingHandlers(id)
    PROVE  StateOK'
<1> USE RefusalTypes, RejectTypes
<1>1. ASSUME NEW h \in Hosts, PairingRequested(id, h) PROVE StateOK'
  <2>1. CASE RequestRefusal(h) # Accepted
    BY <1>1, <2>1 DEF PairingRequested
  <2>2. CASE RequestRefusal(h) = Accepted
    <3>1. flow' \in FlowState
      BY <1>1, <2>2, PairingFlowType DEF PairingRequested
    <3>2. QED
      BY <1>1, <2>2, <3>1 DEF PairingRequested, StateOK, Effect
  <2>3. QED
    BY <2>1, <2>2
<1>2. CASE PairingConfirmed(id)
  <2> DEFINE refusal == CallbackRefusal(IsPairing /\ ~flow.persisted, flow.id, id)
  <2>1. CASE refusal # Accepted
    BY <1>2, <2>1 DEF PairingConfirmed
  <2>2. CASE refusal = Accepted
    <3>1. IsPairing
      BY <2>2 DEF CallbackRefusal, Accepted
    <3>2. flow.host \in Hosts
      BY <3>1 DEF IsPairing, StateOK, FlowState
    <3>3. flow' \in FlowState
      BY <1>2, <2>2, <3>2, PairingFlowType DEF PairingConfirmed
    <3>4. QED
      BY <1>2, <2>2, <3>2, <3>3 DEF PairingConfirmed, StateOK, Effect
  <2>3. QED
    BY <2>1, <2>2
<1>3. CASE PairingRejected(id) \/ TrustedHostPersisted(id)
  BY <1>3, EndFlowTypes
  DEF PairingRejected, TrustedHostPersisted, EndPairing, Effect
<1>4. QED
  BY <1>1, <1>2, <1>3 DEF PairingHandlers

LEMMA EnforcedPlanType ==
    ASSUME NEW plan \in ReviewPlan
    PROVE  EnforcedPlan(plan) \in ReviewPlan
  BY DEF ReviewPlan, EnforcedPlan, PlanUsesKey, StrongestInteraction,
         MinimumInteraction, Interaction

LEMMA AdvanceOperationTypes ==
    ASSUME StateOK, IsOperation, NEW kind \in Kinds \cup {"None"},
           NEW stage \in OperationStage, NEW report \in Effect,
           AdvanceOperation(kind, stage, report)
    PROVE  StateOK'
  BY DEF StateOK, IsOperation, AdvanceOperation, FlowState

LEMMA ExecuteTypes ==
    ASSUME StateOK, IsOperation, NEW id \in Ids,
           NEW kind \in Kinds \cup {"None"}, Execute(id, kind)
    PROVE  StateOK'
<1>1. [tag |-> "Executing"] \in OperationStage
  BY DEF OperationStage
<1>2. [tag |-> "ExecuteOperation", id |-> id] \in Effect
  BY DEF Effect
<1>3. QED
  BY <1>1, <1>2, AdvanceOperationTypes DEF Execute

LEMMA DropTypes ==
    ASSUME StateOK, NEW id \in Ids, NEW reason \in RejectReason,
           OperationDropped(id, reason)
    PROVE  StateOK'
  BY EndFlowTypes DEF OperationDropped, EndOperation, Effect

LEMMA RefuseOperationTypes ==
    ASSUME StateOK, NEW id \in Ids, NEW stages, RefuseOperation(id, stages)
    PROVE  StateOK'
  BY RefusalTypes, RejectTypes, RejectOperationTypes
  DEF RefuseOperation, OperationRefusal, RejectReason

\* An event that is awaited finds an operation.
LEMMA AwaitedOperation ==
    ASSUME NEW id, NEW stages, IsAwaited(id, stages)
    PROVE  IsOperation /\ flow.id = id /\ flow.stage.tag \in stages
  BY DEF IsAwaited, OperationRefusal, CallbackRefusal, Accepted

LEMMA OperationTypes ==
    ASSUME StateOK, NEW id \in Ids, OperationHandlers(id)
    PROVE  StateOK'
<1> USE RefuseOperationTypes, AwaitedOperation
<1>1. ASSUME NEW h \in Hosts, OperationRequested(id, h) PROVE StateOK'
  <2>1. CASE RequestRefusal(h) # Accepted
    BY <1>1, <2>1, RefusalTypes, RejectOperationTypes DEF OperationRequested
  <2>2. CASE RequestRefusal(h) = Accepted
    <3>1. auth.wallet \in Wallets
      BY <2>2 DEF RequestRefusal, Accepted, IsUnlocked, StateOK, AuthState
    <3>2. QED
      BY <1>1, <2>2, <3>1
      DEF OperationRequested, StateOK, FlowState, OperationStage, Effect
  <2>3. QED
    BY <2>1, <2>2
<1>2. ASSUME NEW plan \in ReviewPlan, ReviewPrepared(id, plan)
      PROVE  StateOK'
  <2>1. CASE RefuseOperation(id, {"PreparingReview"})
    BY <2>1
  <2>2. CASE OperationDropped(id, PolicyRefusal(plan))
             /\ PolicyRefusal(plan) # Accepted
    BY <2>2, DropTypes
    DEF PolicyRefusal, SessionRefusal, RejectReason
  <2>3. plan.kind \in Kinds
    BY DEF ReviewPlan
  <2>4. CASE IsOperation /\ Execute(id, plan.kind)
    BY <2>3, <2>4, ExecuteTypes
  <2>5. ASSUME IsOperation,
               AdvanceOperation(plan.kind,
                   [tag |-> "Displaying", plan |-> EnforcedPlan(plan)],
                   [tag |-> "RenderOperationReview", id |-> id])
        PROVE  StateOK'
    <3>1. [tag |-> "Displaying", plan |-> EnforcedPlan(plan)] \in OperationStage
      BY EnforcedPlanType DEF OperationStage
    <3>2. [tag |-> "RenderOperationReview", id |-> id] \in Effect
      BY DEF Effect
    <3>3. QED
      BY <2>3, <2>5, <3>1, <3>2, AdvanceOperationTypes
  <2>6. QED
    BY <1>2, <2>1, <2>2, <2>4, <2>5 DEF ReviewPrepared
<1>3. CASE ReviewDisplayed(id)
  <2>1. CASE RefuseOperation(id, {"Displaying"})
    BY <2>1
  <2>2. CASE RejectOperation(id, "InvalidState")
    BY <2>2, RejectOperationTypes DEF RejectReason
  <2>3. CASE IsAwaited(id, {"Displaying"})
    <3>1. IsOperation /\ flow.stage.tag = "Displaying"
      BY <2>3
    <3>2. flow.kind \in Kinds \cup {"None"} /\ flow.stage.plan \in ReviewPlan
      BY <3>1 DEF StateOK, IsOperation, FlowState, OperationStage
    <3>3. [tag |-> "Reviewing", plan |-> flow.stage.plan] \in OperationStage
      BY <3>2 DEF OperationStage
    <3>4. NoEffect \in Effect
      BY DEF NoEffect, Effect
    <3>5. QED
      BY <1>3, <2>1, <2>2, <3>1, <3>2, <3>3, <3>4, AdvanceOperationTypes,
         ExecuteTypes
      DEF ReviewDisplayed
  <2>4. QED
    BY <1>3, <2>1, <2>3 DEF ReviewDisplayed
<1>4. CASE OperationConfirmed(id)
  <2>1. CASE RefuseOperation(id, {"Reviewing"})
    BY <2>1
  <2>2. CASE RejectOperation(id, "InvalidState")
    BY <2>2, RejectOperationTypes DEF RejectReason
  <2>3. CASE OperationDropped(id, SessionRefusal) /\ SessionRefusal # Accepted
    BY <2>3, DropTypes DEF SessionRefusal, RejectReason
  <2>4. CASE IsOperation /\ Execute(id, flow.kind)
    <3>1. flow.kind \in Kinds \cup {"None"}
      BY <2>4 DEF StateOK, IsOperation, FlowState
    <3>2. QED
      BY <2>4, <3>1, ExecuteTypes
  <2>5. QED
    BY <1>4, <2>1, <2>2, <2>3, <2>4 DEF OperationConfirmed
<1>5. CASE OperationRejected(id)
  BY <1>5, DropTypes DEF OperationRejected, RejectReason
<1>6. CASE OperationCompleted(id) \/ OperationFailed(id)
  <2>1. CASE EndOperation([tag |-> "CompleteOperation", id |-> id])
    BY <2>1, EndFlowTypes DEF EndOperation, Effect
  <2>2. CASE ~EndOperation([tag |-> "CompleteOperation", id |-> id])
    BY <1>6, <2>2, DropTypes
    DEF OperationCompleted, OperationFailed, OperationFinished, RejectReason
  <2>3. QED
    BY <2>1, <2>2
<1>7. CASE OperationCancelled(id)
  BY <1>7, RefusalTypes, RejectTypes, EndFlowTypes
  DEF OperationCancelled, OperationRefusal, EndOperation, Effect
<1>8. QED
  BY <1>1, <1>2, <1>3, <1>4, <1>5, <1>6, <1>7 DEF OperationHandlers

LEMMA ApplySettingType ==
    ASSUME NEW p \in SecurityPolicy, NEW s \in SecuritySetting
    PROVE  ApplySetting(p, s) \in SecurityPolicy
  BY DEF ApplySetting, SecurityPolicy, SecuritySetting

LEMMA ApplyChangeTypes ==
    ASSUME StateOK, NEW change \in Changes, ApplyChange(change)
    PROVE  /\ lifecycle' \in Lifecycle
           /\ auth' \in AuthState
           /\ policy' \in SecurityPolicy
<1>1. change \in SettingChange
  BY ChangesAssumption
<1>2. policy' \in SecurityPolicy
  <2>1. change.tag = "Security" => change.setting \in SecuritySetting
    BY <1>1 DEF SettingChange
  <2>2. QED
    BY <2>1, ApplySettingType DEF ApplyChange, StateOK
<1>3. lifecycle' \in Lifecycle
  <2>1. CASE change.tag = "Passphrase" /\ IsProvisioned
    <3>1. change.mode \in PassphraseMode
      BY <1>1, <2>1 DEF SettingChange
    <3>2. lifecycle \in [tag: {"Provisioned"}, metadata: WalletMetadata]
      BY <2>1 DEF StateOK, Lifecycle, IsProvisioned
    <3>3. lifecycle' \in [tag: {"Provisioned"}, metadata: WalletMetadata]
      BY <2>1, <3>1, <3>2 DEF ApplyChange, WalletMetadata
    <3>4. QED
      BY <3>3 DEF Lifecycle
  <2>2. QED
    BY <2>1 DEF ApplyChange, StateOK
<1>4. auth' \in AuthState
  <2>1. CASE Downgrades(change)
    BY <2>1 DEF ApplyChange, Downgrades, IsUnlocked, StateOK, AuthState, HostTrust
  <2>2. QED
    BY <2>1 DEF ApplyChange, StateOK
<1>5. QED
  BY <1>2, <1>3, <1>4

LEMMA SettingsTypes ==
    ASSUME StateOK, NEW id \in Ids, SettingsHandlers(id)
    PROVE  StateOK'
<1> USE RefusalTypes, RejectTypes
<1>1. ASSUME NEW h \in Hosts, NEW c \in Changes,
             SettingChangeRequested(id, h, c)
      PROVE  StateOK'
  <2>1. CASE RequestRefusal(h) # Accepted
    BY <1>1, <2>1 DEF SettingChangeRequested
  <2>2. CASE RequestRefusal(h) = Accepted
    BY <1>1, <2>2 DEF SettingChangeRequested, StateOK, FlowState, Effect
  <2>3. QED
    BY <2>1, <2>2
<1>2. CASE SettingChangeConfirmed(id)
  <2>1. CASE ConfirmRefusal(id) # Accepted
    BY <1>2, <2>1
    DEF SettingChangeConfirmed, ConfirmRefusal, SettingsRefusal, RejectReason
  <2>2. CASE ConfirmRefusal(id) = Accepted
    <3>1. flow.tag = "Settings"
      BY <2>2 DEF ConfirmRefusal, SettingsRefusal, CallbackRefusal, Accepted
    <3>2. QED
      BY <1>2, <2>2, <3>1
      DEF SettingChangeConfirmed, StateOK, FlowState, Effect
  <2>3. QED
    BY <2>1, <2>2
<1>3. CASE SettingChangeRejected(id)
  BY <1>3, EndFlowTypes DEF SettingChangeRejected, SettingsRefusal, Effect
<1>4. CASE SettingChangePersisted(id)
  <2>1. CASE SettingsRefusal(id, "Persisting") # Accepted
    BY <1>4, <2>1 DEF SettingChangePersisted, SettingsRefusal
  <2>2. CASE SettingsRefusal(id, "Persisting") = Accepted
    <3>1. flow.tag = "Settings"
      BY <2>2 DEF SettingsRefusal, CallbackRefusal, Accepted
    <3>2. flow.change \in Changes
      BY <3>1 DEF StateOK, FlowState
    <3>3. ApplyChange(flow.change) /\ flow' = Idle
      BY <1>4, <2>2 DEF SettingChangePersisted
    <3>4. effect' \in Effect
      BY <1>4, <2>2
      DEF SettingChangePersisted, Rejection, RejectReason, Effect
    <3>5. flow' \in FlowState
      BY <3>3 DEF Idle, FlowState
    <3>6. QED
      BY <3>2, <3>3, <3>4, <3>5, ApplyChangeTypes DEF StateOK
  <2>3. QED
    BY <2>1, <2>2
<1>5. QED
  BY <1>1, <1>2, <1>3, <1>4 DEF SettingsHandlers

LEMMA MaintenanceTypes ==
    ASSUME StateOK, NEW id \in Ids, MaintenanceHandlers(id)
    PROVE  StateOK'
<1> USE RefusalTypes, RejectTypes
<1>1. ASSUME NEW h \in Hosts,
             \/ ChangePinRequested(id, h)
             \/ BackupCheckRequested(id, h)
             \/ FactoryResetRequested(id, h)
      PROVE  StateOK'
  <2>1. CASE RequestRefusal(h) # Accepted
    BY <1>1, <2>1
    DEF ChangePinRequested, BackupCheckRequested, FactoryResetRequested,
        MaintenanceRequested
  <2>2. CASE RequestRefusal(h) = Accepted
    BY <1>1, <2>2
    DEF ChangePinRequested, BackupCheckRequested, FactoryResetRequested,
        MaintenanceRequested, StateOK, FlowState, Effect
  <2>3. QED
    BY <2>1, <2>2
<1>2. CASE PinChanged(id)
  BY <1>2, EndFlowTypes DEF PinChanged, PinChangedRefusal, RejectReason, Effect
<1>3. ASSUME NEW valid \in BOOLEAN, BackupCheckCompleted(id, valid)
      PROVE  StateOK'
  <2>1. CASE BackupCheckRefusal(id) # Accepted
    BY <1>3, <2>1 DEF BackupCheckCompleted, BackupCheckRefusal
  <2>2. CASE BackupCheckRefusal(id) = Accepted
    <3>1. lifecycle' \in Lifecycle
      <4>1. CASE valid /\ IsProvisioned
        <5>1. lifecycle \in [tag: {"Provisioned"}, metadata: WalletMetadata]
          BY <4>1 DEF StateOK, Lifecycle, IsProvisioned
        <5>2. lifecycle' \in [tag: {"Provisioned"}, metadata: WalletMetadata]
          BY <1>3, <2>2, <4>1, <5>1
          DEF BackupCheckCompleted, WalletMetadata, BackupStatus
        <5>3. QED
          BY <5>2 DEF Lifecycle
      <4>2. QED
        BY <1>3, <2>2, <4>1 DEF BackupCheckCompleted, StateOK
    <3>2. effect' \in Effect
      BY <1>3, <2>2
      DEF BackupCheckCompleted, Rejection, RejectReason, Effect
    <3>3. QED
      BY <1>3, <2>2, <3>1, <3>2
      DEF BackupCheckCompleted, StateOK, Idle, FlowState
  <2>3. QED
    BY <2>1, <2>2
<1>4. CASE FactoryResetConfirmed(id) \/ FactoryResetRejected(id)
  BY <1>4, WipeTypes, EndFlowTypes
  DEF FactoryResetConfirmed, FactoryResetRejected, FactoryResetRefusal, Effect
<1>5. QED
  BY <1>1, <1>2, <1>3, <1>4 DEF MaintenanceHandlers

LEMMA BoardTypes ==
    ASSUME StateOK, BoardHandlers
    PROVE  StateOK'
<1> USE RejectTypes, LockTypes, WipeTypes
<1>1. CASE LockRequested
  BY <1>1 DEF LockRequested
<1>2. ASSUME NEW h \in Hosts, HostDisconnected(h) PROVE StateOK'
  BY <1>2 DEF HostDisconnected, wallet, StateOK, NoEffect, Effect
<1>3. CASE WipeCompleted
  <2>1. CASE lifecycle # Wiping
    BY <1>3, <2>1 DEF WipeCompleted, RejectReason
  <2>2. CASE lifecycle = Wiping
    BY <1>3, <2>2
    DEF WipeCompleted, ResetToEmpty, StateOK, Empty, Unavailable, Idle,
        Lifecycle, AuthState, FlowState, Effect
  <2>3. QED
    BY <2>1, <2>2
<1>4. CASE RuntimeFailure
  <2>1. CASE LockWallet
    BY <2>1
  <2>2. CASE ~LockWallet
    BY <1>4, <2>2
    DEF RuntimeFailure, ResetToEmpty, StateOK, Empty, Unavailable, Idle,
        NoEffect, wallet, Lifecycle, AuthState, FlowState, Effect
  <2>3. QED
    BY <2>1, <2>2
<1>5. CASE TamperDetected
  BY <1>5 DEF TamperDetected, wallet, StateOK, NoEffect, Effect
<1>6. QED
  BY <1>1, <1>2, <1>3, <1>4, <1>5 DEF BoardHandlers

-----------------------------------------------------------------------------
(* Jobs and answers *)

\* An answer of a backend finds its handler.
LEMMA HandleTypes ==
    ASSUME StateOK, NEW a \in Answers, Handle(a)
    PROVE  StateOK'
<1>1. CASE a.tag \in {"WipeCompleted", "RuntimeFailure"}
  BY <1>1, BoardTypes DEF Handle, BoardHandlers
<1>2. CASE a.tag \notin {"WipeCompleted", "RuntimeFailure"}
  <2>1. /\ a.id \in Ids
        /\ a.tag = "HostTrustResolved" => a.trust \in HostTrust
        /\ a.tag = "PinRejected" => a.failed_attempts \in RetryCount
        /\ a.tag = "SessionOpened" => a.wallet \in Wallets
    BY <1>2 DEF Answers
  <2>2. \/ SetupHandlers(a.id) \/ AuthHandlers(a.id) \/ PairingHandlers(a.id)
        \/ SettingsHandlers(a.id) \/ MaintenanceHandlers(a.id)
    BY <1>2, <2>1
    DEF Handle, SetupHandlers, AuthHandlers, PairingHandlers, SettingsHandlers,
        MaintenanceHandlers
  <2>3. QED
    BY <2>1, <2>2, SetupTypes, AuthTypes, PairingTypes, SettingsTypes,
       MaintenanceTypes
<1>3. QED
  BY <1>1, <1>2

LEMMA JobTypes ==
    ASSUME StateOK, NEW e \in Effect, e.tag \in Backend,
           e.tag = "PersistProvisioning" => IsProvisioning
    PROVE  Job(e) \in Jobs
<1>1. CASE e.tag = "PersistProvisioning"
  <2>1. NewMetadata(lifecycle.mode, lifecycle.passphrase) \in WalletMetadata
    BY <1>1
    DEF StateOK, IsProvisioning, Lifecycle, NewMetadata, WalletMetadata,
        ProvisioningMode, WalletOrigin, BackupStatus
  <2>2. e.id \in Ids
    BY <1>1 DEF Effect
  <2>3. QED
    BY <1>1, <2>1, <2>2 DEF Job, Jobs
<1>2. CASE e.tag # "PersistProvisioning"
  BY <1>2 DEF Job, Jobs
<1>3. QED
  BY <1>1, <1>2

-----------------------------------------------------------------------------
(* Queues *)

LEMMA QueueAppend ==
    ASSUME NEW S, NEW q \in Seq(S), NEW x \in S
    PROVE  /\ Append(q, x) \in Seq(S)
           /\ Range(Append(q, x)) = Range(q) \cup {x}
<1>1. /\ Append(q, x) \in Seq(S) /\ Len(Append(q, x)) = Len(q) + 1
      /\ \A i \in 1..Len(q) : Append(q, x)[i] = q[i]
      /\ Append(q, x)[Len(q) + 1] = x
  BY AppendProperties
<1>2. /\ Range(Append(q, x)) = {Append(q, x)[i] : i \in 1..Len(q) + 1}
      /\ Range(q) = {q[i] : i \in 1..Len(q)} /\ Len(q) \in Nat
  BY <1>1, RangeEquality, LenProperties
<1>3. QED
  BY <1>1, <1>2

LEMMA QueueTail ==
    ASSUME NEW S, NEW q \in Seq(S), q # <<>>
    PROVE  /\ Tail(q) \in Seq(S) /\ Head(q) \in Range(q)
           /\ Range(Tail(q)) \subseteq Range(q)
           /\ \A i \in DOMAIN Tail(q) : i + 1 \in DOMAIN q /\ Tail(q)[i] = q[i + 1]
           /\ Len(Tail(q)) = Len(q) - 1
<1>1. /\ Tail(q) \in Seq(S) /\ Len(Tail(q)) = Len(q) - 1
      /\ \A i \in 1..Len(Tail(q)) : Tail(q)[i] = q[i + 1]
  BY HeadTailProperties
<1>2. /\ Range(Tail(q)) = {Tail(q)[i] : i \in 1..Len(Tail(q))}
      /\ Range(q) = {q[i] : i \in 1..Len(q)} /\ Len(q) \in Nat \ {0}
      /\ DOMAIN q = 1..Len(q) /\ DOMAIN Tail(q) = 1..Len(Tail(q))
  BY <1>1, RangeEquality, LenProperties, EmptySeq
<1>3. Head(q) = q[1]
  OBVIOUS
<1>4. QED
  BY <1>1, <1>2, <1>3

LEMMA QueueRemove ==
    ASSUME NEW S, NEW q \in Seq(S), NEW i \in DOMAIN q
    PROVE  /\ RemoveAt(q, i) \in Seq(S) /\ q[i] \in Range(q)
           /\ Range(RemoveAt(q, i)) \subseteq Range(q)
<1>1. /\ Len(q) \in Nat /\ DOMAIN q = 1..Len(q)
      /\ Range(q) = {q[j] : j \in 1..Len(q)}
  BY LenProperties, RangeEquality
<1>2. q \in Seq(Range(q))
  BY SeqOfRange
<1>3. \A T : q \in Seq(T) => RemoveAt(q, i) \in Seq(T)
  <2> SUFFICES ASSUME NEW T, q \in Seq(T)
               PROVE  RemoveAt(q, i) \in Seq(T)
    OBVIOUS
  <2>1. \A j \in 1..Len(q) : q[j] \in T
    BY ElementOfSeq
  <2>2. SubSeq(q, 1, i - 1) \in Seq(T) /\ SubSeq(q, i + 1, Len(q)) \in Seq(T)
    <3>1. i \in 1..Len(q)
      BY <1>1
    <3>2. /\ \A j \in 1..(i - 1) : q[j] \in T
          /\ \A j \in (i + 1)..Len(q) : q[j] \in T
      BY <1>1, <2>1, <3>1
    <3>3. QED
      BY <1>1, <3>1, <3>2, SubSeqProperties
  <2>3. QED
    BY <2>2, ConcatProperties DEF RemoveAt
<1>4. RemoveAt(q, i) \in Seq(Range(q))
  BY <1>2, <1>3
<1>5. QED
  BY <1>1, <1>3, <1>4, RangeOfSeq
=============================================================================
