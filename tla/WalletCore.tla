----------------------------- MODULE WalletCore -----------------------------
(***************************************************************************)
(* The whole wallet-core reducer (reducer/mod.rs) under every event an     *)
(* embedder can deliver, in any order: host requests, backend callbacks    *)
(* that are late, duplicated or carry a foreign id, user decisions,        *)
(* disconnects, runtime failures, tamper alarms and reboots.               *)
(*                                                                         *)
(* `seen' is an observer, not part of the program: the facts the device    *)
(* has really witnessed about the current setup, unlock attempt, operation *)
(* and setting change.  It is fed by the events and by the question that   *)
(* was outstanding when they arrived, never by the reducer's verdict.      *)
(***************************************************************************)
EXTENDS Provisioning, Auth, Operation, Settings, Maintenance

VARIABLE seen

vars == <<lifecycle, auth, flow, policy, effect, seen>>

Facts == {"backup",                       \* a backup of this wallet was checked
          "trusted", "pin", "passphrase", \* about the current unlock attempt
          "key", "shown", "confirmed",    \* about the current operation
          "approved"}                     \* about the current setting change

Init == NewWallet /\ seen = {}

-----------------------------------------------------------------------------
(* The observer *)

\* The facts whose subject still exists: each is about one setup, unlock
\* attempt, operation or setting change and ends with it.
Pertinent ==
    (IF \/ IsProvisioned
        \/ IsProvisioning /\ lifecycle.stage \notin
               {"CreatingKeyMaterial", "CapturingRecoveryMaterial"}
     THEN {"backup"} ELSE {})
    \cup
    (IF auth.tag \notin {"Unavailable", "Locked", "ResolvingHost"}
     THEN {"trusted", "pin", "passphrase"} ELSE {})
    \cup
    (IF IsOperation /\ flow.stage.tag # "PreparingReview"
     THEN {"key", "shown", "confirmed"} ELSE {})
    \cup
    (IF flow.tag = "Settings" /\ flow.stage = "Persisting"
     THEN {"approved"} ELSE {})

Observe(facts) == seen' = (seen \cup facts) \cap Pertinent'
Witness(fact, holds) == Observe(IF holds THEN {fact} ELSE {})

SetupAsks(stage, id) ==
    IsProvisioning /\ lifecycle.stage = stage /\ lifecycle.id = id
AuthAsks(tag, id) == auth.tag = tag /\ auth.id = id
OperationAsks(stage, id) ==
    IsOperation /\ flow.stage.tag = stage /\ flow.id = id
SettingsAsks(stage, id) ==
    flow.tag = "Settings" /\ flow.stage = stage /\ flow.id = id
BackupAsks(id) ==
    IsMaintenance /\ flow.kind = "VerifyBackup" /\ flow.id = id

-----------------------------------------------------------------------------
(* State::restore applied to State::persistent_snapshot.  Provisioning and *)
(* Wiping have no snapshot: what a reboot finds then is up to the runtime. *)

HasSnapshot == lifecycle = Empty \/ IsProvisioned

Restart ==
    /\ HasSnapshot
    /\ auth' = IF IsProvisioned THEN Locked(0) ELSE Unavailable
    /\ flow' = Idle
    /\ effect' = NoEffect
    /\ UNCHANGED <<lifecycle, policy>>
    /\ Observe({})

-----------------------------------------------------------------------------
(* update(state, event): one disjunct per event *)

SetupEvent(id) ==
    \/ /\ \/ \E p \in Modes : StartCreate(id, p)
          \/ \E f \in Formats, p \in Modes : StartRecovery(id, f, p)
          \/ RecoveryMaterialCaptured(id)
          \/ KeyMaterialReady(id)
          \/ BackupShown(id)
          \/ PinConfigured(id)
          \/ ProvisioningPersisted(id)
       /\ Observe({})
    \/ /\ BackupVerified(id)
       /\ Witness("backup", SetupAsks("VerifyingBackup", id))

AuthEvent(id) ==
    \/ /\ \/ \E h \in Hosts : UnlockRequested(id, h)
          \/ \E n \in RetryCount : PinRejected(id, n)
          \/ PassphraseSkipped(id)
          \/ \E s \in Ids, w \in Wallets : SessionOpened(id, s, w)
          \/ SessionExpired(id)
       /\ Observe({})
    \/ \E t \in HostTrust :
          /\ HostTrustResolved(id, t)
          /\ Witness("trusted", t = "Trusted" /\ AuthAsks("ResolvingHost", id))
    \/ /\ PinVerified(id)
       /\ Witness("pin", AuthAsks("VerifyingPin", id))
    \/ /\ PassphraseProvided(id)
       /\ Witness("passphrase", AuthAsks("AwaitingPassphrase", id))

PairingEvent(id) ==
    /\ \/ \E h \in Hosts : PairingRequested(id, h)
       \/ PairingConfirmed(id)
       \/ PairingRejected(id)
       \/ TrustedHostPersisted(id)
    /\ Observe({})

OperationEvent(id) ==
    \/ /\ \/ \E h \in Hosts : OperationRequested(id, h)
          \/ OperationRejected(id)
          \/ OperationCompleted(id)
          \/ OperationFailed(id)
          \/ OperationCancelled(id)
       /\ Observe({})
    \/ \E plan \in ReviewPlan :
          /\ ReviewPrepared(id, plan)
          /\ Witness("key", /\ OperationAsks("PreparingReview", id)
                            /\ plan.uses_private_key \/ plan.kind \in KeyKind)
    \/ /\ ReviewDisplayed(id)
       /\ Witness("shown", OperationAsks("Displaying", id))
    \/ /\ OperationConfirmed(id)
       /\ Witness("confirmed", OperationAsks("Reviewing", id))

SettingsEvent(id) ==
    \/ /\ \/ \E h \in Hosts, c \in Changes : SettingChangeRequested(id, h, c)
          \/ SettingChangeRejected(id)
          \/ SettingChangePersisted(id)
       /\ Observe({})
    \/ /\ SettingChangeConfirmed(id)
       /\ Witness("approved", SettingsAsks("Reviewing", id))

MaintenanceEvent(id) ==
    \/ /\ \/ \E h \in Hosts : ChangePinRequested(id, h)
          \/ PinChanged(id)
          \/ \E h \in Hosts : BackupCheckRequested(id, h)
          \/ \E h \in Hosts : FactoryResetRequested(id, h)
          \/ FactoryResetConfirmed(id)
          \/ FactoryResetRejected(id)
       /\ Observe({})
    \/ \E valid \in BOOLEAN :
          /\ BackupCheckCompleted(id, valid)
          /\ Witness("backup", valid /\ BackupAsks(id))

DeviceEvent ==
    /\ \/ LockRequested
       \/ \E h \in Hosts : HostDisconnected(h)
       \/ WipeCompleted
       \/ RuntimeFailure
       \/ TamperDetected
    /\ Observe({})

Next ==
    \/ \E id \in Ids :
          \/ SetupEvent(id)
          \/ AuthEvent(id)
          \/ PairingEvent(id)
          \/ OperationEvent(id)
          \/ SettingsEvent(id)
          \/ MaintenanceEvent(id)
    \/ DeviceEvent
    \/ Restart

Spec == Init /\ [][Next]_vars

-----------------------------------------------------------------------------
(* Invariants *)

TypeOK ==
    /\ lifecycle \in Lifecycle
    /\ auth \in AuthState
    /\ flow \in FlowState
    /\ policy \in SecurityPolicy
    /\ effect \in Effect
    /\ seen \subseteq Facts

\* A foreground flow exists only inside an open session of a provisioned
\* wallet and stays bound to the host, and for an operation to the wallet
\* context, of that session.  The handlers that confirm, display and persist
\* rely on this: most of them do not look at the session again.
FlowBoundToSession ==
    /\ IsProvisioned <=> auth.tag # "Unavailable"
    /\ flow # Idle =>
          /\ IsUnlocked
          /\ flow.tag # "Maintenance" => flow.host = auth.host
          /\ IsOperation => flow.wallet = auth.wallet

\* A session is opened only after the PIN backend verified the PIN of this
\* very unlock attempt, it is trusted only if the trusted-host backend said
\* so in this attempt, and a required passphrase cannot be skipped.
SessionEarned ==
    /\ auth.tag \in {"AwaitingPassphrase", "OpeningSession", "Unlocked"} =>
          "pin" \in seen
    /\ auth.tag \in {"VerifyingPin", "AwaitingPassphrase", "OpeningSession",
                     "Unlocked"} =>
          (auth.trust = "Trusted" => "trusted" \in seen)
    /\ auth.tag = "OpeningSession" =>
          (lifecycle.metadata.passphrase = "Required" => "passphrase" \in seen)

\* Nothing that touches a private key, and nothing whose kind requires it,
\* runs before the user saw the review of this operation and confirmed it;
\* addresses and new accounts are at least shown.
ExecutionHasConsent ==
    IsOperation /\ flow.stage.tag = "Executing" =>
        /\ "key" \in seen \/ RequiresConfirmation(flow.kind) =>
              {"shown", "confirmed"} \subseteq seen
        /\ flow.kind \in {"ShowAddress", "CreateAccount"} => "shown" \in seen

\* From review to completion an operation satisfies the policy and the host
\* trust in force now, though only review_prepared tests them.
OperationHonoursPolicy ==
    IsOperation /\ flow.stage.tag # "PreparingReview" =>
        /\ "key" \in seen /\ policy.signing_hosts = "TrustedOnly" =>
              auth.trust = "Trusted"
        /\ flow.stage.tag \in {"Displaying", "Reviewing"} =>
              (flow.stage.plan.assurance = "Blind" =>
                  policy.blind_signing = "Allow")

\* Under the Wipe policy no state survives with an exhausted PIN budget, even
\* when the policy was Lock while the attempts failed.
RetryBudgetKept ==
    policy.pin_exhaustion = "Wipe" => FailedAttempts(auth) < MaxPinAttempts

\* Metadata calls a backup verified only if a backup of this wallet was
\* checked, and a generated wallet is never provisioned without one.
BackupClaimIsTrue ==
    IsProvisioned =>
        /\ lifecycle.metadata.backup = "Verified" => "backup" \in seen
        /\ lifecycle.metadata.origin = "Generated" =>
              lifecycle.metadata.backup = "Verified"

-----------------------------------------------------------------------------
(* What the invariants above need to be inductive *)

\* Facts about a setup, attempt, operation or change do not outlive it.
FactsPertinent == seen \subseteq Pertinent

\* A wallet being created reaches its PIN only past the backup challenge.
SetupInOrder ==
    IsProvisioning /\ lifecycle.mode = "Create"
      /\ lifecycle.stage \in {"ConfiguringPin", "Persisting"} =>
        "backup" \in seen

\* The plan under review is the one that was enforced, and it reached the
\* user's decision only through the display.
ReviewInOrder ==
    IsOperation /\ flow.stage.tag \in {"Displaying", "Reviewing"} =>
        /\ flow.stage.plan.kind = flow.kind
        /\ "key" \in seen \/ RequiresConfirmation(flow.kind) =>
              flow.stage.plan.interaction = "Confirm"
        /\ flow.stage.tag = "Reviewing" => "shown" \in seen

\* A change is being persisted only once the user approved it.
ApprovalInOrder ==
    flow.tag = "Settings" /\ flow.stage = "Persisting" => "approved" \in seen

SessionInv == FlowBoundToSession /\ SessionEarned /\ RetryBudgetKept
WalletInv == SetupInOrder /\ BackupClaimIsTrue
FlowInv == /\ ReviewInOrder
           /\ ExecutionHasConsent
           /\ OperationHonoursPolicy
           /\ ApprovalInOrder

IInv == TypeOK /\ FactsPertinent /\ SessionInv /\ WalletInv /\ FlowInv

\* What RetriesNeverForgotten needs: a verified PIN cleared the count, so that
\* the session that opens has none to forget.
RetriesCleared ==
    auth.tag \in {"AwaitingPassphrase", "OpeningSession"} => auth.failed = 0

-----------------------------------------------------------------------------
(* Action properties *)

\* The count of failed PIN entries known to the reducer falls only when the
\* PIN was verified, the wallet is being erased or the device restarts:
\* locking, disconnecting and starting over never buy a retry.
RetriesNeverForgotten ==
    [][FailedAttempts(auth') < FailedAttempts(auth) =>
           \/ auth'.tag \in {"AwaitingPassphrase", "OpeningSession"}
           \/ lifecycle' = Wiping
           \/ Restart]_vars

\* The security policy and the passphrase mode of a wallet change only by a
\* change the user approved on the device, in the session that asked for it.
SettingsNeedApproval ==
    [][(policy' # policy
          \/ (IsProvisioned /\ lifecycle'.tag = "Provisioned"
                /\ lifecycle'.metadata.passphrase
                       # lifecycle.metadata.passphrase)) =>
           /\ flow.tag = "Settings" /\ flow.stage = "Persisting"
           /\ "approved" \in seen
           /\ IsUnlocked /\ auth'.host = auth.host]_vars

\* An operation is handed to the chain runtime at most once: it enters
\* Executing with that effect and leaves Executing only by ending.
ExecutedOnce ==
    [][/\ effect'.tag = "ExecuteOperation" =>
              /\ IsOperation /\ flow.stage.tag # "Executing"
              /\ flow'.id = flow.id /\ flow'.stage.tag = "Executing"
       /\ IsOperation /\ flow.stage.tag = "Executing" =>
              flow' \in {flow, Idle}]_vars

\* A wipe once begun ends only in an empty wallet and with the storage's word
\* that it was erased, and it always starts with the effect that erases it.
WipeIsFinal ==
    [][/\ lifecycle = Wiping /\ lifecycle' # Wiping =>
              lifecycle' = Empty /\ effect' = [tag |-> "WalletWiped"]
       /\ lifecycle' = Wiping /\ lifecycle # Wiping =>
              effect' = [tag |-> "WipeWallet"]]_vars

-----------------------------------------------------------------------------
(* Refinement *)

GateJob ==
    IF IsOperation
    THEN [tag |-> Phase[flow.stage.tag], host |-> flow.host,
          wallet |-> flow.wallet, key |-> "key" \in seen]
    ELSE [tag |-> "None"]

Gate == INSTANCE SigningGate WITH session <- GateSession, job <- GateJob

\* The reducer implements SigningGate: every event is one of its steps or
\* changes nothing that it speaks of.
ImplementsGate == Gate!Spec
=============================================================================
