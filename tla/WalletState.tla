---------------------------- MODULE WalletState ----------------------------
(***************************************************************************)
(* State, effects and shared transition helpers of the wallet-core reducer *)
(* (crates/wallet-core/src/state.rs, policy.rs, effect.rs and              *)
(* reducer/common.rs).                                                     *)
(*                                                                         *)
(* The reducer is a pure function update(state, event) -> (state, effect). *)
(* The four fields of State are variables; `effect' is the effect returned *)
(* by the last transition.  Every Rust enum with data is a record with a   *)
(* `tag' field and the fields of the variant.                              *)
(***************************************************************************)
EXTENDS Naturals

CONSTANTS
    Hosts,           \* HostId
    Ids,             \* the u32 correlation ids; the Rust newtypes never mix
    Wallets,         \* WalletContextId
    Kinds,           \* operation kinds offered by the chain modules
    Formats,         \* recovery formats offered at setup
    Modes,           \* passphrase modes offered at setup
    Policies,        \* policies State::new may be given
    Changes,         \* setting changes a host may ask for
    MaxPinAttempts,  \* SecurityPolicy::max_pin_attempts (no setting alters it)
    MaxRetryCount    \* largest value of the u8 retry counter (255 in the code)

VARIABLES lifecycle, auth, flow, policy, effect

wallet == <<lifecycle, auth, flow, policy>>

-----------------------------------------------------------------------------
(* Domain types *)

RecoveryFormat == {"Mnemonic", "Shamir", "Other"}
PassphraseMode == {"Disabled", "Optional", "Required"}
BackupStatus == {"Verified", "RecoverySource"}
HostTrust == {"Untrusted", "Trusted"}
RetryCount == 0..MaxRetryCount

\* ProvisioningMode and WalletOrigin: Recover(f) / Recovered(f) are written f.
ProvisioningMode == {"Create"} \cup Formats
WalletOrigin == {"Generated"} \cup Formats
WalletMetadata == [origin: WalletOrigin, backup: BackupStatus,
                   passphrase: PassphraseMode]

ProvisioningStage ==
    {"CreatingKeyMaterial", "CapturingRecoveryMaterial",
     "DerivingRecoveredKeyMaterial", "ShowingBackup", "VerifyingBackup",
     "ConfiguringPin", "Persisting"}

Lifecycle ==
    [tag: {"Empty", "Wiping"}]
    \cup [tag: {"Provisioning"}, id: Ids, mode: ProvisioningMode,
          passphrase: PassphraseMode, stage: ProvisioningStage]
    \cup [tag: {"Provisioned"}, metadata: WalletMetadata]

AuthState ==
    [tag: {"Unavailable"}]
    \cup [tag: {"Locked"}, failed: RetryCount]
    \cup [tag: {"ResolvingHost"}, id: Ids, host: Hosts, failed: RetryCount]
    \cup [tag: {"VerifyingPin", "AwaitingPassphrase", "OpeningSession"},
          id: Ids, host: Hosts, trust: HostTrust, failed: RetryCount]
    \cup [tag: {"Unlocked"}, session: Ids, host: Hosts, wallet: Wallets,
          trust: HostTrust]

KeyKind == {"SignTransaction", "SignMessage", "SignTypedData",
            "SignArbitraryData"}
OperationKind == KeyKind \cup {"ShowAddress", "ExportPublicKey",
                               "CreateAccount", "Custom"}
ReviewAssurance == {"Full", "Limited", "Blind"}
Interaction == {"Silent", "Display", "Confirm"}
ReviewPlan == [kind: Kinds, uses_private_key: BOOLEAN,
               assurance: ReviewAssurance, interaction: Interaction]
OperationStage ==
    [tag: {"PreparingReview", "Executing"}]
    \cup [tag: {"Reviewing", "Displaying"}, plan: ReviewPlan]

SecuritySetting ==
    [field: {"pin_exhaustion"}, value: {"Lock", "Wipe"}]
    \cup [field: {"disconnect"}, value: {"KeepSession", "Lock"}]
    \cup [field: {"signing_hosts"}, value: {"AnySessionHost", "TrustedOnly"}]
    \cup [field: {"blind_signing"}, value: {"Deny", "Allow"}]
SettingChange ==
    [tag: {"Security"}, setting: SecuritySetting]
    \cup [tag: {"Passphrase"}, mode: PassphraseMode]
    \cup [tag: {"RevokeHost"}, host: Hosts]
    \cup [tag: {"RevokeAllHosts"}]
SecurityPolicy ==
    [pin_exhaustion: {"Lock", "Wipe"}, disconnect: {"KeepSession", "Lock"},
     signing_hosts: {"AnySessionHost", "TrustedOnly"},
     blind_signing: {"Deny", "Allow"}]

FlowState ==
    [tag: {"Idle"}]
    \cup [tag: {"Operation"}, id: Ids, host: Hosts, wallet: Wallets,
          kind: Kinds \cup {"None"}, stage: OperationStage]
    \cup [tag: {"Pairing"}, id: Ids, host: Hosts, persisted: BOOLEAN]
    \cup [tag: {"Maintenance"}, id: Ids, kind: {"ChangePin", "VerifyBackup"}]
    \cup [tag: {"Settings"}, id: Ids, host: Hosts, change: Changes,
          stage: {"Reviewing", "Persisting"}]
    \cup [tag: {"FactoryReset"}, id: Ids, host: Hosts]

RejectReason ==
    {"NotProvisioned", "AlreadyProvisioned", "Locked", "Busy", "WrongHost",
     "UntrustedHost", "CorrelationMismatch", "BlindSigningDisabled",
     "InvalidState", "UserRejected", "ExecutionFailed"}

Effect ==
    [tag: {"None", "SessionReady", "ClearSensitiveState", "WipeWallet",
           "WalletWiped"}]
    \cup [tag: {"GenerateKeyMaterial", "DeriveRecoveredKeyMaterial",
                "ShowBackup", "ChallengeBackup", "ConfigurePin",
                "PersistProvisioning", "ProvisioningComplete",
                "RequestPassphrase", "PairingComplete", "PairingRejected",
                "PrepareOperationReview", "RenderOperationReview",
                "ExecuteOperation", "CompleteOperation", "AbortOperation",
                "SettingChangeComplete", "SettingChangeRejected",
                "ChangePin", "MaintenanceComplete", "VerifyBackup",
                "ReportBackupInvalid", "RenderFactoryResetWarning",
                "FactoryResetRejected"}, id: Ids]
    \cup [tag: {"CaptureRecoveryMaterial"}, id: Ids, format: Formats]
    \cup [tag: {"ResolveHostTrust", "VerifyPin", "OpenSession",
                "RenderPairing", "PersistTrustedHost"}, id: Ids, host: Hosts]
    \cup [tag: {"AuthenticationFailed"}, remaining: RetryCount]
    \cup [tag: {"RenderSettingChange", "PersistSettingChange"}, id: Ids,
          change: Changes]
    \cup [tag: {"Reject"}, reason: RejectReason]
    \cup [tag: {"RejectOperation"}, id: Ids, reason: RejectReason]

ASSUME KindsAssumption == Kinds \subseteq OperationKind
ASSUME FormatsAssumption == Formats \subseteq RecoveryFormat
ASSUME ModesAssumption == Modes \subseteq PassphraseMode
ASSUME PoliciesAssumption == Policies \subseteq SecurityPolicy
ASSUME ChangesAssumption == Changes \subseteq SettingChange
ASSUME RetryAssumption ==
    MaxRetryCount \in Nat /\ MaxPinAttempts \in 1..MaxRetryCount

-----------------------------------------------------------------------------
(* Values and helpers shared by the handlers *)

Empty == [tag |-> "Empty"]
Wiping == [tag |-> "Wiping"]
Provisioned(metadata) == [tag |-> "Provisioned", metadata |-> metadata]
Unavailable == [tag |-> "Unavailable"]
Locked(failed) == [tag |-> "Locked", failed |-> failed]
Idle == [tag |-> "Idle"]

IsProvisioned == lifecycle.tag = "Provisioned"
IsUnlocked == auth.tag = "Unlocked"

\* State::new
NewWallet ==
    /\ lifecycle = Empty
    /\ auth = Unavailable
    /\ flow = Idle
    /\ policy \in Policies
    /\ effect = [tag |-> "None"]

NoEffect == [tag |-> "None"]
Rejection(reason) == [tag |-> "Reject", reason |-> reason]

\* The result of a handler's chain of early returns: the reason of the first
\* failing test, or Accepted.
Accepted == "Accepted"

\* common::reject and common::reject_operation leave the state alone.
Reject(reason) ==
    /\ effect' = Rejection(reason)
    /\ UNCHANGED wallet
RejectOperation(id, reason) ==
    /\ effect' = [tag |-> "RejectOperation", id |-> id, reason |-> reason]
    /\ UNCHANGED wallet

\* Mutants: the host of the session, or the flow in progress, is not tested.
RequestRefusal_AnyHost(host) ==
    IF ~IsUnlocked THEN "Locked" ELSE IF flow # Idle THEN "Busy" ELSE Accepted
RequestRefusal_Preempts(host) ==
    IF ~IsUnlocked THEN "Locked"
    ELSE IF auth.host # host THEN "WrongHost" ELSE Accepted

\* The test every host request runs: an unlocked session, of that host, with
\* no other foreground flow.
RequestRefusal(host) ==
    IF ~IsUnlocked THEN "Locked"
    ELSE IF auth.host # host THEN "WrongHost"
    ELSE IF flow # Idle THEN "Busy"
    ELSE Accepted

\* Mutant: an answer to an earlier attempt counts for the current one.
CallbackRefusal_AnyId(expected, id, actual) ==
    IF ~expected THEN "InvalidState" ELSE Accepted
\* The test every callback runs: the state it answers, then its id.
CallbackRefusal(expected, id, actual) ==
    IF ~expected THEN "InvalidState"
    ELSE IF id # actual THEN "CorrelationMismatch"
    ELSE Accepted

\* common::failed_attempts
FailedAttempts(a) == IF a.tag \in {"Unavailable", "Unlocked"} THEN 0 ELSE a.failed

\* The reset to Wiping shared by tamper_detected, pin_rejected and
\* factory_reset_confirmed.
StartWipe ==
    /\ lifecycle' = Wiping
    /\ auth' = Unavailable
    /\ flow' = Idle
    /\ effect' = [tag |-> "WipeWallet"]
    /\ UNCHANGED policy

\* Mutant: locking starts the retry count afresh.
LockWallet_Forgets ==
    /\ flow' = Idle
    /\ auth' = IF auth.tag = "Unavailable" THEN auth ELSE Locked(0)
    /\ effect' = [tag |-> "ClearSensitiveState"]
    /\ UNCHANGED <<lifecycle, policy>>

\* auth::lock
LockWallet ==
    /\ flow' = Idle
    /\ \/ /\ auth.tag \in {"Unavailable", "Locked"}
          /\ effect' = NoEffect
          /\ UNCHANGED auth
       \/ /\ auth.tag \notin {"Unavailable", "Locked"}
          /\ auth' = Locked(FailedAttempts(auth))
          /\ effect' = [tag |-> "ClearSensitiveState"]
    /\ UNCHANGED <<lifecycle, policy>>
=============================================================================
