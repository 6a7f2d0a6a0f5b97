--------------------------- MODULE BackendProtocol ---------------------------
(***************************************************************************)
(* What the reducer and the backends say to each other: the effects that   *)
(* are jobs for a backend, the events that are a backend's answers, and    *)
(* the handler each answer goes to (reducer/mod.rs, effect.rs, event.rs).  *)
(***************************************************************************)
EXTENDS Provisioning, Auth, Settings, Maintenance

\* The effects that ask a backend for something.
Backend ==
    {"GenerateKeyMaterial", "CaptureRecoveryMaterial",
     "DeriveRecoveredKeyMaterial", "ShowBackup", "ChallengeBackup",
     "ConfigurePin", "PersistProvisioning", "ResolveHostTrust", "VerifyPin",
     "OpenSession", "PersistTrustedHost", "PersistSettingChange",
     "ChangePin", "WipeWallet", "ClearSensitiveState"}

\* What the runtime notes down with an effect: a new wallet's metadata is
\* stored together with its root.
Job(e) ==
    IF e.tag = "PersistProvisioning"
    THEN [tag |-> e.tag, id |-> e.id,
          metadata |-> NewMetadata(lifecycle.mode, lifecycle.passphrase)]
    ELSE e

Jobs ==
    {e \in Effect : e.tag \in Backend \ {"PersistProvisioning"}}
    \cup [tag: {"PersistProvisioning"}, id: Ids, metadata: WalletMetadata]

Answers ==
    [tag: {"RecoveryMaterialCaptured", "KeyMaterialReady", "BackupShown",
           "BackupVerified", "PinConfigured", "ProvisioningPersisted",
           "PinVerified", "TrustedHostPersisted", "SettingChangePersisted",
           "PinChanged"}, id: Ids]
    \cup [tag: {"HostTrustResolved"}, id: Ids, trust: HostTrust]
    \cup [tag: {"PinRejected"}, id: Ids, failed_attempts: RetryCount]
    \cup [tag: {"SessionOpened"}, id: Ids, wallet: Wallets]
    \cup [tag: {"WipeCompleted", "RuntimeFailure"}]

\* A job, an answer or a state that carries this id.
Mentions(m, id) == "id" \in DOMAIN m /\ m.id = id

\* reducer/mod.rs sends each answer to its handler.
Handle(a) ==
    \/ a.tag = "RecoveryMaterialCaptured" /\ RecoveryMaterialCaptured(a.id)
    \/ a.tag = "KeyMaterialReady" /\ KeyMaterialReady(a.id)
    \/ a.tag = "BackupShown" /\ BackupShown(a.id)
    \/ a.tag = "BackupVerified" /\ BackupVerified(a.id)
    \/ a.tag = "PinConfigured" /\ PinConfigured(a.id)
    \/ a.tag = "ProvisioningPersisted" /\ ProvisioningPersisted(a.id)
    \/ a.tag = "HostTrustResolved" /\ HostTrustResolved(a.id, a.trust)
    \/ a.tag = "PinVerified" /\ PinVerified(a.id)
    \/ a.tag = "PinRejected" /\ PinRejected(a.id, a.failed_attempts)
    \/ a.tag = "SessionOpened" /\ SessionOpened(a.id, a.id, a.wallet)
    \/ a.tag = "TrustedHostPersisted" /\ TrustedHostPersisted(a.id)
    \/ a.tag = "SettingChangePersisted" /\ SettingChangePersisted(a.id)
    \/ a.tag = "PinChanged" /\ PinChanged(a.id)
    \/ a.tag = "WipeCompleted" /\ WipeCompleted
    \/ a.tag = "RuntimeFailure" /\ RuntimeFailure
==============================================================================
