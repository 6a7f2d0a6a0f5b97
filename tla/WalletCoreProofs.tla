-------------------------- MODULE WalletCoreProofs --------------------------
(***************************************************************************)
(* Type correctness and safety of the reducer, proved for every instance.  *)
(* Safety follows from the inductive invariant IInv.  It has three parts:  *)
(* SessionInv about the unlock attempt, WalletInv about the provisioned    *)
(* wallet, FlowInv about the foreground flow.  The frame lemmas say when a *)
(* step that leaves a part's variables alone keeps that part.              *)
(***************************************************************************)
EXTENDS WalletCore, HandlerLemmas

\* Whatever the observer records is a fact it knows.
LEMMA ObservedFacts ==
    ASSUME NEW facts, Observe(facts)
    PROVE  (seen \subseteq Facts)'
  BY DEF Observe, Pertinent, Facts

\* Each event of the specification is a handler of the reducer.
LEMMA EventTypes ==
    ASSUME StateOK, NEW id \in Ids,
           \/ SetupEvent(id) \/ AuthEvent(id) \/ PairingEvent(id)
           \/ OperationEvent(id) \/ SettingsEvent(id) \/ MaintenanceEvent(id)
    PROVE  StateOK'
<1>1. CASE SetupEvent(id)
  BY <1>1, SetupTypes DEF SetupEvent, SetupHandlers
<1>2. CASE AuthEvent(id)
  BY <1>2, AuthTypes DEF AuthEvent, AuthHandlers
<1>3. CASE PairingEvent(id)
  BY <1>3, PairingTypes DEF PairingEvent, PairingHandlers
<1>4. CASE OperationEvent(id)
  BY <1>4, OperationTypes DEF OperationEvent, OperationHandlers
<1>5. CASE SettingsEvent(id)
  BY <1>5, SettingsTypes DEF SettingsEvent, SettingsHandlers
<1>6. CASE MaintenanceEvent(id)
  BY <1>6, MaintenanceTypes DEF MaintenanceEvent, MaintenanceHandlers
<1>7. QED
  BY <1>1, <1>2, <1>3, <1>4, <1>5, <1>6

LEMMA RestartTypes ==
    ASSUME StateOK, DeviceEvent \/ Restart
    PROVE  StateOK'
<1>1. CASE DeviceEvent
  BY <1>1, BoardTypes DEF DeviceEvent, BoardHandlers
<1>2. CASE Restart
  BY <1>2, RetryAssumption
  DEF Restart, StateOK, Locked, Unavailable, Idle, NoEffect, AuthState,
      FlowState, Effect, RetryCount
<1>3. QED
  BY <1>1, <1>2

\* Every event leaves the observer with facts it knows.
LEMMA NextObserves ==
    ASSUME Next
    PROVE  (seen \subseteq Facts)'
  BY ObservedFacts
  DEF Next, SetupEvent, AuthEvent, PairingEvent, OperationEvent, SettingsEvent,
      MaintenanceEvent, DeviceEvent, Restart, Witness

\* Every state the reducer reaches, whatever the order of the events, is a
\* value of its Rust types: no handler builds an ill-formed State or Effect.
THEOREM TypeCorrect == Spec => []TypeOK
<1>1. Init => TypeOK
  BY PoliciesAssumption
  DEF Init, NewWallet, TypeOK, Empty, Unavailable, Idle, Lifecycle, AuthState,
      FlowState, Effect
<1>2. TypeOK /\ [Next]_vars => TypeOK'
  <2> SUFFICES ASSUME TypeOK, [Next]_vars PROVE TypeOK'
    OBVIOUS
  <2>1. StateOK
    BY DEF TypeOK, StateOK
  <2>2. CASE Next
    <3>1. StateOK'
      BY <2>1, <2>2, EventTypes, RestartTypes DEF Next
    <3>2. QED
      BY <2>2, <3>1, NextObserves DEF TypeOK, StateOK
  <2>3. CASE UNCHANGED vars
    BY <2>3 DEF vars, TypeOK
  <2>4. QED
    BY <2>2, <2>3
<1>3. QED
  BY <1>1, <1>2, PTL DEF Spec

-----------------------------------------------------------------------------

\* Facts end with their subject.
LEMMA ObservePertinent ==
    ASSUME NEW facts, Observe(facts)
    PROVE  FactsPertinent'
  BY DEF Observe, FactsPertinent

\* A step that keeps lifecycle keeps what is known of the backup.
LEMMA WalletFrame ==
    ASSUME IInv, NEW facts, Observe(facts), UNCHANGED lifecycle
    PROVE  WalletInv'
  BY DEF IInv, WalletInv, SetupInOrder, BackupClaimIsTrue, Observe, Pertinent,
         IsProvisioned, IsProvisioning

\* A step that keeps the attempt or session and leaves a flow bound to it.
LEMMA SessionFrame ==
    ASSUME IInv, NEW facts, Observe(facts),
           UNCHANGED <<lifecycle, auth, policy>>,
           flow' # Idle =>
               /\ IsUnlocked
               /\ flow'.tag # "Maintenance" => flow'.host = auth.host
               /\ flow'.tag = "Operation" => flow'.wallet = auth.wallet
    PROVE  SessionInv'
<1>1. FlowBoundToSession'
  BY DEF IInv, SessionInv, FlowBoundToSession, IsProvisioned, IsUnlocked,
         IsOperation, Idle
<1>2. SessionEarned'
  BY DEF IInv, SessionInv, SessionEarned, Observe, Pertinent
<1>3. RetryBudgetKept'
  BY DEF IInv, SessionInv, RetryBudgetKept, FailedAttempts
<1>4. QED
  BY <1>1, <1>2, <1>3 DEF SessionInv

\* FlowInv speaks of operations and setting changes only.
LEMMA QuietFlow ==
    ASSUME flow'.tag \notin {"Operation", "Settings"}
    PROVE  FlowInv'
  BY DEF FlowInv, ReviewInOrder, ExecutionHasConsent, OperationHonoursPolicy,
         ApprovalInOrder, IsOperation

LEMMA IdleFlow == ASSUME flow' = Idle PROVE FlowInv'
  BY QuietFlow DEF Idle

\* An event the reducer does not act on may add facts, but not that the
\* pending operation uses a key.
LEMMA Still ==
    ASSUME IInv, UNCHANGED wallet, NEW facts, Observe(facts),
           "key" \notin facts
    PROVE  SessionInv' /\ WalletInv' /\ FlowInv'
<1>1. UNCHANGED <<lifecycle, auth, flow, policy>>
  BY DEF wallet
<1>2. seen \subseteq seen' /\ ("key" \in seen' => "key" \in seen)
  BY <1>1 DEF IInv, FactsPertinent, Observe, Pertinent, IsProvisioned,
              IsProvisioning, IsOperation
<1>3. SessionInv'
  BY <1>1, SessionFrame
  DEF IInv, SessionInv, FlowBoundToSession, IsOperation
<1>4. FlowInv'
  BY <1>1, <1>2
  DEF IInv, FlowInv, ReviewInOrder, ExecutionHasConsent,
      OperationHonoursPolicy, ApprovalInOrder, IsOperation
<1>5. QED
  BY <1>1, <1>3, <1>4, WalletFrame

\* A refused event changes nothing.
LEMMA Refused ==
    ASSUME IInv, UNCHANGED wallet, Observe({})
    PROVE  SessionInv' /\ WalletInv' /\ FlowInv'
  BY Still

\* Locking keeps the retry count and ends every flow.
LEMMA LockKeepsInv ==
    ASSUME IInv, LockWallet, Observe({})
    PROVE  SessionInv' /\ WalletInv' /\ FlowInv'
<1>1. FlowInv'
  BY IdleFlow DEF LockWallet
<1>2. WalletInv'
  BY WalletFrame DEF LockWallet
<1>3. FlowBoundToSession'
  BY DEF IInv, SessionInv, FlowBoundToSession, LockWallet, Locked, Idle,
         IsProvisioned
<1>4. SessionEarned'
  BY DEF LockWallet, SessionEarned, Locked
<1>5. RetryBudgetKept'
  BY DEF IInv, SessionInv, RetryBudgetKept, LockWallet, Locked, FailedAttempts
<1>6. QED
  BY <1>1, <1>2, <1>3, <1>4, <1>5 DEF SessionInv

\* With the wallet gone there is nothing left to claim.
LEMMA UnavailableInv ==
    ASSUME IInv, lifecycle' \in {Empty, Wiping}, auth' = Unavailable,
           flow' = Idle
    PROVE  SessionInv' /\ WalletInv' /\ FlowInv'
<1>1. FlowInv'
  BY IdleFlow
<1>2. WalletInv'
  BY DEF Empty, Wiping, WalletInv, SetupInOrder, BackupClaimIsTrue,
         IsProvisioned, IsProvisioning
<1>3. SessionInv'
  BY RetryAssumption
  DEF Empty, Wiping, Unavailable, Idle, SessionInv, FlowBoundToSession,
      SessionEarned, RetryBudgetKept, FailedAttempts, IsProvisioned
<1>4. QED
  BY <1>1, <1>2, <1>3

LEMMA WipeKeepsInv ==
    ASSUME IInv, StartWipe
    PROVE  SessionInv' /\ WalletInv' /\ FlowInv'
  BY UnavailableInv DEF StartWipe

\* Without a provisioned wallet there is no attempt, session or flow.
LEMMA NoSessionYet ==
    ASSUME IInv, ~IsProvisioned
    PROVE  auth = Unavailable /\ flow = Idle
<1>1. auth = Unavailable
  BY DEF IInv, TypeOK, SessionInv, FlowBoundToSession, AuthState, Unavailable
<1>2. QED
  BY <1>1 DEF IInv, SessionInv, FlowBoundToSession, IsUnlocked, Unavailable

\* The setup advances one stage outside the session and the flow.
LEMMA AdvanceKeepsInv ==
    ASSUME IInv, IsProvisioning, NEW stage, NEW request,
           AdvanceStage(stage, request),
           NEW facts, Observe(facts),
           \/ stage \notin {"ConfiguringPin", "Persisting"}
           \/ lifecycle.mode # "Create"
           \/ "backup" \in seen \cup facts
              /\ stage \notin {"CreatingKeyMaterial",
                                "CapturingRecoveryMaterial"}
    PROVE  SessionInv' /\ WalletInv' /\ FlowInv'
<1>1. ~IsProvisioned
  BY DEF IsProvisioning, IsProvisioned
<1>2. auth = Unavailable /\ flow = Idle
  BY <1>1, NoSessionYet
<1>3. /\ lifecycle'.tag = "Provisioning" /\ lifecycle'.stage = stage
      /\ lifecycle'.mode = lifecycle.mode
  BY DEF IInv, TypeOK, Lifecycle, IsProvisioning, AdvanceStage
<1>4. FlowInv'
  BY <1>2, IdleFlow DEF AdvanceStage
<1>5. WalletInv'
  BY <1>3 DEF WalletInv, SetupInOrder, BackupClaimIsTrue, Observe, Pertinent,
              IsProvisioned, IsProvisioning
<1>6. SessionInv'
  BY <1>2, <1>3, RetryAssumption
  DEF AdvanceStage, Unavailable, Idle, SessionInv, FlowBoundToSession,
      SessionEarned, RetryBudgetKept, FailedAttempts, IsProvisioned
<1>7. QED
  BY <1>4, <1>5, <1>6

LEMMA SetupKeepsInv ==
    ASSUME IInv, NEW id \in Ids, SetupEvent(id)
    PROVE  SessionInv' /\ WalletInv' /\ FlowInv'
<1>1. ASSUME NEW mode, NEW passphrase, NEW stage, NEW request,
             StartSetup(id, mode, passphrase, stage, request), Observe({}),
             stage \notin {"ConfiguringPin", "Persisting"}
      PROVE  SessionInv' /\ WalletInv' /\ FlowInv'
  <2>1. CASE lifecycle # Empty
    BY <1>1, <2>1, Refused DEF StartSetup, Reject
  <2>2. CASE lifecycle = Empty
    <3>1. auth = Unavailable /\ flow = Idle
      BY <2>2, NoSessionYet DEF IsProvisioned, Empty
    <3>2. FlowInv'
      BY <1>1, <2>2, <3>1, IdleFlow DEF StartSetup
    <3>3. WalletInv'
      BY <1>1, <2>2
      DEF StartSetup, WalletInv, SetupInOrder, BackupClaimIsTrue,
          IsProvisioned, IsProvisioning
    <3>4. SessionInv'
      BY <1>1, <2>2, <3>1, RetryAssumption
      DEF StartSetup, Unavailable, Idle, SessionInv, FlowBoundToSession,
          SessionEarned, RetryBudgetKept, FailedAttempts, IsProvisioned
    <3>5. QED
      BY <3>2, <3>3, <3>4
  <2>3. QED
    BY <2>1, <2>2
<1>2. CASE RecoveryMaterialCaptured(id) /\ Observe({})
  BY <1>2, Refused, AdvanceKeepsInv
  DEF RecoveryMaterialCaptured, RecoveryMaterialRefusal, CallbackRefusal,
      Accepted, Reject
<1>3. CASE KeyMaterialReady(id) /\ Observe({})
  BY <1>3, Refused, AdvanceKeepsInv
  DEF KeyMaterialReady, KeyMaterialRefusal, CallbackRefusal, Accepted, Reject,
      IsDerivingKey
<1>4. CASE BackupShown(id) /\ Observe({})
  BY <1>4, Refused, AdvanceKeepsInv
  DEF BackupShown, AdvanceProvisioning, StageRefusal, CallbackRefusal,
      Accepted, Reject
<1>5. CASE PinConfigured(id) /\ Observe({})
  BY <1>5, Refused, AdvanceKeepsInv
  DEF PinConfigured, AdvanceProvisioning, StageRefusal, CallbackRefusal,
      Accepted, Reject, IInv, WalletInv, SetupInOrder
<1>6. CASE BackupVerified(id)
           /\ Witness("backup", SetupAsks("VerifyingBackup", id))
  <2>1. CASE SetupAsks("VerifyingBackup", id)
    BY <1>6, <2>1, AdvanceKeepsInv
    DEF BackupVerified, AdvanceProvisioning, StageRefusal, CallbackRefusal,
        Accepted, SetupAsks, Witness
  <2>2. CASE ~SetupAsks("VerifyingBackup", id)
    BY <1>6, <2>2, Refused
    DEF BackupVerified, AdvanceProvisioning, StageRefusal, CallbackRefusal,
        Accepted, Reject, SetupAsks, Witness
  <2>3. QED
    BY <2>1, <2>2
<1>7. CASE ProvisioningPersisted(id) /\ Observe({})
  <2>1. CASE ProvisioningPersistedRefusal(id) # Accepted
    BY <1>7, <2>1, Refused DEF ProvisioningPersisted, Reject
  <2>2. CASE ProvisioningPersistedRefusal(id) = Accepted
    <3>1. IsProvisioning /\ lifecycle.stage = "Persisting"
      BY <2>2 DEF ProvisioningPersistedRefusal, CallbackRefusal, Accepted
    <3>2. lifecycle' = Provisioned(NewMetadata(lifecycle.mode,
                                               lifecycle.passphrase))
      BY <1>7, <2>2 DEF ProvisioningPersisted
    <3>3. FlowInv'
      BY <1>7, <2>2, IdleFlow DEF ProvisioningPersisted
    <3>4. lifecycle.mode # "Generated"
      BY <3>1, FormatsAssumption
      DEF IInv, TypeOK, Lifecycle, IsProvisioning, ProvisioningMode,
          RecoveryFormat
    <3>5. WalletInv'
      BY <1>7, <3>1, <3>2, <3>4
      DEF IInv, WalletInv, SetupInOrder, BackupClaimIsTrue, Provisioned,
          NewMetadata, Observe, Pertinent, IsProvisioned, IsProvisioning
    <3>6. SessionInv'
      BY <1>7, <2>2, <3>2, RetryAssumption
      DEF ProvisioningPersisted, Provisioned, Locked, Idle, SessionInv,
          FlowBoundToSession, SessionEarned, RetryBudgetKept, FailedAttempts,
          IsProvisioned
    <3>7. QED
      BY <3>3, <3>5, <3>6
  <2>3. QED
    BY <2>1, <2>2
<1>8. QED
  <2>1. ASSUME NEW p \in Modes, StartCreate(id, p), Observe({})
        PROVE  SessionInv' /\ WalletInv' /\ FlowInv'
    BY <2>1, <1>1 DEF StartCreate
  <2>2. ASSUME NEW f \in Formats, NEW p \in Modes, StartRecovery(id, f, p),
               Observe({})
        PROVE  SessionInv' /\ WalletInv' /\ FlowInv'
    BY <2>2, <1>1 DEF StartRecovery
  <2>3. QED
    BY <2>1, <2>2, <1>2, <1>3, <1>4, <1>5, <1>6, <1>7 DEF SetupEvent

\* An unlock attempt moves on: no flow is open, and the attempt keeps within
\* its budget and its evidence.
LEMMA AttemptKeepsInv ==
    ASSUME IInv, IsProvisioned, ~IsUnlocked, NEW facts, Observe(facts),
           UNCHANGED <<lifecycle, flow, policy>>,
           auth'.tag # "Unavailable",
           FailedAttempts(auth') \in {FailedAttempts(auth), 0}
             \/ policy.pin_exhaustion # "Wipe"
             \/ FailedAttempts(auth') < MaxPinAttempts,
           SessionEarned'
    PROVE  SessionInv' /\ WalletInv' /\ FlowInv'
<1>1. flow = Idle
  BY DEF IInv, SessionInv, FlowBoundToSession
<1>2. FlowInv'
  BY <1>1, IdleFlow
<1>3. WalletInv'
  BY WalletFrame
<1>4. FlowBoundToSession'
  BY <1>1 DEF FlowBoundToSession, IsProvisioned
<1>5. RetryBudgetKept'
  BY RetryAssumption DEF IInv, SessionInv, RetryBudgetKept
<1>6. QED
  BY <1>2, <1>3, <1>4, <1>5 DEF SessionInv

LEMMA AuthKeepsInv ==
    ASSUME IInv, NEW id \in Ids, AuthEvent(id)
    PROVE  SessionInv' /\ WalletInv' /\ FlowInv'
<1> USE Refused
<1>0. auth.tag \notin {"Unavailable", "Unlocked"} => IsProvisioned /\ ~IsUnlocked
  BY DEF IInv, SessionInv, FlowBoundToSession, IsUnlocked
<1>1. ASSUME NEW h \in Hosts, UnlockRequested(id, h), Observe({})
      PROVE  SessionInv' /\ WalletInv' /\ FlowInv'
  <2>1. CASE UnlockRefusal # Accepted
    BY <1>1, <2>1 DEF UnlockRequested, Reject
  <2>2. CASE UnlockRefusal = Accepted
    <3>1. auth.tag = "Locked"
      BY <2>2 DEF UnlockRefusal, Accepted
    <3>2. SessionEarned'
      BY <1>1, <2>2 DEF UnlockRequested, SessionEarned
    <3>3. FailedAttempts(auth') = FailedAttempts(auth)
          /\ auth'.tag # "Unavailable"
      BY <1>1, <2>2, <3>1 DEF UnlockRequested, FailedAttempts
    <3>4. QED
      BY <1>0, <1>1, <2>2, <3>1, <3>2, <3>3, AttemptKeepsInv
      DEF UnlockRequested
  <2>3. QED
    BY <2>1, <2>2
<1>2. ASSUME NEW t \in HostTrust, HostTrustResolved(id, t),
             Witness("trusted", t = "Trusted" /\ AuthAsks("ResolvingHost", id))
      PROVE  SessionInv' /\ WalletInv' /\ FlowInv'
  <2>1. CASE ~AuthAsks("ResolvingHost", id)
    BY <1>2, <2>1
    DEF HostTrustResolved, CallbackRefusal, Accepted, Reject, AuthAsks, Witness
  <2>2. CASE AuthAsks("ResolvingHost", id)
    <3>1. /\ auth' = Attempt("VerifyingPin", t, auth.failed)
          /\ UNCHANGED <<lifecycle, flow, policy>>
      BY <1>2, <2>2 DEF HostTrustResolved, CallbackRefusal, Accepted, AuthAsks
    <3>2. SessionEarned'
      BY <1>2, <2>2, <3>1
      DEF SessionEarned, Attempt, Witness, Observe, Pertinent
    <3>3. FailedAttempts(auth') = FailedAttempts(auth)
          /\ auth'.tag # "Unavailable"
      BY <2>2, <3>1 DEF FailedAttempts, Attempt, AuthAsks
    <3>4. QED
      BY <1>0, <1>2, <2>2, <3>1, <3>2, <3>3, AttemptKeepsInv
      DEF AuthAsks, Witness
  <2>3. QED
    BY <2>1, <2>2
<1>3. ASSUME PinVerified(id), Witness("pin", AuthAsks("VerifyingPin", id))
      PROVE  SessionInv' /\ WalletInv' /\ FlowInv'
  <2>1. CASE ~AuthAsks("VerifyingPin", id)
    BY <1>3, <2>1
    DEF PinVerified, PinVerifiedRefusal, CallbackRefusal, Accepted, Reject,
        AuthAsks, Witness
  <2>2. CASE AuthAsks("VerifyingPin", id)
    <3>1. /\ auth' = Attempt(IF lifecycle.metadata.passphrase = "Disabled"
                             THEN "OpeningSession" ELSE "AwaitingPassphrase",
                             auth.trust, 0)
          /\ UNCHANGED <<lifecycle, flow, policy>>
      BY <1>0, <1>3, <2>2
      DEF PinVerified, PinVerifiedRefusal, CallbackRefusal, Accepted,
          AuthAsks, OpenSession
    <3>2. SessionEarned'
      BY <1>3, <2>2, <3>1
      DEF IInv, SessionInv, SessionEarned, Attempt, Witness, Observe,
          Pertinent, AuthAsks
    <3>3. FailedAttempts(auth') = 0 /\ auth'.tag # "Unavailable"
      BY <3>1 DEF FailedAttempts, Attempt
    <3>4. QED
      BY <1>0, <1>3, <2>2, <3>1, <3>2, <3>3, AttemptKeepsInv
      DEF AuthAsks, Witness
  <2>3. QED
    BY <2>1, <2>2
<1>4. ASSUME NEW n \in RetryCount, PinRejected(id, n), Observe({})
      PROVE  SessionInv' /\ WalletInv' /\ FlowInv'
  <2>1. CASE PinRejectedRefusal(id, n) # Accepted
    BY <1>4, <2>1 DEF PinRejected, Reject
  <2>2. CASE PinRejectedRefusal(id, n) = Accepted /\ StartWipe
    BY <2>2, WipeKeepsInv
  <2>3. CASE PinRejectedRefusal(id, n) = Accepted /\ ~StartWipe
    <3>1. auth.tag = "VerifyingPin"
      BY <2>3 DEF PinRejectedRefusal, CallbackRefusal, Accepted
    <3>2. SessionEarned' /\ FailedAttempts(auth') = n
          /\ auth'.tag # "Unavailable"
      BY <1>4, <2>3 DEF PinRejected, SessionEarned, Locked, FailedAttempts
    <3>3. policy.pin_exhaustion # "Wipe" \/ n < MaxPinAttempts
      BY <1>4, <2>3, RetryAssumption DEF PinRejected, IsExhausted, RetryCount
    <3>4. QED
      BY <1>0, <1>4, <2>3, <3>1, <3>2, <3>3, AttemptKeepsInv DEF PinRejected
  <2>4. QED
    BY <2>1, <2>2, <2>3
<1>5. ASSUME PassphraseProvided(id),
             Witness("passphrase", AuthAsks("AwaitingPassphrase", id))
      PROVE  SessionInv' /\ WalletInv' /\ FlowInv'
  <2>1. CASE ~AuthAsks("AwaitingPassphrase", id)
    BY <1>5, <2>1
    DEF PassphraseProvided, PassphraseRefusal, CallbackRefusal, Accepted,
        Reject, AuthAsks, Witness
  <2>2. CASE AuthAsks("AwaitingPassphrase", id)
    <3>1. OpenSession(auth.failed)
      BY <1>5, <2>2
      DEF PassphraseProvided, PassphraseRefusal, CallbackRefusal, Accepted,
          AuthAsks
    <3>2. SessionEarned'
      BY <1>5, <2>2, <3>1
      DEF IInv, SessionInv, SessionEarned, OpenSession, Attempt, Witness,
          Observe, Pertinent, AuthAsks
    <3>3. FailedAttempts(auth') = FailedAttempts(auth)
          /\ auth'.tag # "Unavailable"
      BY <2>2, <3>1 DEF FailedAttempts, OpenSession, Attempt, AuthAsks
    <3>4. QED
      BY <1>0, <1>5, <2>2, <3>1, <3>2, <3>3, AttemptKeepsInv
      DEF OpenSession, AuthAsks, Witness
  <2>3. QED
    BY <2>1, <2>2
<1>6. ASSUME PassphraseSkipped(id), Observe({})
      PROVE  SessionInv' /\ WalletInv' /\ FlowInv'
  <2>1. CASE SkipRefusal(id) # Accepted
    BY <1>6, <2>1 DEF PassphraseSkipped, Reject
  <2>2. CASE SkipRefusal(id) = Accepted
    <3>1. /\ OpenSession(auth.failed) /\ auth.tag = "AwaitingPassphrase"
          /\ lifecycle.metadata.passphrase = "Optional"
      BY <1>6, <2>2
      DEF PassphraseSkipped, SkipRefusal, PassphraseRefusal, CallbackRefusal,
          Accepted
    <3>2. SessionEarned'
      BY <1>6, <3>1
      DEF IInv, SessionInv, SessionEarned, OpenSession, Attempt, Observe,
          Pertinent
    <3>3. FailedAttempts(auth') = FailedAttempts(auth)
          /\ auth'.tag # "Unavailable"
      BY <3>1 DEF FailedAttempts, OpenSession, Attempt
    <3>4. QED
      BY <1>0, <1>6, <3>1, <3>2, <3>3, AttemptKeepsInv DEF OpenSession
  <2>3. QED
    BY <2>1, <2>2
<1>7. ASSUME NEW s \in Ids, NEW w \in Wallets, SessionOpened(id, s, w),
             Observe({})
      PROVE  SessionInv' /\ WalletInv' /\ FlowInv'
  <2>1. CASE ~AuthAsks("OpeningSession", id)
    BY <1>7, <2>1
    DEF SessionOpened, CallbackRefusal, Accepted, Reject, AuthAsks
  <2>2. CASE AuthAsks("OpeningSession", id)
    <3>1. /\ auth' = [tag |-> "Unlocked", session |-> s, host |-> auth.host,
                      wallet |-> w, trust |-> auth.trust]
          /\ UNCHANGED <<lifecycle, flow, policy>>
      BY <1>7, <2>2 DEF SessionOpened, CallbackRefusal, Accepted, AuthAsks
    <3>2. SessionEarned'
      BY <1>7, <2>2, <3>1
      DEF IInv, SessionInv, SessionEarned, Observe, Pertinent, AuthAsks
    <3>3. FailedAttempts(auth') = 0 /\ auth'.tag # "Unavailable"
      BY <3>1 DEF FailedAttempts
    <3>4. QED
      BY <1>0, <1>7, <2>2, <3>1, <3>2, <3>3, AttemptKeepsInv DEF AuthAsks
  <2>3. QED
    BY <2>1, <2>2
<1>8. CASE SessionExpired(id) /\ Observe({})
  BY <1>8, LockKeepsInv DEF SessionExpired, Reject
<1>9. QED
  BY <1>1, <1>2, <1>3, <1>4, <1>5, <1>6, <1>7, <1>8 DEF AuthEvent

\* Pairing opens, confirms and ends a flow of the session's host.
LEMMA PairingKeepsInv ==
    ASSUME IInv, NEW id \in Ids, PairingEvent(id)
    PROVE  SessionInv' /\ WalletInv' /\ FlowInv'
<1> USE Refused
<1>0. Observe({})
  BY DEF PairingEvent
<1>1. ASSUME UNCHANGED <<lifecycle, auth, policy>>,
             flow' # Idle => /\ flow'.tag = "Pairing"
                             /\ IsUnlocked /\ flow'.host = auth.host
      PROVE  SessionInv' /\ WalletInv' /\ FlowInv'
  BY <1>0, <1>1, SessionFrame, WalletFrame, QuietFlow DEF Idle
<1>2. ASSUME NEW h \in Hosts, PairingRequested(id, h)
      PROVE  SessionInv' /\ WalletInv' /\ FlowInv'
  BY <1>0, <1>1, <1>2
  DEF PairingRequested, RequestRefusal, Accepted, Reject
<1>3. CASE PairingConfirmed(id)
  BY <1>0, <1>1, <1>3
  DEF PairingConfirmed, CallbackRefusal, IsPairing, Accepted, Reject, IInv,
      SessionInv, FlowBoundToSession, Idle
<1>4. CASE PairingRejected(id) \/ TrustedHostPersisted(id)
  BY <1>0, <1>1, <1>4
  DEF PairingRejected, TrustedHostPersisted, EndPairing, Reject
<1>5. QED
  BY <1>2, <1>3, <1>4 DEF PairingEvent

\* The pending operation advances, in its session, to a stage whose claims
\* hold.
LEMMA AdvanceOperationKeepsInv ==
    ASSUME IInv, IsOperation, NEW kind, NEW stage, NEW report,
           AdvanceOperation(kind, stage, report), NEW facts, Observe(facts),
           stage.tag \in {"Displaying", "Reviewing", "Executing"},
           stage.tag \in {"Displaying", "Reviewing"} =>
               /\ stage.plan.kind = kind
               /\ "key" \in seen \cup facts \/ RequiresConfirmation(kind) =>
                     stage.plan.interaction = "Confirm"
               /\ stage.tag = "Reviewing" => "shown" \in seen \cup facts
               /\ stage.plan.assurance = "Blind" =>
                     policy.blind_signing = "Allow",
           stage.tag = "Executing" =>
               /\ "key" \in seen \cup facts \/ RequiresConfirmation(kind) =>
                     {"shown", "confirmed"} \subseteq seen \cup facts
               /\ kind \in {"ShowAddress", "CreateAccount"} =>
                     "shown" \in seen \cup facts,
           "key" \in seen \cup facts /\ policy.signing_hosts = "TrustedOnly" =>
               auth.trust = "Trusted"
    PROVE  SessionInv' /\ WalletInv' /\ FlowInv'
<1>1. /\ flow' = [flow EXCEPT !.kind = kind, !.stage = stage]
      /\ UNCHANGED <<lifecycle, auth, policy>>
  BY DEF AdvanceOperation
<1>2. /\ flow'.tag = "Operation" /\ flow'.host = flow.host
      /\ flow'.wallet = flow.wallet
      /\ flow'.kind = kind /\ flow'.stage = stage
  BY <1>1 DEF IInv, TypeOK, FlowState, IsOperation
<1>3. SessionInv'
  BY <1>1, <1>2, SessionFrame
  DEF IInv, SessionInv, FlowBoundToSession, IsOperation, Idle
<1>4. WalletInv'
  BY <1>1, WalletFrame
<1>5. \A f \in {"key", "shown", "confirmed"} :
         f \in seen' <=> f \in seen \cup facts
  BY <1>2 DEF Observe, Pertinent, IsOperation
<1>6. FlowInv'
  BY <1>1, <1>2, <1>5
  DEF FlowInv, ReviewInOrder, ExecutionHasConsent, OperationHonoursPolicy,
      ApprovalInOrder, IsOperation
<1>7. QED
  BY <1>3, <1>4, <1>6

\* Ending a flow ends what it claimed.
LEMMA EndFlowKeepsInv ==
    ASSUME IInv, flow' = Idle, UNCHANGED <<lifecycle, auth, policy>>,
           NEW facts, Observe(facts)
    PROVE  SessionInv' /\ WalletInv' /\ FlowInv'
  BY SessionFrame, WalletFrame, IdleFlow

\* The enforced interaction is Confirm for keys and for the kinds that
\* require it, and at least Display for addresses and accounts.
LEMMA EnforcedInteraction ==
    ASSUME NEW plan \in ReviewPlan
    PROVE  /\ PlanUsesKey(plan) \/ RequiresConfirmation(plan.kind) =>
                 EnforcedPlan(plan).interaction = "Confirm"
           /\ plan.kind \in {"ShowAddress", "CreateAccount"} =>
                 EnforcedPlan(plan).interaction # "Silent"
           /\ EnforcedPlan(plan).kind = plan.kind
           /\ EnforcedPlan(plan).assurance = plan.assurance
  BY DEF ReviewPlan, EnforcedPlan, PlanUsesKey, UsesPrivateKey,
         StrongestInteraction, MinimumInteraction, RequiresConfirmation

LEMMA OperationKeepsInv ==
    ASSUME IInv, NEW id \in Ids, OperationEvent(id)
    PROVE  SessionInv' /\ WalletInv' /\ FlowInv'
<1> USE AwaitedOperation
<1>1. ASSUME NEW h \in Hosts, OperationRequested(id, h), Observe({})
      PROVE  SessionInv' /\ WalletInv' /\ FlowInv'
  <2>1. CASE RequestRefusal(h) # Accepted
    BY <1>1, <2>1, Refused DEF OperationRequested, RejectOperation
  <2>2. CASE RequestRefusal(h) = Accepted
    <3>1. IsUnlocked /\ auth.host = h
      BY <2>2 DEF RequestRefusal, Accepted
    <3>2. SessionInv' /\ WalletInv'
      BY <1>1, <2>2, <3>1, SessionFrame, WalletFrame DEF OperationRequested
    <3>3. FlowInv'
      BY <1>1, <2>2
      DEF OperationRequested, FlowInv, ReviewInOrder, ExecutionHasConsent,
          OperationHonoursPolicy, ApprovalInOrder
    <3>4. QED
      BY <3>2, <3>3
  <2>3. QED
    BY <2>1, <2>2
<1>2. ASSUME NEW plan \in ReviewPlan, ReviewPrepared(id, plan),
             Witness("key", /\ OperationAsks("PreparingReview", id)
                            /\ plan.uses_private_key \/ plan.kind \in KeyKind)
      PROVE  SessionInv' /\ WalletInv' /\ FlowInv'
  <2>1. CASE ~OperationAsks("PreparingReview", id)
    <3>1. UNCHANGED wallet
      BY <1>2, <2>1
      DEF ReviewPrepared, RefuseOperation, OperationAsks, Reject,
          RejectOperation
    <3>2. QED
      BY <1>2, <2>1, <3>1, Refused DEF Witness
  <2>2. CASE OperationAsks("PreparingReview", id)
    <3> DEFINE facts == IF PlanUsesKey(plan) THEN {"key"} ELSE {}
    <3>1. Observe(facts)
      BY <1>2, <2>2 DEF Witness, PlanUsesKey, UsesPrivateKey
    <3>2. seen \cap {"key", "shown", "confirmed"} = {}
      BY <2>2 DEF IInv, FactsPertinent, Pertinent, OperationAsks
    <3>3. ~RefuseOperation(id, {"PreparingReview"})
      BY <2>2
      DEF OperationAsks, RefuseOperation, OperationRefusal, CallbackRefusal,
          Accepted
    <3>4. CASE PolicyRefusal(plan) # Accepted
      BY <1>2, <3>1, <3>3, <3>4, EndFlowKeepsInv
      DEF ReviewPrepared, OperationDropped, EndOperation
    <3>5. CASE PolicyRefusal(plan) = Accepted
      <4>1. /\ plan.assurance = "Blind" => policy.blind_signing = "Allow"
            /\ PlanUsesKey(plan) /\ policy.signing_hosts = "TrustedOnly" =>
                  auth.trust = "Trusted"
        BY <3>5
        DEF PolicyRefusal, Accepted, IInv, TypeOK, SecurityPolicy
      <4>2. IsOperation
        BY <2>2 DEF OperationAsks
      <4>3. CASE EnforcedPlan(plan).interaction = "Silent"
        <5>1. AdvanceOperation(plan.kind, [tag |-> "Executing"],
                               [tag |-> "ExecuteOperation", id |-> id])
          BY <1>2, <3>3, <3>5, <4>3 DEF ReviewPrepared, Execute
        <5>2. /\ "key" \notin seen \cup facts
              /\ ~RequiresConfirmation(plan.kind)
              /\ plan.kind \notin {"ShowAddress", "CreateAccount"}
          BY <3>2, <4>3, EnforcedInteraction
        <5>3. QED
          BY <3>1, <4>2, <5>1, <5>2, AdvanceOperationKeepsInv
      <4>4. CASE EnforcedPlan(plan).interaction # "Silent"
        <5>1. AdvanceOperation(plan.kind,
                  [tag |-> "Displaying", plan |-> EnforcedPlan(plan)],
                  [tag |-> "RenderOperationReview", id |-> id])
          BY <1>2, <3>3, <3>5, <4>4 DEF ReviewPrepared
        <5>2. "key" \in seen \cup facts <=> PlanUsesKey(plan)
          BY <3>2
        <5>3. QED
          BY <3>1, <4>1, <4>2, <5>1, <5>2, EnforcedInteraction,
             AdvanceOperationKeepsInv
      <4>5. QED
        BY <4>3, <4>4
    <3>6. QED
      BY <3>4, <3>5
  <2>3. QED
    BY <2>1, <2>2
<1>3. ASSUME ReviewDisplayed(id),
             Witness("shown", OperationAsks("Displaying", id))
      PROVE  SessionInv' /\ WalletInv' /\ FlowInv'
  <2>1. CASE UNCHANGED wallet
    BY <1>3, <2>1, Still DEF Witness
  <2>2. CASE ~UNCHANGED wallet
    <3>1. /\ IsOperation /\ flow.id = id /\ flow.stage.tag = "Displaying"
          /\ Observe({"shown"})
      BY <1>3, <2>2
      DEF ReviewDisplayed, RefuseOperation, Reject, RejectOperation, Witness,
          OperationAsks
    <3>2. /\ flow.stage.plan.kind = flow.kind
          /\ "key" \in seen \/ RequiresConfirmation(flow.kind) =>
                flow.stage.plan.interaction = "Confirm"
          /\ flow.stage.plan.assurance = "Blind" =>
                policy.blind_signing = "Allow"
          /\ "key" \in seen /\ policy.signing_hosts = "TrustedOnly" =>
                auth.trust = "Trusted"
      BY <3>1 DEF IInv, FlowInv, ReviewInOrder, OperationHonoursPolicy
    <3>3. \/ /\ flow.stage.plan.interaction = "Display"
             /\ AdvanceOperation(flow.kind, [tag |-> "Executing"],
                                 [tag |-> "ExecuteOperation", id |-> id])
          \/ AdvanceOperation(flow.kind,
                 [tag |-> "Reviewing", plan |-> flow.stage.plan], NoEffect)
      BY <1>3, <2>2
      DEF ReviewDisplayed, RefuseOperation, Reject, RejectOperation, Execute
    <3>4. QED
      BY <3>1, <3>2, <3>3, AdvanceOperationKeepsInv
  <2>3. QED
    BY <2>1, <2>2
<1>4. ASSUME OperationConfirmed(id),
             Witness("confirmed", OperationAsks("Reviewing", id))
      PROVE  SessionInv' /\ WalletInv' /\ FlowInv'
  <2>1. CASE UNCHANGED wallet
    BY <1>4, <2>1, Still DEF Witness
  <2>2. CASE ~UNCHANGED wallet
    <3>1. /\ IsOperation /\ flow.id = id /\ flow.stage.tag = "Reviewing"
          /\ Observe({"confirmed"})
      BY <1>4, <2>2
      DEF OperationConfirmed, RefuseOperation, Reject, RejectOperation,
          Witness, OperationAsks
    <3>2. /\ "shown" \in seen
          /\ "key" \in seen /\ policy.signing_hosts = "TrustedOnly" =>
                auth.trust = "Trusted"
      BY <3>1 DEF IInv, FlowInv, ReviewInOrder, OperationHonoursPolicy
    <3>3. \/ EndOperation([tag |-> "RejectOperation", id |-> id,
                           reason |-> SessionRefusal])
          \/ AdvanceOperation(flow.kind, [tag |-> "Executing"],
                              [tag |-> "ExecuteOperation", id |-> id])
      BY <1>4, <2>2
      DEF OperationConfirmed, RefuseOperation, Reject, RejectOperation,
          OperationDropped, Execute
    <3>4. QED
      BY <3>1, <3>2, <3>3, AdvanceOperationKeepsInv, EndFlowKeepsInv
      DEF EndOperation
  <2>3. QED
    BY <2>1, <2>2
<1>5. CASE /\ \/ OperationRejected(id) \/ OperationCompleted(id)
              \/ OperationFailed(id) \/ OperationCancelled(id)
           /\ Observe({})
  BY <1>5, Refused, EndFlowKeepsInv
  DEF OperationRejected, OperationCompleted, OperationFailed,
      OperationFinished, OperationCancelled, RefuseOperation, Reject,
      RejectOperation, OperationDropped, EndOperation
<1>6. QED
  BY <1>1, <1>2, <1>3, <1>4, <1>5 DEF OperationEvent

\* A change that was persisted takes effect with the flow over: a session
\* has no failed attempts, and only its trust may have been taken away.
LEMMA ApplyKeepsInv ==
    ASSUME IInv, IsUnlocked, NEW change \in Changes, ApplyChange(change),
           flow' = Idle, Observe({})
    PROVE  SessionInv' /\ WalletInv' /\ FlowInv'
<1>1. FlowInv'
  BY IdleFlow
<1>2. IsProvisioned
  BY DEF IInv, SessionInv, FlowBoundToSession, IsUnlocked
<1>3. /\ auth'.tag = "Unlocked"
      /\ auth'.trust = auth.trust \/ auth'.trust = "Untrusted"
  BY DEF IInv, TypeOK, AuthState, ApplyChange, Downgrades, IsUnlocked
<1>4. /\ lifecycle'.tag = "Provisioned"
      /\ lifecycle'.metadata.backup = lifecycle.metadata.backup
      /\ lifecycle'.metadata.origin = lifecycle.metadata.origin
  BY <1>2
  DEF IInv, TypeOK, Lifecycle, WalletMetadata, ApplyChange, IsProvisioned
<1>5. WalletInv'
  BY <1>2, <1>4
  DEF IInv, WalletInv, SetupInOrder, BackupClaimIsTrue, Observe, Pertinent,
      IsProvisioned, IsProvisioning
<1>6. FlowBoundToSession'
  BY <1>3, <1>4 DEF FlowBoundToSession, IsProvisioned
<1>7. SessionEarned'
  BY <1>3
  DEF IInv, SessionInv, SessionEarned, IsUnlocked, Observe, Pertinent
<1>8. RetryBudgetKept'
  BY <1>3, RetryAssumption DEF RetryBudgetKept, FailedAttempts
<1>9. QED
  BY <1>1, <1>5, <1>6, <1>7, <1>8 DEF SessionInv

LEMMA SettingsKeepsInv ==
    ASSUME IInv, NEW id \in Ids, SettingsEvent(id)
    PROVE  SessionInv' /\ WalletInv' /\ FlowInv'
<1>1. ASSUME NEW h \in Hosts, NEW c \in Changes,
             SettingChangeRequested(id, h, c), Observe({})
      PROVE  SessionInv' /\ WalletInv' /\ FlowInv'
  <2>1. CASE RequestRefusal(h) # Accepted
    BY <1>1, <2>1, Refused DEF SettingChangeRequested, Reject
  <2>2. CASE RequestRefusal(h) = Accepted
    <3>1. IsUnlocked /\ auth.host = h
      BY <2>2 DEF RequestRefusal, Accepted
    <3>2. SessionInv' /\ WalletInv'
      BY <1>1, <2>2, <3>1, SessionFrame, WalletFrame
      DEF SettingChangeRequested
    <3>3. FlowInv'
      BY <1>1, <2>2
      DEF SettingChangeRequested, FlowInv, ReviewInOrder, ExecutionHasConsent,
          OperationHonoursPolicy, ApprovalInOrder, IsOperation
    <3>4. QED
      BY <3>2, <3>3
  <2>3. QED
    BY <2>1, <2>2
<1>2. ASSUME SettingChangeConfirmed(id),
             Witness("approved", SettingsAsks("Reviewing", id))
      PROVE  SessionInv' /\ WalletInv' /\ FlowInv'
  <2>1. CASE ConfirmRefusal(id) # Accepted
    BY <1>2, <2>1, Still DEF SettingChangeConfirmed, Reject, Witness
  <2>2. CASE ConfirmRefusal(id) = Accepted
    <3>1. /\ IsUnlocked /\ auth.host = flow.host
          /\ flow.tag = "Settings"
          /\ SettingsAsks("Reviewing", id)
      BY <2>2
      DEF ConfirmRefusal, SettingsRefusal, CallbackRefusal, Accepted,
          SettingsAsks
    <3>2. /\ flow'.tag = "Settings" /\ flow'.host = flow.host
          /\ flow'.stage = "Persisting"
          /\ UNCHANGED <<lifecycle, auth, policy>>
      BY <1>2, <2>2, <3>1
      DEF SettingChangeConfirmed, IInv, TypeOK, FlowState
    <3>3. Observe({"approved"})
      BY <1>2, <3>1 DEF Witness
    <3>4. SessionInv' /\ WalletInv'
      BY <3>1, <3>2, <3>3, SessionFrame, WalletFrame
    <3>5. FlowInv'
      BY <3>2, <3>3
      DEF FlowInv, ReviewInOrder, ExecutionHasConsent, OperationHonoursPolicy,
          ApprovalInOrder, IsOperation, Observe, Pertinent
    <3>6. QED
      BY <3>4, <3>5
  <2>3. QED
    BY <2>1, <2>2
<1>3. CASE SettingChangeRejected(id) /\ Observe({})
  BY <1>3, Refused, EndFlowKeepsInv DEF SettingChangeRejected, Reject
<1>4. CASE SettingChangePersisted(id) /\ Observe({})
  <2>1. CASE SettingsRefusal(id, "Persisting") # Accepted
    BY <1>4, <2>1, Refused DEF SettingChangePersisted, Reject
  <2>2. CASE SettingsRefusal(id, "Persisting") = Accepted
    <3>1. flow.tag = "Settings"
      BY <2>2 DEF SettingsRefusal, CallbackRefusal, Accepted
    <3>2. IsUnlocked /\ flow.change \in Changes
      BY <3>1
      DEF IInv, TypeOK, FlowState, SessionInv, FlowBoundToSession, Idle
    <3>3. QED
      BY <1>4, <2>2, <3>2, ApplyKeepsInv DEF SettingChangePersisted
  <2>3. QED
    BY <2>1, <2>2
<1>5. QED
  BY <1>1, <1>2, <1>3, <1>4 DEF SettingsEvent

LEMMA MaintenanceKeepsInv ==
    ASSUME IInv, NEW id \in Ids, MaintenanceEvent(id)
    PROVE  SessionInv' /\ WalletInv' /\ FlowInv'
<1>1. ASSUME NEW h \in Hosts, Observe({}),
             \/ ChangePinRequested(id, h)
             \/ BackupCheckRequested(id, h)
             \/ FactoryResetRequested(id, h)
      PROVE  SessionInv' /\ WalletInv' /\ FlowInv'
  <2>1. CASE RequestRefusal(h) # Accepted
    BY <1>1, <2>1, Refused
    DEF ChangePinRequested, BackupCheckRequested, FactoryResetRequested,
        MaintenanceRequested, Reject
  <2>2. CASE RequestRefusal(h) = Accepted
    <3>1. IsUnlocked /\ auth.host = h
      BY <2>2 DEF RequestRefusal, Accepted
    <3>2. /\ \/ flow'.tag = "Maintenance"
             \/ flow'.tag = "FactoryReset" /\ flow'.host = h
          /\ UNCHANGED <<lifecycle, auth, policy>>
      BY <1>1, <2>2
      DEF ChangePinRequested, BackupCheckRequested, FactoryResetRequested,
          MaintenanceRequested
    <3>3. QED
      BY <1>1, <3>1, <3>2, SessionFrame, WalletFrame, QuietFlow
  <2>3. QED
    BY <2>1, <2>2
<1>2. CASE (PinChanged(id) \/ FactoryResetRejected(id)) /\ Observe({})
  BY <1>2, Refused, EndFlowKeepsInv
  DEF PinChanged, FactoryResetRejected, Reject
<1>3. CASE FactoryResetConfirmed(id) /\ Observe({})
  BY <1>3, Refused, WipeKeepsInv DEF FactoryResetConfirmed, Reject
<1>4. ASSUME NEW valid \in BOOLEAN, BackupCheckCompleted(id, valid),
             Witness("backup", valid /\ BackupAsks(id))
      PROVE  SessionInv' /\ WalletInv' /\ FlowInv'
  <2>1. CASE BackupCheckRefusal(id) # Accepted
    BY <1>4, <2>1, Still DEF BackupCheckCompleted, Reject, Witness
  <2>2. CASE BackupCheckRefusal(id) = Accepted /\ ~(valid /\ IsProvisioned)
    <3>1. flow' = Idle /\ UNCHANGED <<lifecycle, auth, policy>>
      BY <1>4, <2>2 DEF BackupCheckCompleted
    <3>2. QED
      BY <1>4, <3>1, EndFlowKeepsInv DEF Witness
  <2>3. CASE BackupCheckRefusal(id) = Accepted /\ valid /\ IsProvisioned
    <3>1. /\ flow' = Idle /\ UNCHANGED <<auth, policy>>
          /\ lifecycle' = [lifecycle EXCEPT !.metadata.backup = "Verified"]
      BY <1>4, <2>3 DEF BackupCheckCompleted
    <3>2. /\ lifecycle'.tag = "Provisioned"
          /\ lifecycle'.metadata.backup = "Verified"
          /\ lifecycle'.metadata.passphrase = lifecycle.metadata.passphrase
      BY <2>3, <3>1 DEF IInv, TypeOK, Lifecycle, WalletMetadata, IsProvisioned
    <3>3. Observe({"backup"})
      BY <1>4, <2>3
      DEF Witness, BackupAsks, BackupCheckRefusal, CallbackRefusal, Accepted
    <3>4. WalletInv'
      BY <3>2, <3>3
      DEF WalletInv, SetupInOrder, BackupClaimIsTrue, Observe, Pertinent,
          IsProvisioned, IsProvisioning
    <3>5. SessionInv'
      BY <2>3, <3>1, <3>2, <3>3
      DEF IInv, SessionInv, FlowBoundToSession, SessionEarned,
          RetryBudgetKept, FailedAttempts, IsProvisioned, Observe, Pertinent
    <3>6. QED
      BY <3>1, <3>4, <3>5, IdleFlow
  <2>4. QED
    BY <2>1, <2>2, <2>3
<1>5. QED
  BY <1>1, <1>2, <1>3, <1>4 DEF MaintenanceEvent

LEMMA DeviceKeepsInv ==
    ASSUME IInv, DeviceEvent \/ Restart
    PROVE  SessionInv' /\ WalletInv' /\ FlowInv'
<1>0. Observe({})
  BY DEF DeviceEvent, Restart
<1> USE <1>0, Refused, LockKeepsInv, WipeKeepsInv, UnavailableInv
<1>1. CASE LockRequested
  BY <1>1 DEF LockRequested
<1>2. ASSUME NEW h \in Hosts, HostDisconnected(h)
      PROVE  SessionInv' /\ WalletInv' /\ FlowInv'
  BY <1>2 DEF HostDisconnected
<1>3. CASE WipeCompleted
  BY <1>3 DEF WipeCompleted, Reject, ResetToEmpty
<1>4. CASE RuntimeFailure
  BY <1>4 DEF RuntimeFailure, ResetToEmpty
<1>5. CASE TamperDetected
  BY <1>5 DEF TamperDetected
<1>6. CASE Restart
  <2>1. FlowInv' /\ WalletInv'
    BY <1>6, IdleFlow, WalletFrame DEF Restart
  <2>2. SessionInv'
    BY <1>6, RetryAssumption
    DEF Restart, Locked, Unavailable, Idle, SessionInv, FlowBoundToSession,
        SessionEarned, RetryBudgetKept, FailedAttempts, IsProvisioned
  <2>3. QED
    BY <2>1, <2>2
<1>7. QED
  BY <1>1, <1>2, <1>3, <1>4, <1>5, <1>6 DEF DeviceEvent

\* IInv holds throughout, whatever events arrive in whatever order.
THEOREM Inductive == Spec => []IInv
<1>1. Init => IInv
  <2> SUFFICES ASSUME Init PROVE IInv
    OBVIOUS
  <2>1. TypeOK
    BY PoliciesAssumption
    DEF Init, NewWallet, TypeOK, Empty, Unavailable, Idle, Lifecycle,
        AuthState, FlowState, Effect
  <2>2. /\ lifecycle = Empty /\ auth = Unavailable /\ flow = Idle
        /\ seen = {}
    BY DEF Init, NewWallet
  <2>3. SessionInv
    BY <2>2, RetryAssumption
    DEF Empty, Unavailable, Idle, SessionInv, FlowBoundToSession,
        SessionEarned, RetryBudgetKept, FailedAttempts, IsProvisioned
  <2>4. WalletInv /\ FlowInv /\ FactsPertinent
    BY <2>2
    DEF Empty, Idle, WalletInv, SetupInOrder, BackupClaimIsTrue, FlowInv,
        ReviewInOrder, ExecutionHasConsent, OperationHonoursPolicy,
        ApprovalInOrder, FactsPertinent, IsProvisioned, IsProvisioning,
        IsOperation
  <2>5. QED
    BY <2>1, <2>3, <2>4 DEF IInv
<1>2. TypeOK' /\ IInv /\ [Next]_vars => IInv'
  <2> SUFFICES ASSUME TypeOK', IInv, [Next]_vars PROVE IInv'
    OBVIOUS
  <2>1. CASE Next
    <3>1. FactsPertinent'
      BY <2>1, ObservePertinent
      DEF Next, SetupEvent, AuthEvent, PairingEvent, OperationEvent,
          SettingsEvent, MaintenanceEvent, DeviceEvent, Restart, Witness
    <3>2. SessionInv' /\ WalletInv' /\ FlowInv'
      BY <2>1, SetupKeepsInv, AuthKeepsInv, PairingKeepsInv,
         OperationKeepsInv, SettingsKeepsInv, MaintenanceKeepsInv,
         DeviceKeepsInv
      DEF Next
    <3>3. QED
      BY <3>1, <3>2 DEF IInv
  <2>2. CASE UNCHANGED vars
    BY <2>2
    DEF vars, IInv, TypeOK, FactsPertinent, Pertinent, SessionInv, WalletInv,
        FlowInv, FlowBoundToSession, SessionEarned, RetryBudgetKept,
        SetupInOrder, BackupClaimIsTrue, ReviewInOrder, ExecutionHasConsent,
        OperationHonoursPolicy, ApprovalInOrder, FailedAttempts,
        IsProvisioned, IsProvisioning, IsUnlocked, IsOperation
  <2>3. QED
    BY <2>1, <2>2
<1>3. QED
  BY <1>1, <1>2, TypeCorrect, PTL DEF Spec

\* A foreground flow is always bound to the host and wallet of an open
\* session, so the confirm, display and persist handlers act for the host
\* that asked.
THEOREM FlowsAreBound == Spec => []FlowBoundToSession
  BY Inductive, PTL DEF IInv, SessionInv

\* A session is the outcome of a verified PIN, of the trust the backend
\* reported, and of the passphrase where one is required.
THEOREM SessionsAreEarned == Spec => []SessionEarned
  BY Inductive, PTL DEF IInv, SessionInv

\* Under the Wipe policy no reachable state has used up its PIN attempts.
THEOREM BudgetIsKept == Spec => []RetryBudgetKept
  BY Inductive, PTL DEF IInv, SessionInv

\* Nothing executes with a private key that the user did not see and confirm.
THEOREM ConsentIsGiven == Spec => []ExecutionHasConsent
  BY Inductive, PTL DEF IInv, FlowInv

\* The policy tested by review_prepared still holds when the operation runs.
THEOREM PolicyIsHonoured == Spec => []OperationHonoursPolicy
  BY Inductive, PTL DEF IInv, FlowInv

\* The metadata never claims a backup that was not checked.
THEOREM BackupClaimsAreTrue == Spec => []BackupClaimIsTrue
  BY Inductive, PTL DEF IInv, WalletInv

-----------------------------------------------------------------------------
(* What a step of the reducer may do: the four action properties of        *)
(* WalletCore, and that it implements SigningGate.                         *)
(*                                                                         *)
(* Every event the reducer handles is one of thirteen kinds of step,       *)
(* defined first (NextIsAStep).  Each theorem then goes through the kinds, *)
(* not through the events.                                                 *)

Calm == effect'.tag \notin {"ExecuteOperation", "WipeWallet", "WalletWiped"}

\* Nothing changes, and what is known of the pending operation's key stays.
Unmoved ==
    /\ UNCHANGED wallet
    /\ Calm
    /\ IsOperation => ("key" \in seen' <=> "key" \in seen)

\* A setup begins, advances or is stored.
SetupMoves ==
    /\ lifecycle.tag \in {"Empty", "Provisioning"}
    /\ lifecycle'.tag \in {"Provisioning", "Provisioned"}
    /\ auth = Unavailable /\ auth' \in {Unavailable, Locked(0)}
    /\ flow = Idle /\ flow' = Idle
    /\ UNCHANGED policy
    /\ Calm

SetupAborts == IsProvisioning /\ ResetToEmpty /\ Calm
WipeEnds == lifecycle = Wiping /\ ResetToEmpty /\ effect' = [tag |-> "WalletWiped"]
Locks == LockWallet /\ Calm

\* An unlock attempt begins, advances or fails.
AttemptMoves ==
    /\ auth.tag \notin {"Unavailable", "Unlocked"}
    /\ auth'.tag \notin {"Unavailable", "Unlocked"}
    /\ FailedAttempts(auth') < FailedAttempts(auth) =>
          auth'.tag \in {"AwaitingPassphrase", "OpeningSession"}
    /\ auth'.tag \in {"AwaitingPassphrase", "OpeningSession"} =>
          \/ auth'.failed = 0
          \/ auth.tag = "AwaitingPassphrase" /\ auth'.failed = auth.failed
    /\ flow = Idle
    /\ UNCHANGED <<lifecycle, flow, policy>>
    /\ Calm

SessionOpens ==
    /\ auth.tag = "OpeningSession"
    /\ \E s \in Ids, w \in Wallets :
          auth' = [tag |-> "Unlocked", session |-> s, host |-> auth.host,
                   wallet |-> w, trust |-> auth.trust]
    /\ flow = Idle
    /\ UNCHANGED <<lifecycle, flow, policy>>
    /\ Calm

\* A pairing, a setting change, a check or a reset moves within its session.
FlowMoves ==
    /\ flow.tag # "Operation" /\ flow'.tag # "Operation"
    /\ UNCHANGED <<lifecycle, auth, policy>>
    /\ Calm

SettingApplies ==
    /\ flow.tag = "Settings" /\ flow.stage = "Persisting"
    /\ flow' = Idle
    /\ ApplyChange(flow.change)
    /\ Calm

BackupChecked ==
    /\ IsProvisioned /\ IsMaintenance
    /\ flow' = Idle
    /\ lifecycle' = [lifecycle EXCEPT !.metadata.backup = "Verified"]
    /\ UNCHANGED <<auth, policy>>
    /\ Calm

-----------------------------------------------------------------------------
(* The steps of an operation *)

\* The pending operation takes up a stage, and whether it uses a key is known.
Becomes(tag, key) ==
    /\ IsOperation
    /\ flow'.tag = "Operation" /\ flow'.id = flow.id
    /\ flow'.host = flow.host /\ flow'.wallet = flow.wallet
    /\ flow'.stage.tag = tag
    /\ "key" \in seen' <=> key

Submitted ==
    /\ IsUnlocked /\ flow = Idle
    /\ \E id \in Ids :
          flow' = [tag |-> "Operation", id |-> id, host |-> auth.host,
                   wallet |-> auth.wallet, kind |-> "None",
                   stage |-> [tag |-> "PreparingReview"]]
    /\ "key" \notin seen'
    /\ Calm
Planned ==
    /\ flow.stage.tag = "PreparingReview" /\ Calm
    /\ Becomes("Displaying", TRUE) \/ Becomes("Displaying", FALSE)
Presented ==
    flow.stage.tag = "Displaying" /\ Calm /\ Becomes("Reviewing", "key" \in seen)
Executed ==
    /\ effect'.tag = "ExecuteOperation"
    /\ \/ flow.stage.tag = "PreparingReview" /\ Becomes("Executing", FALSE)
       \/ /\ flow.stage.tag = "Displaying" /\ "key" \notin seen
          /\ Becomes("Executing", FALSE)
       \/ flow.stage.tag = "Reviewing" /\ Becomes("Executing", "key" \in seen)
Ended == IsOperation /\ flow' = Idle /\ Calm

OperationMoves ==
    /\ UNCHANGED <<lifecycle, auth, policy>>
    /\ Submitted \/ Planned \/ Presented \/ Executed \/ Ended

Step ==
    \/ Unmoved \/ SetupMoves \/ SetupAborts \/ StartWipe \/ WipeEnds \/ Locks
    \/ AttemptMoves \/ SessionOpens \/ FlowMoves \/ SettingApplies
    \/ BackupChecked \/ OperationMoves \/ Restart

-----------------------------------------------------------------------------

\* A refused event is a step that moves nothing.
LEMMA RejectStep ==
    ASSUME IInv, NEW facts, "key" \notin facts, Observe(facts),
           UNCHANGED wallet, Calm
    PROVE  Unmoved
  BY DEF Unmoved, wallet, IInv, FactsPertinent, Observe, Pertinent, IsOperation

LEMMA RejectIsCalm ==
    /\ \A reason : Reject(reason) => UNCHANGED wallet /\ Calm
    /\ \A id, reason : RejectOperation(id, reason) => UNCHANGED wallet /\ Calm
  BY DEF Reject, RejectOperation, Rejection, Calm

LEMMA LockStep == ASSUME LockWallet PROVE Locks
  BY DEF LockWallet, Locks, Calm, NoEffect

LEMMA SetupSteps ==
    ASSUME IInv, NEW id \in Ids, SetupEvent(id)
    PROVE  Unmoved \/ SetupMoves
<1>0. /\ \E facts : "key" \notin facts /\ Observe(facts)
      /\ UNCHANGED wallet /\ Calm => Unmoved
  <2>1. Observe({}) \/ Observe({"backup"})
    BY DEF SetupEvent, Witness
  <2>2. QED
    BY <2>1, RejectStep
<1>1. ASSUME lifecycle.tag \in {"Empty", "Provisioning"}
      PROVE  auth = Unavailable /\ flow = Idle
  BY <1>1, NoSessionYet DEF IsProvisioned
<1>2. ASSUME NEW stage, NEW request, AdvanceStage(stage, request), IsProvisioning,
             request \in {"DeriveRecoveredKeyMaterial", "ShowBackup",
                          "ChallengeBackup", "ConfigurePin",
                          "PersistProvisioning"}
      PROVE  SetupMoves
  BY <1>1, <1>2
  DEF AdvanceStage, IsProvisioning, SetupMoves, Calm, IInv, TypeOK, Lifecycle
<1>3. ASSUME NEW mode, NEW passphrase, NEW stage, NEW request,
             StartSetup(id, mode, passphrase, stage, request),
             request.tag \in {"GenerateKeyMaterial", "CaptureRecoveryMaterial"}
      PROVE  Unmoved \/ SetupMoves
  BY <1>0, <1>1, <1>3, RejectIsCalm DEF StartSetup, SetupMoves, Calm, Empty
<1>4. CASE RecoveryMaterialCaptured(id) \/ KeyMaterialReady(id)
  BY <1>0, <1>2, <1>4, RejectIsCalm
  DEF RecoveryMaterialCaptured, RecoveryMaterialRefusal, KeyMaterialReady,
      KeyMaterialRefusal, CallbackRefusal, Accepted
<1>5. CASE BackupShown(id) \/ BackupVerified(id) \/ PinConfigured(id)
  BY <1>0, <1>2, <1>5, RejectIsCalm
  DEF BackupShown, BackupVerified, PinConfigured, AdvanceProvisioning,
      StageRefusal, CallbackRefusal, Accepted
<1>6. CASE ProvisioningPersisted(id)
  BY <1>0, <1>1, <1>6, RejectIsCalm
  DEF ProvisioningPersisted, ProvisioningPersistedRefusal, CallbackRefusal,
      Accepted, IsProvisioning, Provisioned, SetupMoves, Calm
<1>7. QED
  BY <1>3, <1>4, <1>5, <1>6 DEF SetupEvent, StartCreate, StartRecovery

LEMMA AuthSteps ==
    ASSUME IInv, NEW id \in Ids, AuthEvent(id)
    PROVE  Unmoved \/ StartWipe \/ Locks \/ AttemptMoves \/ SessionOpens
<1>0. UNCHANGED wallet /\ Calm => Unmoved
  <2>1. \/ Observe({}) \/ Observe({"trusted"}) \/ Observe({"pin"})
        \/ Observe({"passphrase"})
    BY DEF AuthEvent, Witness
  <2>2. QED
    BY <2>1, RejectStep
<1>1. ~IsUnlocked => flow = Idle
  BY DEF IInv, SessionInv, FlowBoundToSession
<1> auth.tag \notin {"Unavailable", "Unlocked"} => auth.failed \in Nat
  BY RetryAssumption DEF IInv, TypeOK, AuthState, RetryCount
<1>2. ASSUME NEW h \in Hosts, UnlockRequested(id, h)
      PROVE  Unmoved \/ AttemptMoves
  BY <1>0, <1>2, RejectIsCalm
  DEF UnlockRequested, UnlockRefusal, Accepted, AttemptMoves, FailedAttempts, Calm
<1>3. ASSUME NEW t \in HostTrust, HostTrustResolved(id, t)
      PROVE  Unmoved \/ AttemptMoves
  BY <1>0, <1>1, <1>3, RejectIsCalm
  DEF HostTrustResolved, CallbackRefusal, Accepted, Attempt, AttemptMoves,
      FailedAttempts, IsUnlocked, Calm
<1>4. ASSUME PinVerified(id)
      PROVE  Unmoved \/ AttemptMoves
  BY <1>0, <1>1, <1>4, RejectIsCalm
  DEF PinVerified, PinVerifiedRefusal, CallbackRefusal, Accepted, Attempt,
      OpenSession, AttemptMoves, IsUnlocked, Calm
<1>5. ASSUME NEW n \in RetryCount, PinRejected(id, n)
      PROVE  Unmoved \/ StartWipe \/ AttemptMoves
  <2>1. CASE PinRejectedRefusal(id, n) # Accepted
    BY <1>0, <1>5, <2>1, RejectIsCalm DEF PinRejected
  <2>2. CASE PinRejectedRefusal(id, n) = Accepted /\ ~StartWipe
    <3>1. /\ auth.tag = "VerifyingPin" /\ ~(n <= auth.failed)
          /\ auth.failed \in RetryCount
      BY <2>2
      DEF PinRejectedRefusal, CallbackRefusal, Accepted, IInv, TypeOK, AuthState
    <3>2. /\ auth' = Locked(n) /\ UNCHANGED <<lifecycle, flow, policy>> /\ Calm
      BY <1>5, <2>2 DEF PinRejected, Calm
    <3>3. ~(FailedAttempts(auth') < FailedAttempts(auth))
      BY <3>1, <3>2, RetryAssumption DEF FailedAttempts, Locked, RetryCount
    <3>4. QED
      BY <1>1, <3>1, <3>2, <3>3 DEF AttemptMoves, Locked, IsUnlocked
  <2>3. QED
    BY <2>1, <2>2
<1>6. ASSUME PassphraseProvided(id) \/ PassphraseSkipped(id)
      PROVE  Unmoved \/ AttemptMoves
  <2>1. CASE OpenSession(auth.failed) /\ auth.tag = "AwaitingPassphrase"
    BY <1>1, <2>1
    DEF OpenSession, Attempt, AttemptMoves, FailedAttempts, IsUnlocked, Calm
  <2>2. CASE ~(OpenSession(auth.failed) /\ auth.tag = "AwaitingPassphrase")
    BY <1>0, <1>6, <2>2, RejectIsCalm
    DEF PassphraseProvided, PassphraseSkipped, PassphraseRefusal, SkipRefusal,
        CallbackRefusal, Accepted
  <2>3. QED
    BY <2>1, <2>2
<1>7. ASSUME NEW s \in Ids, NEW w \in Wallets, SessionOpened(id, s, w)
      PROVE  Unmoved \/ SessionOpens
  BY <1>0, <1>1, <1>7, RejectIsCalm
  DEF SessionOpened, CallbackRefusal, Accepted, SessionOpens, IsUnlocked, Calm
<1>8. ASSUME SessionExpired(id)
      PROVE  Unmoved \/ Locks
  BY <1>0, <1>8, RejectIsCalm, LockStep DEF SessionExpired
<1>9. QED
  BY <1>2, <1>3, <1>4, <1>5, <1>6, <1>7, <1>8 DEF AuthEvent

LEMMA PairingSteps ==
    ASSUME IInv, NEW id \in Ids, PairingEvent(id)
    PROVE  Unmoved \/ FlowMoves
<1>0. UNCHANGED wallet /\ Calm => Unmoved
  BY RejectStep DEF PairingEvent
<1>1. ASSUME NEW h \in Hosts, PairingRequested(id, h)
      PROVE  Unmoved \/ FlowMoves
  BY <1>0, <1>1, RejectIsCalm
  DEF PairingRequested, RequestRefusal, Accepted, Idle, FlowMoves, Calm
<1>2. CASE PairingConfirmed(id)
  BY <1>0, <1>2, RejectIsCalm
  DEF PairingConfirmed, CallbackRefusal, Accepted, IsPairing, FlowMoves, Calm
<1>3. CASE PairingRejected(id) \/ TrustedHostPersisted(id)
  BY <1>0, <1>3, RejectIsCalm
  DEF PairingRejected, TrustedHostPersisted, EndPairing, CallbackRefusal,
      Accepted, IsPairing, Idle, FlowMoves, Calm
<1>4. QED
  BY <1>1, <1>2, <1>3 DEF PairingEvent

\* Advancing keeps all of an operation but its kind and stage.
LEMMA AdvanceStep ==
    ASSUME IInv, IsOperation, NEW kind, NEW stage, NEW report,
           AdvanceOperation(kind, stage, report), NEW facts, Observe(facts),
           stage.tag \in {"Displaying", "Reviewing", "Executing"}
    PROVE  /\ Becomes(stage.tag, "key" \in seen \cup facts)
           /\ UNCHANGED <<lifecycle, auth, policy>> /\ effect' = report
<1>1. /\ flow'.tag = "Operation" /\ flow'.id = flow.id
      /\ flow'.host = flow.host /\ flow'.wallet = flow.wallet
      /\ flow'.stage = stage
  BY DEF AdvanceOperation, IInv, TypeOK, FlowState, IsOperation
<1>2. "key" \in seen' <=> "key" \in seen \cup facts
  BY <1>1 DEF Observe, Pertinent, IsOperation
<1>3. QED
  BY <1>1, <1>2 DEF Becomes, AdvanceOperation

LEMMA EndStep ==
    ASSUME IsOperation, NEW report, EndOperation(report),
           report.tag \in {"RejectOperation", "CompleteOperation",
                           "AbortOperation"}
    PROVE  OperationMoves
  BY DEF EndOperation, OperationMoves, Ended, Calm

LEMMA OperationSteps ==
    ASSUME IInv, NEW id \in Ids, OperationEvent(id)
    PROVE  Unmoved \/ OperationMoves
<1> USE AwaitedOperation, RejectIsCalm
<1>0. ASSUME NEW facts, Observe(facts), "key" \notin facts, UNCHANGED wallet, Calm
      PROVE  Unmoved
  BY <1>0, RejectStep
<1>1. ASSUME NEW h \in Hosts, OperationRequested(id, h), Observe({})
      PROVE  Unmoved \/ OperationMoves
  <2>1. CASE RequestRefusal(h) # Accepted
    BY <1>0, <1>1, <2>1 DEF OperationRequested
  <2>2. CASE RequestRefusal(h) = Accepted
    <3>1. IsUnlocked /\ auth.host = h /\ flow = Idle
      BY <2>2 DEF RequestRefusal, Accepted
    <3>2. /\ flow' = [tag |-> "Operation", id |-> id, host |-> auth.host,
                      wallet |-> auth.wallet, kind |-> "None",
                      stage |-> [tag |-> "PreparingReview"]]
          /\ UNCHANGED <<lifecycle, auth, policy>> /\ Calm
      BY <1>1, <2>2, <3>1 DEF OperationRequested, Calm
    <3>3. "key" \notin seen'
      BY <1>1, <3>2 DEF Observe, Pertinent, IsOperation
    <3>4. QED
      BY <3>1, <3>2, <3>3 DEF OperationMoves, Submitted
  <2>3. QED
    BY <2>1, <2>2
<1>2. ASSUME NEW plan \in ReviewPlan, ReviewPrepared(id, plan),
             Witness("key", /\ OperationAsks("PreparingReview", id)
                            /\ plan.uses_private_key \/ plan.kind \in KeyKind)
      PROVE  Unmoved \/ OperationMoves
  <2>1. CASE ~OperationAsks("PreparingReview", id)
    <3>1. UNCHANGED wallet /\ Calm
      BY <1>2, <2>1 DEF ReviewPrepared, RefuseOperation, OperationAsks
    <3>2. QED
      BY <1>0, <1>2, <2>1, <3>1 DEF Witness
  <2>2. CASE OperationAsks("PreparingReview", id)
    <3> DEFINE facts == IF PlanUsesKey(plan) THEN {"key"} ELSE {}
    <3>1. Observe(facts)
      BY <1>2, <2>2 DEF Witness, PlanUsesKey, UsesPrivateKey
    <3>2. IsOperation /\ flow.stage.tag = "PreparingReview" /\ "key" \notin seen
      BY <2>2 DEF IInv, FactsPertinent, Pertinent, OperationAsks
    <3>3. ~RefuseOperation(id, {"PreparingReview"})
      BY <2>2
      DEF OperationAsks, RefuseOperation, OperationRefusal, CallbackRefusal,
          Accepted
    <3>4. CASE EndOperation([tag |-> "RejectOperation", id |-> id,
                             reason |-> PolicyRefusal(plan)])
      BY <3>2, <3>4, EndStep
    <3>5. CASE /\ EnforcedPlan(plan).interaction = "Silent"
               /\ AdvanceOperation(plan.kind, [tag |-> "Executing"],
                                   [tag |-> "ExecuteOperation", id |-> id])
      <4>1. "key" \notin seen \cup facts
        BY <3>2, <3>5, EnforcedInteraction
      <4>2. /\ Becomes("Executing", FALSE) /\ UNCHANGED <<lifecycle, auth, policy>>
            /\ effect'.tag = "ExecuteOperation"
        BY <3>1, <3>2, <3>5, <4>1, AdvanceStep DEF Becomes
      <4>3. QED
        BY <3>2, <4>2 DEF OperationMoves, Executed
    <3>6. CASE AdvanceOperation(plan.kind,
                   [tag |-> "Displaying", plan |-> EnforcedPlan(plan)],
                   [tag |-> "RenderOperationReview", id |-> id])
      <4>1. /\ Becomes("Displaying", "key" \in seen \cup facts)
            /\ UNCHANGED <<lifecycle, auth, policy>> /\ Calm
        BY <3>1, <3>2, <3>6, AdvanceStep DEF Calm
      <4>2. QED
        BY <3>2, <4>1 DEF OperationMoves, Planned, Becomes
    <3>7. QED
      BY <1>2, <3>3, <3>4, <3>5, <3>6
      DEF ReviewPrepared, OperationDropped, Execute
  <2>3. QED
    BY <2>1, <2>2
<1>3. ASSUME ReviewDisplayed(id),
             Witness("shown", OperationAsks("Displaying", id))
      PROVE  Unmoved \/ OperationMoves
  <2>0. Observe({"shown"}) \/ Observe({})
    BY <1>3 DEF Witness
  <2>1. CASE UNCHANGED wallet /\ Calm
    BY <1>0, <2>0, <2>1
  <2>2. CASE ~(UNCHANGED wallet /\ Calm)
    <3>1. IsOperation /\ flow.id = id /\ flow.stage.tag = "Displaying"
      BY <1>3, <2>2 DEF ReviewDisplayed, RefuseOperation
    <3>2. CASE /\ flow.stage.plan.interaction = "Display"
               /\ AdvanceOperation(flow.kind, [tag |-> "Executing"],
                                   [tag |-> "ExecuteOperation", id |-> id])
      <4>1. "key" \notin seen
        BY <3>1, <3>2 DEF IInv, FlowInv, ReviewInOrder
      <4>2. /\ Becomes("Executing", FALSE) /\ UNCHANGED <<lifecycle, auth, policy>>
            /\ effect'.tag = "ExecuteOperation"
        BY <2>0, <3>1, <3>2, <4>1, AdvanceStep DEF Becomes
      <4>3. QED
        BY <3>1, <4>1, <4>2 DEF OperationMoves, Executed
    <3>3. CASE AdvanceOperation(flow.kind,
                   [tag |-> "Reviewing", plan |-> flow.stage.plan], NoEffect)
      <4>1. /\ Becomes("Reviewing", "key" \in seen)
            /\ UNCHANGED <<lifecycle, auth, policy>> /\ Calm
        BY <2>0, <3>1, <3>3, AdvanceStep DEF Becomes, Calm, NoEffect
      <4>2. QED
        BY <3>1, <4>1 DEF OperationMoves, Presented
    <3>4. QED
      BY <1>3, <2>2, <3>2, <3>3 DEF ReviewDisplayed, RefuseOperation, Execute
  <2>3. QED
    BY <2>1, <2>2
<1>4. ASSUME OperationConfirmed(id),
             Witness("confirmed", OperationAsks("Reviewing", id))
      PROVE  Unmoved \/ OperationMoves
  <2>0. Observe({"confirmed"}) \/ Observe({})
    BY <1>4 DEF Witness
  <2>1. CASE UNCHANGED wallet /\ Calm
    BY <1>0, <2>0, <2>1
  <2>2. CASE ~(UNCHANGED wallet /\ Calm)
    <3>1. IsOperation /\ flow.id = id /\ flow.stage.tag = "Reviewing"
      BY <1>4, <2>2 DEF OperationConfirmed, RefuseOperation
    <3>2. CASE EndOperation([tag |-> "RejectOperation", id |-> id,
                             reason |-> SessionRefusal])
      BY <3>1, <3>2, EndStep
    <3>3. CASE AdvanceOperation(flow.kind, [tag |-> "Executing"],
                                [tag |-> "ExecuteOperation", id |-> id])
      <4>1. /\ Becomes("Executing", "key" \in seen)
            /\ UNCHANGED <<lifecycle, auth, policy>>
            /\ effect'.tag = "ExecuteOperation"
        BY <2>0, <3>1, <3>3, AdvanceStep DEF Becomes
      <4>2. QED
        BY <3>1, <4>1 DEF OperationMoves, Executed
    <3>4. QED
      BY <1>4, <2>2, <3>2, <3>3
      DEF OperationConfirmed, RefuseOperation, OperationDropped, Execute
  <2>3. QED
    BY <2>1, <2>2
<1>5. ASSUME \/ OperationRejected(id) \/ OperationCompleted(id)
             \/ OperationFailed(id) \/ OperationCancelled(id),
             Observe({})
      PROVE  Unmoved \/ OperationMoves
  <2>1. CASE UNCHANGED wallet /\ Calm
    BY <1>0, <1>5, <2>1
  <2>2. CASE ~(UNCHANGED wallet /\ Calm)
    BY <1>5, <2>2, EndStep
    DEF OperationRejected, OperationCompleted, OperationFailed,
        OperationFinished, OperationCancelled, RefuseOperation,
        OperationRefusal, CallbackRefusal, Accepted, OperationDropped
  <2>3. QED
    BY <2>1, <2>2
<1>6. QED
  BY <1>1, <1>2, <1>3, <1>4, <1>5 DEF OperationEvent

LEMMA SettingsSteps ==
    ASSUME IInv, NEW id \in Ids, SettingsEvent(id)
    PROVE  Unmoved \/ FlowMoves \/ SettingApplies
<1>0. UNCHANGED wallet /\ Calm => Unmoved
  <2>1. Observe({}) \/ Observe({"approved"})
    BY DEF SettingsEvent, Witness
  <2>2. QED
    BY <2>1, RejectStep
<1>1. ASSUME NEW h \in Hosts, NEW c \in Changes, SettingChangeRequested(id, h, c)
      PROVE  Unmoved \/ FlowMoves
  BY <1>0, <1>1, RejectIsCalm
  DEF SettingChangeRequested, RequestRefusal, Accepted, Idle, FlowMoves, Calm
<1>2. ASSUME SettingChangeConfirmed(id)
      PROVE  Unmoved \/ FlowMoves
  <2>1. CASE ConfirmRefusal(id) # Accepted
    BY <1>0, <1>2, <2>1, RejectIsCalm DEF SettingChangeConfirmed
  <2>2. CASE ConfirmRefusal(id) = Accepted
    <3>1. flow.tag = "Settings"
      BY <2>2 DEF ConfirmRefusal, SettingsRefusal, CallbackRefusal, Accepted
    <3>2. flow'.tag = "Settings"
      BY <1>2, <2>2, <3>1 DEF SettingChangeConfirmed, IInv, TypeOK, FlowState
    <3>3. QED
      BY <1>2, <2>2, <3>1, <3>2 DEF SettingChangeConfirmed, FlowMoves, Calm
  <2>3. QED
    BY <2>1, <2>2
<1>3. ASSUME SettingChangeRejected(id)
      PROVE  Unmoved \/ FlowMoves
  BY <1>0, <1>3, RejectIsCalm
  DEF SettingChangeRejected, SettingsRefusal, CallbackRefusal, Accepted, Idle,
      FlowMoves, Calm
<1>4. ASSUME SettingChangePersisted(id)
      PROVE  Unmoved \/ SettingApplies
  BY <1>0, <1>4, RejectIsCalm
  DEF SettingChangePersisted, SettingsRefusal, CallbackRefusal, Accepted,
      Rejection, SettingApplies, Calm
<1>5. QED
  BY <1>1, <1>2, <1>3, <1>4 DEF SettingsEvent

LEMMA MaintenanceSteps ==
    ASSUME IInv, NEW id \in Ids, MaintenanceEvent(id)
    PROVE  Unmoved \/ FlowMoves \/ BackupChecked \/ StartWipe
<1>0. UNCHANGED wallet /\ Calm => Unmoved
  <2>1. Observe({}) \/ Observe({"backup"})
    BY DEF MaintenanceEvent, Witness
  <2>2. QED
    BY <2>1, RejectStep
<1>1. ASSUME NEW h \in Hosts,
             \/ ChangePinRequested(id, h)
             \/ BackupCheckRequested(id, h)
             \/ FactoryResetRequested(id, h)
      PROVE  Unmoved \/ FlowMoves
  BY <1>0, <1>1, RejectIsCalm
  DEF ChangePinRequested, BackupCheckRequested, FactoryResetRequested,
      MaintenanceRequested, RequestRefusal, Accepted, Idle, FlowMoves, Calm
<1>2. ASSUME PinChanged(id) \/ FactoryResetRejected(id)
      PROVE  Unmoved \/ FlowMoves
  BY <1>0, <1>2, RejectIsCalm
  DEF PinChanged, PinChangedRefusal, FactoryResetRejected, FactoryResetRefusal,
      CallbackRefusal, Accepted, IsMaintenance, Idle, FlowMoves, Calm
<1>3. ASSUME FactoryResetConfirmed(id)
      PROVE  Unmoved \/ StartWipe
  BY <1>0, <1>3, RejectIsCalm DEF FactoryResetConfirmed
<1>4. ASSUME NEW valid \in BOOLEAN, BackupCheckCompleted(id, valid)
      PROVE  Unmoved \/ FlowMoves \/ BackupChecked
  <2>1. CASE BackupCheckRefusal(id) # Accepted
    BY <1>0, <1>4, <2>1, RejectIsCalm DEF BackupCheckCompleted
  <2>2. CASE BackupCheckRefusal(id) = Accepted
    <3>1. IsMaintenance
      BY <2>2 DEF BackupCheckRefusal, CallbackRefusal, Accepted
    <3>2. flow' = Idle /\ UNCHANGED <<auth, policy>> /\ Calm
      BY <1>4, <2>2 DEF BackupCheckCompleted, Rejection, Calm
    <3>3. CASE valid /\ IsProvisioned
      BY <1>4, <2>2, <3>1, <3>2, <3>3 DEF BackupCheckCompleted, BackupChecked
    <3>4. CASE ~(valid /\ IsProvisioned)
      BY <1>4, <2>2, <3>1, <3>2, <3>4
      DEF BackupCheckCompleted, FlowMoves, IsMaintenance, Idle
    <3>5. QED
      BY <3>3, <3>4
  <2>3. QED
    BY <2>1, <2>2
<1>5. QED
  BY <1>1, <1>2, <1>3, <1>4 DEF MaintenanceEvent

LEMMA DeviceSteps ==
    ASSUME IInv, DeviceEvent
    PROVE  Unmoved \/ Locks \/ StartWipe \/ WipeEnds \/ SetupAborts
<1>0. UNCHANGED wallet /\ Calm => Unmoved
  BY RejectStep DEF DeviceEvent
<1>1. CASE LockRequested
  BY <1>1, LockStep DEF LockRequested
<1>2. ASSUME NEW h \in Hosts, HostDisconnected(h)
      PROVE  Unmoved \/ Locks
  BY <1>0, <1>2, LockStep DEF HostDisconnected, NoEffect, Calm
<1>3. CASE WipeCompleted
  BY <1>0, <1>3, RejectIsCalm DEF WipeCompleted, WipeEnds
<1>4. CASE RuntimeFailure
  BY <1>0, <1>4, LockStep
  DEF RuntimeFailure, SetupAborts, IsProvisioning, NoEffect, Calm
<1>5. CASE TamperDetected
  BY <1>0, <1>5 DEF TamperDetected, NoEffect, Calm
<1>6. QED
  BY <1>1, <1>2, <1>3, <1>4, <1>5 DEF DeviceEvent

LEMMA NextIsAStep ==
    ASSUME IInv, Next
    PROVE  Step
  BY SetupSteps, AuthSteps, PairingSteps, OperationSteps, SettingsSteps,
     MaintenanceSteps, DeviceSteps
  DEF Next, Step

-----------------------------------------------------------------------------
(* The action properties *)

LEMMA ClearedInductive == Spec => []RetriesCleared
<1>1. Init => RetriesCleared
  BY DEF Init, NewWallet, Unavailable, RetriesCleared
<1>2. IInv /\ RetriesCleared /\ [Next]_vars => RetriesCleared'
  <2> SUFFICES ASSUME IInv, RetriesCleared, [Next]_vars PROVE RetriesCleared'
    OBVIOUS
  <2>1. CASE UNCHANGED auth
    BY <2>1 DEF RetriesCleared
  <2>2. CASE Step
    <3>1. CASE LockWallet \/ StartWipe \/ ResetToEmpty \/ Restart \/ SetupMoves
      BY <3>1
      DEF RetriesCleared, LockWallet, StartWipe, ResetToEmpty, Restart,
          SetupMoves, Locked, Unavailable
    <3>2. CASE AttemptMoves \/ SessionOpens
      BY <3>2 DEF RetriesCleared, AttemptMoves, SessionOpens
    <3>3. CASE SettingApplies
      BY <3>3
      DEF RetriesCleared, SettingApplies, ApplyChange, Downgrades, IsUnlocked,
          IInv, TypeOK, AuthState
    <3>4. QED
      BY <2>1, <2>2, <3>1, <3>2, <3>3
      DEF Step, Unmoved, wallet, SetupAborts, WipeEnds, Locks, FlowMoves,
          BackupChecked, OperationMoves
  <2>3. QED
    BY <2>1, <2>2, NextIsAStep DEF vars
<1>3. QED
  BY <1>1, <1>2, Inductive, PTL DEF Spec

\* Locking, disconnecting, failing and starting over never lower the count of
\* failed PIN entries: only a verified PIN, a wipe and a restart do.
THEOREM RetriesAreKept == Spec => RetriesNeverForgotten
<1>1. ASSUME IInv, RetriesCleared, [Next]_vars,
             FailedAttempts(auth') < FailedAttempts(auth)
      PROVE  \/ auth'.tag \in {"AwaitingPassphrase", "OpeningSession"}
             \/ lifecycle' = Wiping
             \/ Restart
  <2>0. FailedAttempts(auth) \in Nat
    BY <1>1, RetryAssumption
    DEF IInv, TypeOK, AuthState, RetryCount, FailedAttempts
  <2>1. CASE UNCHANGED auth
    BY <1>1, <2>0, <2>1
  <2>2. CASE Step
    <3>1. CASE SetupMoves \/ SetupAborts \/ WipeEnds
      <4>1. auth = Unavailable
        BY <1>1, <3>1, NoSessionYet
        DEF SetupMoves, SetupAborts, WipeEnds, IsProvisioning, IsProvisioned,
            Wiping
      <4>2. FailedAttempts(auth) = 0 /\ FailedAttempts(auth') = 0
        BY <3>1, <4>1
        DEF SetupMoves, SetupAborts, WipeEnds, ResetToEmpty, Unavailable,
            Locked, FailedAttempts
      <4>3. QED
        BY <1>1, <4>2
    <3>2. CASE Locks
      <4>1. FailedAttempts(auth') = FailedAttempts(auth)
        BY <3>2 DEF Locks, LockWallet, Locked, FailedAttempts
      <4>2. QED
        BY <1>1, <2>0, <4>1
    <3>3. CASE SessionOpens
      <4>1. FailedAttempts(auth) = 0 /\ FailedAttempts(auth') = 0
        BY <1>1, <3>3 DEF SessionOpens, RetriesCleared, FailedAttempts
      <4>2. QED
        BY <1>1, <4>1
    <3>4. CASE SettingApplies
      <4>1. IsUnlocked
        BY <1>1, <3>4
        DEF SettingApplies, IInv, SessionInv, FlowBoundToSession, Idle
      <4>2. FailedAttempts(auth) = 0
        BY <4>1 DEF IsUnlocked, FailedAttempts
      <4>3. FailedAttempts(auth') = 0
        BY <1>1, <3>4, <4>1
        DEF SettingApplies, ApplyChange, IsUnlocked, FailedAttempts, IInv,
            TypeOK, AuthState
      <4>4. QED
        BY <1>1, <4>2, <4>3
    <3>5. QED
      BY <1>1, <2>1, <2>2, <3>1, <3>2, <3>3, <3>4
      DEF Step, Unmoved, wallet, AttemptMoves, StartWipe, FlowMoves,
          BackupChecked, OperationMoves
  <2>3. QED
    BY <1>1, <2>1, <2>2, NextIsAStep DEF vars
<1>2. QED
  BY <1>1, Inductive, ClearedInductive, PTL DEF Spec, RetriesNeverForgotten

\* The policy and the passphrase mode change only by the approved change of
\* the settings flow, in the session that asked for it.
THEOREM SettingsAreApproved == Spec => SettingsNeedApproval
<1>1. ASSUME IInv, [Next]_vars,
             policy' # policy
               \/ (IsProvisioned /\ lifecycle'.tag = "Provisioned"
                     /\ lifecycle'.metadata.passphrase
                            # lifecycle.metadata.passphrase)
      PROVE  /\ flow.tag = "Settings" /\ flow.stage = "Persisting"
             /\ "approved" \in seen
             /\ IsUnlocked /\ auth'.host = auth.host
  <2>1. CASE UNCHANGED <<lifecycle, policy>>
    BY <1>1, <2>1
  <2>2. CASE Step
    <3>1. CASE SettingApplies
      <4>1. IsUnlocked /\ "approved" \in seen
        BY <1>1, <3>1
        DEF SettingApplies, IInv, SessionInv, FlowBoundToSession, Idle,
            FlowInv, ApprovalInOrder
      <4>2. auth'.host = auth.host
        BY <1>1, <3>1, <4>1
        DEF SettingApplies, ApplyChange, IsUnlocked, IInv, TypeOK, AuthState
      <4>3. QED
        BY <3>1, <4>1, <4>2 DEF SettingApplies
    <3>2. CASE BackupChecked
      <4>1. lifecycle'.metadata.passphrase = lifecycle.metadata.passphrase
        BY <1>1, <3>2
        DEF BackupChecked, IsProvisioned, IInv, TypeOK, Lifecycle, WalletMetadata
      <4>2. QED
        BY <1>1, <3>2, <4>1 DEF BackupChecked
    <3>3. QED
      BY <1>1, <2>1, <2>2, <3>1, <3>2
      DEF Step, Unmoved, wallet, SetupMoves, SetupAborts, StartWipe, WipeEnds,
          ResetToEmpty, Locks, LockWallet, AttemptMoves, SessionOpens,
          FlowMoves, OperationMoves, Restart, IsProvisioned, Empty, Wiping
  <2>3. QED
    BY <1>1, <2>1, <2>2, NextIsAStep DEF vars
<1>2. QED
  BY <1>1, Inductive, PTL DEF Spec, SettingsNeedApproval

\* An operation reaches the chain runtime at most once.
THEOREM OperationsRunOnce == Spec => ExecutedOnce
<1>1. ASSUME IInv, Next
      PROVE  /\ effect'.tag = "ExecuteOperation" =>
                   /\ IsOperation /\ flow.stage.tag # "Executing"
                   /\ flow'.id = flow.id /\ flow'.stage.tag = "Executing"
             /\ IsOperation /\ flow.stage.tag = "Executing" =>
                   flow' \in {flow, Idle}
  <2>1. Step
    BY <1>1, NextIsAStep
  <2>2. CASE OperationMoves
    BY <2>2
    DEF OperationMoves, Submitted, Planned, Presented, Executed, Ended,
        Becomes, Calm, IsOperation, Idle
  <2>3. CASE ~OperationMoves
    BY <2>1, <2>3
    DEF Step, Unmoved, wallet, SetupMoves, SetupAborts, StartWipe, WipeEnds,
        ResetToEmpty, Locks, LockWallet, AttemptMoves, SessionOpens, FlowMoves,
        SettingApplies, BackupChecked, Restart, NoEffect, Calm, IsOperation, Idle
  <2>4. QED
    BY <2>2, <2>3
<1>2. QED
  BY <1>1, Inductive, PTL DEF Spec, ExecutedOnce

\* A wipe begins with the effect that erases and ends only on the storage's
\* report, in an empty wallet: no failure, restart or late event ends it.
THEOREM WipesRunToTheEnd == Spec => WipeIsFinal
<1>1. ASSUME IInv, Next
      PROVE  /\ lifecycle = Wiping /\ lifecycle' # Wiping =>
                   lifecycle' = Empty /\ effect' = [tag |-> "WalletWiped"]
             /\ lifecycle' = Wiping /\ lifecycle # Wiping =>
                   effect' = [tag |-> "WipeWallet"]
  <2>1. Step
    BY <1>1, NextIsAStep
  <2>2. CASE UNCHANGED lifecycle
    BY <2>2
  <2>3. CASE SettingApplies
    <3>1. lifecycle'.tag = lifecycle.tag
      BY <1>1, <2>3
      DEF SettingApplies, ApplyChange, IsProvisioned, IInv, TypeOK, Lifecycle
    <3>2. IsProvisioned
      BY <1>1, <2>3
      DEF SettingApplies, IInv, SessionInv, FlowBoundToSession, Idle, IsUnlocked
    <3>3. QED
      BY <3>1, <3>2 DEF IsProvisioned, Wiping
  <2>4. CASE BackupChecked
    BY <1>1, <2>4
    DEF BackupChecked, IsProvisioned, IInv, TypeOK, Lifecycle, Wiping
  <2>5. QED
    BY <2>1, <2>2, <2>3, <2>4
    DEF Step, Unmoved, wallet, SetupMoves, SetupAborts, StartWipe, WipeEnds,
        ResetToEmpty, Locks, LockWallet, AttemptMoves, SessionOpens, FlowMoves,
        OperationMoves, Restart, IsProvisioning, Wiping, Empty
<1>2. QED
  BY <1>1, Inductive, PTL DEF Spec, WipeIsFinal

-----------------------------------------------------------------------------
(* The refinement *)

\* The mapping, by cases.
LEMMA MapClosed ==
    /\ ~IsUnlocked => GateSession = Gate!Closed
    /\ ~IsOperation => GateJob = Gate!NoJob
    /\ ~IsUnlocked' => GateSession' = Gate!Closed
    /\ ~IsOperation' => GateJob' = Gate!NoJob
  BY DEF GateSession, GateJob, Gate!Closed, Gate!NoJob

LEMMA MapPhases ==
    /\ Phase["PreparingReview"] = "Submitted"
    /\ Phase["Displaying"] = "Planned"
    /\ Phase["Reviewing"] = "Presented"
    /\ Phase["Executing"] = "Running"
  BY DEF Phase

\* Whether the pending operation uses a key is the same for both.
LEMMA MapKey ==
    ASSUME IsOperation
    PROVE  \/ "key" \in seen /\ GateJob.key = TRUE
           \/ "key" \notin seen /\ GateJob.key = FALSE
<1>1. GateJob.key = ("key" \in seen)
  BY DEF GateJob
<1>2. CASE "key" \in seen
  <2>1. ("key" \in seen) = TRUE
    BY <1>2
  <2>2. QED
    BY <1>1, <1>2, <2>1, Zenon
<1>3. CASE "key" \notin seen
  <2>1. ("key" \in seen) = FALSE
    BY <1>3
  <2>2. QED
    BY <1>1, <1>3, <2>1, Zenon
<1>4. QED
  BY <1>2, <1>3

\* An operation that takes up a stage is a job that takes up its phase.
LEMMA MapBecomes ==
    ASSUME NEW tag, NEW key \in BOOLEAN, Becomes(tag, key), UNCHANGED auth
    PROVE  Gate!Become(Phase[tag], key)
<1>1. GateSession' = GateSession
  BY DEF GateSession, IsUnlocked
<1>2. GateJob = [tag |-> Phase[flow.stage.tag], host |-> flow.host,
                 wallet |-> flow.wallet, key |-> "key" \in seen]
  BY DEF Becomes, GateJob
<1>3. GateJob' = [tag |-> Phase[tag], host |-> flow.host,
                  wallet |-> flow.wallet, key |-> key]
  BY DEF Becomes, GateJob, IsOperation
<1>4. GateJob.host = flow.host /\ GateJob.wallet = flow.wallet
  BY <1>2
<1>5. QED
  BY <1>1, <1>3, <1>4, Zenon DEF Gate!Become

LEMMA GateSteps ==
    ASSUME IInv, Step
    PROVE  [Gate!Next]_(Gate!gateVars)
<1> USE MapClosed
<1>0. ASSUME GateSession' = GateSession, GateJob' = GateJob
      PROVE  UNCHANGED Gate!gateVars
  BY <1>0 DEF Gate!gateVars
<1>1. CASE Unmoved
  BY <1>0, <1>1
  DEF Unmoved, wallet, GateSession, GateJob, IsUnlocked, IsOperation
<1>2. CASE SetupMoves
  BY <1>0, <1>2
  DEF SetupMoves, Unavailable, Locked, Idle, IsUnlocked, IsOperation
<1>3. CASE SetupAborts \/ StartWipe \/ WipeEnds \/ Locks \/ Restart
  <2>1. ~IsUnlocked' /\ ~IsOperation'
    BY <1>3
    DEF SetupAborts, StartWipe, WipeEnds, ResetToEmpty, Locks, LockWallet,
        Restart, Unavailable, Locked, Idle, IsUnlocked, IsOperation
  <2>2. QED
    BY <2>1 DEF Gate!Next, Gate!CloseSession
<1>4. CASE AttemptMoves
  BY <1>0, <1>4 DEF AttemptMoves, Idle, IsUnlocked, IsOperation
<1>5. CASE SessionOpens
  <2>1. ~IsUnlocked /\ ~IsOperation /\ IsUnlocked' /\ ~IsOperation'
    BY <1>5 DEF SessionOpens, Idle, IsUnlocked, IsOperation
  <2>2. PICK w \in Wallets :
           GateSession' = [tag |-> "Open", host |-> auth.host, wallet |-> w,
                           trust |-> auth.trust]
    BY <1>5, <2>1 DEF SessionOpens, GateSession
  <2>3. auth.host \in Hosts /\ auth.trust \in Gate!Trusts
    BY <1>5 DEF SessionOpens, IInv, TypeOK, AuthState, HostTrust, Gate!Trusts
  <2>4. Gate!OpenSession(auth.host, w, auth.trust)
    BY <2>1, <2>2 DEF Gate!OpenSession
  <2>5. QED
    BY <2>3, <2>4 DEF Gate!Next
<1>6. CASE FlowMoves
  BY <1>0, <1>6 DEF FlowMoves, GateSession, IsUnlocked, IsOperation
<1>7. CASE SettingApplies
  <2>1. ~IsOperation /\ ~IsOperation'
    BY <1>7 DEF SettingApplies, IsOperation, Idle
  <2>2. IsUnlocked
    BY <1>7 DEF SettingApplies, IInv, SessionInv, FlowBoundToSession, Idle
  <2>3. CASE Downgrades(flow.change)
    <3>1. auth' = [auth EXCEPT !.trust = "Untrusted"]
      BY <1>7, <2>3 DEF SettingApplies, ApplyChange
    <3>2. /\ GateSession = [tag |-> "Open", host |-> auth.host,
                            wallet |-> auth.wallet, trust |-> auth.trust]
          /\ GateSession' = [tag |-> "Open", host |-> auth.host,
                             wallet |-> auth.wallet, trust |-> "Untrusted"]
      BY <2>2, <3>1 DEF GateSession, IsUnlocked, IInv, TypeOK, AuthState
    <3>3. Gate!Downgrade
      BY <2>1, <3>2 DEF Gate!Downgrade, Gate!Closed
    <3>4. QED
      BY <3>3 DEF Gate!Next
  <2>4. CASE ~Downgrades(flow.change)
    BY <1>0, <1>7, <2>1, <2>4
    DEF SettingApplies, ApplyChange, GateSession, IsUnlocked
  <2>5. QED
    BY <2>3, <2>4
<1>8. CASE BackupChecked
  BY <1>0, <1>8
  DEF BackupChecked, IsMaintenance, Idle, GateSession, IsUnlocked, IsOperation
<1>9. CASE OperationMoves
  <2>1. UNCHANGED auth /\ GateSession' = GateSession
    BY <1>9 DEF OperationMoves, GateSession, IsUnlocked
  <2>2. CASE Submitted
    <3>1. /\ GateSession = [tag |-> "Open", host |-> auth.host,
                            wallet |-> auth.wallet, trust |-> auth.trust]
          /\ ~IsOperation
      BY <2>2 DEF Submitted, GateSession, IsOperation, Idle
    <3>2. GateJob' = [tag |-> "Submitted", host |-> auth.host,
                      wallet |-> auth.wallet, key |-> FALSE]
      <4>1. ("key" \in seen') = FALSE
        BY <2>2 DEF Submitted
      <4>2. GateJob' = [tag |-> "Submitted", host |-> auth.host,
                        wallet |-> auth.wallet, key |-> "key" \in seen']
        BY <2>2, MapPhases DEF Submitted, GateJob, IsOperation
      <4>3. QED
        BY <4>1, <4>2, Zenon
    <3>3. Gate!Submit
      BY <2>1, <3>1, <3>2 DEF Gate!Submit, Gate!Closed
    <3>4. QED
      BY <3>3 DEF Gate!Next
  <2>3. CASE Planned
    <3>1. PICK key \in BOOLEAN : Becomes("Displaying", key)
      BY <2>3 DEF Planned
    <3>2. GateJob.tag = "Submitted"
      BY <2>3, <3>1, MapPhases DEF Planned, Becomes, GateJob
    <3>3. Gate!Plan
      BY <2>1, <3>1, <3>2, MapBecomes, MapPhases DEF Gate!Plan
    <3>4. QED
      BY <3>3 DEF Gate!Next
  <2>4. CASE Presented
    <3>1. GateJob.tag = "Planned"
      BY <2>4, MapPhases DEF Presented, Becomes, GateJob
    <3>2. PICK key \in BOOLEAN : Becomes("Reviewing", key) /\ GateJob.key = key
      BY <2>4, MapKey DEF Presented, Becomes
    <3>3. Gate!Become("Presented", key)
      BY <2>1, <3>2, MapBecomes, MapPhases
    <3>4. Gate!Present
      BY <3>1, <3>2, <3>3, Zenon DEF Gate!Present
    <3>5. QED
      BY <3>4 DEF Gate!Next
  <2>5. CASE Executed
    <3>1. CASE flow.stage.tag = "PreparingReview" /\ Becomes("Executing", FALSE)
      <4>1. GateJob.tag = "Submitted"
        BY <3>1, MapPhases DEF Becomes, GateJob
      <4>2. Gate!RunSilently
        BY <2>1, <3>1, <4>1, MapBecomes, MapPhases DEF Gate!RunSilently
      <4>3. QED
        BY <4>2 DEF Gate!Next
    <3>2. CASE /\ flow.stage.tag = "Displaying" /\ "key" \notin seen
               /\ Becomes("Executing", FALSE)
      <4>1. GateJob.tag = "Planned" /\ ~GateJob.key
        BY <3>2, MapPhases DEF Becomes, GateJob
      <4>2. Gate!RunShown
        BY <2>1, <3>2, <4>1, MapBecomes, MapPhases DEF Gate!RunShown
      <4>3. QED
        BY <4>2 DEF Gate!Next
    <3>3. CASE /\ flow.stage.tag = "Reviewing"
               /\ Becomes("Executing", "key" \in seen)
      <4>1. GateJob.tag = "Presented"
        BY <3>3, MapPhases DEF Becomes, GateJob
      <4>2. PICK key \in BOOLEAN : Becomes("Executing", key) /\ GateJob.key = key
        BY <3>3, MapKey DEF Becomes
      <4>3. Gate!Become("Running", key)
        BY <2>1, <4>2, MapBecomes, MapPhases
      <4>4. Gate!Consent
        BY <4>1, <4>2, <4>3, Zenon DEF Gate!Consent
      <4>5. QED
        BY <4>4 DEF Gate!Next
    <3>4. QED
      BY <2>5, <3>1, <3>2, <3>3 DEF Executed
  <2>6. CASE Ended
    BY <2>1, <2>6 DEF Ended, Idle, IsOperation, Gate!EndJob, Gate!Next
  <2>7. QED
    BY <1>9, <2>2, <2>3, <2>4, <2>5, <2>6 DEF OperationMoves
<1>10. QED
  BY <1>1, <1>2, <1>3, <1>4, <1>5, <1>6, <1>7, <1>8, <1>9 DEF Step

\* The reducer implements SigningGate: what a host and the user see of it,
\* whatever events arrive, is one session at a time and jobs that run only as
\* far as that specification lets them.
THEOREM GateIsImplemented == Spec => ImplementsGate
<1>1. Init => Gate!Init
  BY MapClosed
  DEF Init, NewWallet, Unavailable, Idle, IsUnlocked, IsOperation, Gate!Init
<1>2. IInv /\ [Next]_vars => [Gate!Next]_(Gate!gateVars)
  <2> SUFFICES ASSUME IInv, [Next]_vars PROVE [Gate!Next]_(Gate!gateVars)
    OBVIOUS
  <2>1. CASE Next
    BY <2>1, NextIsAStep, GateSteps
  <2>2. CASE UNCHANGED vars
    BY <2>2
    DEF vars, GateSession, GateJob, IsUnlocked, IsOperation, Gate!gateVars
  <2>3. QED
    BY <2>1, <2>2
<1>3. QED
  BY <1>1, <1>2, Inductive, PTL DEF Spec, ImplementsGate, Gate!Spec
=============================================================================
