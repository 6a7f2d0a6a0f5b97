--------------------------- MODULE DurableDevice ---------------------------
(***************************************************************************)
(* The reducer with the storage it asks but does not own: the retry        *)
(* counter of the PIN backend, the trusted hosts and the security policy   *)
(* (docs/SECURITY.md, wallet-core/src/event.rs).  Each backend writes      *)
(* before it answers, and a lock, a disconnect, a failure or a power loss  *)
(* may come between the write and the event that reports it.               *)
(***************************************************************************)
EXTENDS DeviceRuntime

\* What survives a power loss: the wallet's metadata and policy, the failed
\* PIN attempts and the trusted hosts.
VARIABLE disk

vars == <<lifecycle, auth, flow, policy, effect, jobs, answers, disk>>

\* The device boots with a provisioned wallet.
Generated(mode) == Provisioned([origin |-> "Generated", backup |-> "Verified",
                                passphrase |-> mode])
Init ==
    /\ disk \in [wallet: {Generated(m) : m \in Modes}, policy: Policies,
                 failed: {0}, trusted: SUBSET Hosts]
    /\ lifecycle = disk.wallet
    /\ auth = Locked(0)
    /\ flow = Idle
    /\ policy = disk.policy
    /\ effect = NoEffect
    /\ jobs = <<>> /\ answers = <<>>

-----------------------------------------------------------------------------
(* Events of the host, the user and the board *)

Request(id, host) ==
    /\ Fresh(id)
    /\ \/ UnlockRequested(id, host)
       \/ PairingRequested(id, host)
       \/ \E c \in Changes : SettingChangeRequested(id, host, c)
       \/ ChangePinRequested(id, host)
    /\ effect'.tag # "Reject"
    /\ Input
    /\ UNCHANGED disk

Decision ==
    /\ \/ /\ auth.tag = "AwaitingPassphrase"
          /\ PassphraseProvided(auth.id) \/ PassphraseSkipped(auth.id)
       \/ IsPairing /\ (PairingConfirmed(flow.id) \/ PairingRejected(flow.id))
       \/ /\ flow.tag = "Settings"
          /\ SettingChangeConfirmed(flow.id) \/ SettingChangeRejected(flow.id)
    /\ effect'.tag # "Reject"
    /\ Input
    /\ UNCHANGED disk

Disturbance ==
    /\ \/ LockRequested
       \/ \E h \in Hosts : HostDisconnected(h)
       \/ RuntimeFailure
       \/ TamperDetected
    /\ Input
    /\ UNCHANGED disk

-----------------------------------------------------------------------------
(* The backends: write, then answer *)

ResolveTrust ==
    /\ Doing("ResolveHostTrust")
    /\ Answer([tag |-> "HostTrustResolved", id |-> Head(jobs).id,
               trust |-> IF Head(jobs).host \in disk.trusted
                         THEN "Trusted" ELSE "Untrusted"])
    /\ UNCHANGED disk

\* "durably reset its retry counter before emitting this event"
RightPin ==
    /\ Doing("VerifyPin")
    /\ disk' = [disk EXCEPT !.failed = 0]
    /\ AnswerAs("PinVerified")
\* "already durably recorded the total failed-attempt count"
WrongPin ==
    /\ Doing("VerifyPin")
    /\ disk.failed < MaxRetryCount
    /\ disk' = [disk EXCEPT !.failed = @ + 1]
    /\ Answer([tag |-> "PinRejected", id |-> Head(jobs).id,
               failed_attempts |-> disk.failed + 1])

StartSession ==
    /\ Doing("OpenSession")
    /\ \E w \in Wallets :
          Answer([tag |-> "SessionOpened", id |-> Head(jobs).id, wallet |-> w])
    /\ UNCHANGED disk

SaveHost ==
    /\ Doing("PersistTrustedHost")
    /\ disk' = [disk EXCEPT !.trusted = @ \cup {Head(jobs).host}]
    /\ AnswerAs("TrustedHostPersisted")

Saved(change) ==
    [disk EXCEPT
        !.policy = IF change.tag = "Security"
                   THEN ApplySetting(@, change.setting) ELSE @,
        !.wallet = IF change.tag = "Passphrase" /\ @ # Empty
                   THEN [@ EXCEPT !.metadata.passphrase = change.mode] ELSE @,
        !.trusted = IF change.tag = "RevokeAllHosts" THEN {}
                    ELSE IF change.tag = "RevokeHost" THEN @ \ {change.host}
                    ELSE @]
SaveSetting ==
    /\ Doing("PersistSettingChange")
    /\ \/ disk' = Saved(Head(jobs).change) /\ AnswerAs("SettingChangePersisted")
       \/ UNCHANGED disk /\ Answer(Failure)

SavePin == Doing("ChangePin") /\ AnswerAs("PinChanged") /\ UNCHANGED disk

Erase ==
    /\ Doing("WipeWallet")
    /\ disk' = [disk EXCEPT !.wallet = Empty, !.failed = 0, !.trusted = {}]
    /\ Answer([tag |-> "WipeCompleted"])

Clear == Doing("ClearSensitiveState") /\ Done /\ UNCHANGED disk

Perform == \/ ResolveTrust \/ RightPin \/ WrongPin \/ StartSession
           \/ SaveHost \/ SaveSetting \/ SavePin \/ Erase \/ Clear

Receive(i) == Deliver(i) /\ UNCHANGED disk

PowerLoss == Boot(disk.wallet, disk.policy) /\ UNCHANGED disk

Next ==
    \/ \E id \in Ids, h \in Hosts : Request(id, h)
    \/ Decision
    \/ Disturbance
    \/ Perform
    \/ \E i \in DOMAIN answers : Receive(i)
    \/ PowerLoss

Spec == Init /\ [][Next]_vars

\* A runtime that goes on, and delivers every answer at last.
FairSpec ==
    /\ Spec
    /\ WF_vars(Perform)
    /\ WF_vars(Receive(1))

-----------------------------------------------------------------------------
(* Properties *)

\* No field of the policy and no passphrase mode takes a new value before
\* storage has it: settings.rs applies a change only on SettingChangePersisted
\* of that very change, so after a power loss the device never falls back to a
\* weaker rule than the one it was showing.
AppliedAfterPersisted ==
    [][/\ \A f \in DOMAIN policy :
             policy'[f] # policy[f] => policy'[f] = disk.policy[f]
       /\ lifecycle' # lifecycle /\ lifecycle'.tag = "Provisioned" =>
             lifecycle' = disk.wallet]_vars

\* A session works as trusted only while storage holds its host, but for the
\* moment in which the revocation it asked for is on its way back: SessionOpened
\* copies the trust resolved at the start of the unlock, and only
\* SettingChangePersisted lowers it.
TrustIsBacked ==
    IsUnlocked /\ auth.trust = "Trusted" =>
        \/ auth.host \in disk.trusted
        \/ flow.tag = "Settings" /\ flow.stage = "Persisting" /\ Downgrades(flow.change)

\* From the passphrase on, the PIN backend's durable counter is zero: a
\* PinVerified of an earlier attempt, delivered late, does not open a session
\* while wrong attempts are recorded.
SessionAfterReset ==
    auth.tag \in {"AwaitingPassphrase", "OpeningSession", "Unlocked"} =>
        disk.failed = 0

\* A current PinRejected whose total reaches the threshold starts the wipe,
\* whatever the count in RAM is after a reboot or a dropped answer.
ReportedExhaustionWipes ==
    [][\A i \in DOMAIN answers :
          (/\ answers[i].tag = "PinRejected" /\ auth.tag = "VerifyingPin"
           /\ answers[i].id = auth.id
           /\ answers[i].failed_attempts >= MaxPinAttempts
           /\ policy.pin_exhaustion = "Wipe"
           /\ Receive(i)) => lifecycle' = Wiping]_vars

\* Every stage that waits for a backend ends.  The exception is an attempt
\* whose recorded total is not above the count in RAM: PinRejected is then
\* refused and the stage stays until a lock or a failure ends it.
Waiting ==
    \/ auth.tag \in {"ResolvingHost", "VerifyingPin", "OpeningSession"}
    \/ IsPairing /\ flow.persisted
    \/ flow.tag = "Settings" /\ flow.stage = "Persisting"
    \/ IsMaintenance
    \/ lifecycle = Wiping
CountIsStale ==
    auth.tag = "VerifyingPin" /\ disk.failed \in 1..auth.failed
RequestsEnd == Waiting ~> ~Waiting \/ CountIsStale

-----------------------------------------------------------------------------
(* What the invariants need to be inductive *)

Disk == [wallet: Lifecycle, policy: SecurityPolicy, failed: RetryCount,
         trusted: SUBSET Hosts]
DeviceTypeOK ==
    /\ lifecycle \in Lifecycle /\ lifecycle.tag # "Provisioning"
    /\ auth \in AuthState /\ flow \in FlowState
    /\ policy \in SecurityPolicy /\ effect \in Effect
    /\ QueuesOK
    /\ disk \in Disk /\ disk.wallet.tag \in {"Empty", "Provisioned"}

\* Sessions need a wallet, flows a session, and a wallet in RAM is the stored
\* one, but for a passphrase mode that may be newer on the disk.
SessionNeedsWallet ==
    /\ IsProvisioned <=> auth.tag # "Unavailable"
    /\ flow # Idle => IsUnlocked
    /\ IsProvisioned =>
          /\ disk.wallet.tag = "Provisioned"
          /\ disk.wallet.metadata.origin = lifecycle.metadata.origin
          /\ disk.wallet.metadata.backup = lifecycle.metadata.backup
          /\ \A job \in Range(jobs) : job.tag # "WipeWallet"

BudgetKept ==
    policy.pin_exhaustion = "Wipe" => FailedAttempts(auth) < MaxPinAttempts

AttemptJob(tag) == [tag |-> tag, id |-> auth.id, host |-> auth.host]

\* The question about the host is the newest job, and once it is answered
\* no older job is left that could change the answer.
HostBeingResolved ==
    auth.tag = "ResolvingHost" =>
        /\ \A i \in DOMAIN jobs : Mentions(jobs[i], auth.id) =>
              i = Len(jobs) /\ jobs[i] = AttemptJob("ResolveHostTrust")
        /\ \A a \in Range(answers) : Mentions(a, auth.id) =>
              /\ jobs = <<>> /\ a.tag = "HostTrustResolved"
              /\ a.trust = "Trusted" => auth.host \in disk.trusted

\* From then on the attempt's own question is the only job there may be.
AttemptAlone ==
    /\ auth.tag = "VerifyingPin" => jobs \in {<<>>, <<AttemptJob("VerifyPin")>>}
    /\ auth.tag = "AwaitingPassphrase" => jobs = <<>>
    /\ auth.tag = "OpeningSession" => jobs \in {<<>>, <<AttemptJob("OpenSession")>>}

VerifiedMeansReset ==
    auth.tag = "VerifyingPin" =>
        \A a \in Range(answers) :
            a.tag = "PinVerified" /\ a.id = auth.id => jobs = <<>> /\ disk.failed = 0

AttemptIsBacked ==
    auth.tag \in {"VerifyingPin", "AwaitingPassphrase", "OpeningSession"} =>
        (auth.trust = "Trusted" => auth.host \in disk.trusted)

IsPersisting == flow.tag = "Settings" /\ flow.stage = "Persisting"

\* In a session no job touches the retry counter, and only the approved
\* setting change, the newest job, touches the policy or takes trust away.
SessionJobs ==
    IsUnlocked =>
        \A i \in DOMAIN jobs :
            /\ jobs[i].tag # "VerifyPin"
            /\ jobs[i].tag = "PersistSettingChange" =>
                  /\ i = Len(jobs) /\ IsPersisting
                  /\ jobs[i].id = flow.id /\ jobs[i].change = flow.change

\* A disk holds the change.
Holds(d, change) ==
    /\ change.tag = "Security" =>
          d.policy[change.setting.field] = change.setting.value
    /\ change.tag = "Passphrase" => d.wallet.metadata.passphrase = change.mode
PersistedMeansHeld ==
    flow.tag = "Settings" =>
        \A a \in Range(answers) :
            a.tag = "SettingChangePersisted" /\ a.id = flow.id =>
                IsPersisting /\ jobs = <<>> /\ Holds(disk, flow.change)

DeviceInv ==
    /\ DeviceTypeOK /\ SessionNeedsWallet /\ BudgetKept
    /\ HostBeingResolved /\ AttemptAlone /\ VerifiedMeansReset /\ AttemptIsBacked
    /\ SessionJobs /\ PersistedMeansHeld /\ TrustIsBacked /\ SessionAfterReset
=============================================================================
