---------------------------- MODULE SecretDevice ----------------------------
(***************************************************************************)
(* The reducer and the key lifecycle in one device: setups, unlocks, locks *)
(* and wipes with failing stores, runtime failures, tamper alarms, late    *)
(* answers and power loss at any point.  domain_flow.rs is the reference   *)
(* for which effect calls which operation of KeyLifecycle.                 *)
(***************************************************************************)
EXTENDS DeviceRuntime, KeyLifecycle

\* The reducer takes every id the counter issues: both are u32.
ASSUME ContextIdsAreWallets ==
    1..(MaxContextId - 1) \subseteq Wallets

VARIABLES
    stored,   \* the lifecycle a boot restores, written with the root
    checked   \* observer: the roots whose backup the user has proved

vars == <<lifecycle, auth, flow, policy, effect, jobs, answers, root, pending,
          next_context_id, result, contexts, backup, erased, stored, checked>>

Init ==
    /\ NewWallet
    /\ jobs = <<>> /\ answers = <<>>
    /\ KeyInit
    /\ stored = Empty
    /\ checked = {}

-----------------------------------------------------------------------------
(* Events of the user, the host and the board *)

Request ==
    /\ \E id \in Ids :
          /\ Fresh(id)
          /\ \/ lifecycle = Empty /\ \E p \in Modes : StartCreate(id, p)
             \/ lifecycle = Empty /\ \E f \in Formats, p \in Modes :
                                         StartRecovery(id, f, p)
             \/ \E h \in Hosts : UnlockRefusal = Accepted /\ UnlockRequested(id, h)
    /\ Input
    /\ UNCHANGED <<keyVars, stored, checked>>

Disturbance ==
    /\ LockRequested \/ RuntimeFailure \/ TamperDetected
    /\ Input
    /\ UNCHANGED <<keyVars, stored, checked>>

-----------------------------------------------------------------------------
(* The runtime carries out the oldest effect *)

\* A call of KeyLifecycle decides which of two answers is sent.
ByResult(event) == IF result' = "Ok" THEN Answer(event) ELSE Answer(Failure)
For(tag) == [tag |-> tag, id |-> Head(jobs).id]

StageRoot ==
    /\ \/ Doing("GenerateKeyMaterial") /\ \E r \in Roots : BeginCreate(r)
       \/ /\ Doing("DeriveRecoveredKeyMaterial")
          /\ \E r \in Roots : BeginRecovery(r)
    /\ ByResult(For("KeyMaterialReady"))
    /\ UNCHANGED <<stored, checked>>

\* What the user does on the device: enter the recovery words, prove the
\* backup just shown, choose a PIN, enter it.
UserStep ==
    /\ \/ Doing("CaptureRecoveryMaterial") /\ AnswerAs("RecoveryMaterialCaptured")
       \/ Doing("ChallengeBackup") /\ AnswerAs("BackupVerified")
       \/ Doing("ConfigurePin") /\ AnswerAs("PinConfigured")
       \/ /\ Doing("ResolveHostTrust")
          /\ Answer([tag |-> "HostTrustResolved", id |-> Head(jobs).id,
                     trust |-> "Untrusted"])
       \/ Doing("VerifyPin") /\ AnswerAs("PinVerified")
    /\ checked' = IF Doing("ChallengeBackup") THEN checked \cup {backup}
                  ELSE checked
    /\ UNCHANGED <<keyVars, stored>>

ShowMnemonic ==
    /\ Doing("ShowBackup")
    /\ PendingMnemonic
    /\ Answer(IF pending = NoRoot THEN Failure ELSE For("BackupShown"))
    /\ UNCHANGED <<stored, checked>>

\* A store that failed is tried again, or the failure is reported.
CommitRoot ==
    /\ Doing("PersistProvisioning")
    /\ CommitPending
    /\ \/ result' = "Ok" /\ Answer(For("ProvisioningPersisted"))
       \/ result' # "Ok" /\ (Answer(Failure) \/ Again)
    /\ stored' = IF pending # NoRoot /\ root' = pending
                 THEN Provisioned(Head(jobs).metadata) ELSE stored
    /\ UNCHANGED checked

OpenWallet ==
    /\ Doing("OpenSession")
    /\ \E p \in Passphrases : OpenContext(p)
    /\ ByResult([tag |-> "SessionOpened", id |-> Head(jobs).id,
                 wallet |-> next_context_id])
    /\ UNCHANGED <<stored, checked>>

ClearSecrets ==
    /\ Doing("ClearSensitiveState")
    /\ CancelPending
    /\ Done
    /\ UNCHANGED <<stored, checked>>

EraseWallet ==
    /\ Doing("WipeWallet")
    /\ Wipe
    /\ \/ result' = "Ok" /\ Answer([tag |-> "WipeCompleted"])
       \/ result' # "Ok" /\ Again
    /\ stored' = IF root' = NoRoot THEN Empty ELSE stored
    /\ UNCHANGED checked

Perform == \/ StageRoot \/ UserStep \/ ShowMnemonic \/ CommitRoot
           \/ OpenWallet \/ ClearSecrets \/ EraseWallet

Receive(i) == Deliver(i) /\ UNCHANGED <<keyVars, stored, checked>>

PowerLoss ==
    /\ Boot(stored, policy)
    /\ Reboot
    /\ UNCHANGED <<stored, checked>>

\* Answers arrive in any order.
Next == \/ Request \/ Disturbance \/ Perform \/ PowerLoss
        \/ \E i \in DOMAIN answers : Receive(i)

Spec == Init /\ [][Next]_vars

\* A runtime that goes on: it finishes the oldest job, though the store may
\* fail any number of times before, and delivers every answer at last.
FairSpec ==
    /\ Spec
    /\ WF_vars(Perform /\ jobs' # jobs)
    /\ WF_vars(Receive(1))

-----------------------------------------------------------------------------
(* Properties *)

\* An open session works on the root that is installed: the context id it was
\* given is one of the contexts opened from that root since the last boot or
\* wipe, although wipes restart the ids and answers of earlier attempts may
\* still be on their way.
SessionUsesInstalledRoot ==
    IsUnlocked => \E c \in contexts : c.id = auth.wallet /\ c.root = root

\* A wallet the reducer calls provisioned has a root in the store, and if it
\* was generated here the user has proved the backup of that very root:
\* aborted setups, repeated commits, wipes and power loss in any order never
\* leave a wallet without a root or a root without a backup.
ProvisionedWalletHasRoot ==
    IsProvisioned =>
        /\ root # NoRoot
        /\ lifecycle.metadata.origin = "Generated" => root \in checked

\* "enters `Wiping` until the runtime confirms that persistent secrets are
\* gone" (docs/DOMAIN.md): when the reducer leaves Wiping the store is empty.
\* WipeCompleted has no id, so that a late one ends the next wipe.
WipedMeansGone ==
    [][lifecycle = Wiping /\ effect'.tag = "WalletWiped" => root = NoRoot]_vars

\* With one wipe asked for at a time the promise is kept: when the only
\* WipeCompleted there is ends a wipe, the store is empty, whatever failed,
\* was cleared, staged or committed in between.
OneWipeMeansGone ==
    [][(/\ lifecycle = Wiping /\ effect'.tag = "WalletWiped"
        /\ \A i \in DOMAIN jobs : jobs[i].tag # "WipeWallet"
        /\ \A i, j \in DOMAIN answers :
              answers[i].tag = "WipeCompleted" /\ answers[j].tag = "WipeCompleted" => i = j)
           => root = NoRoot]_vars

\* A setup, an unlock attempt or a wipe does not keep the device busy for
\* ever: it succeeds, fails or is abandoned.
Busy == \/ lifecycle.tag \in {"Provisioning", "Wiping"}
        \/ auth.tag \in {"ResolvingHost", "VerifyingPin", "OpeningSession"}
EveryRequestEnds == Busy ~> ~Busy

-----------------------------------------------------------------------------
(* What the invariants need to be inductive *)

SecretTypeOK ==
    /\ lifecycle \in Lifecycle /\ auth \in AuthState /\ flow = Idle
    /\ policy \in SecurityPolicy /\ effect \in Effect
    /\ QueuesOK
    /\ next_context_id \in 1..MaxContextId
    /\ stored \in Lifecycle /\ stored.tag \in {"Empty", "Provisioned"}

Proved == checked \cup {NoRoot}

\* What the store holds for the next boot.
StoredHasRoot ==
    stored.tag = "Provisioned" =>
        /\ root # NoRoot
        /\ stored.metadata.origin = "Generated" => root \in checked

\* A wallet in RAM is the stored one, and no job is left that could replace or
\* erase its root.
SessionTags == {"ResolveHostTrust", "VerifyPin", "OpenSession", "ClearSensitiveState"}
WalletIsStored ==
    /\ auth.tag # "Unavailable" => IsProvisioned
    /\ IsProvisioned =>
          /\ lifecycle = stored
          /\ \A i \in DOMAIN jobs : jobs[i].tag \in SessionTags

\* What each stage of a setup asks for.
Question ==
    [CreatingKeyMaterial |-> "GenerateKeyMaterial",
     CapturingRecoveryMaterial |-> "CaptureRecoveryMaterial",
     DerivingRecoveredKeyMaterial |-> "DeriveRecoveredKeyMaterial",
     ShowingBackup |-> "ShowBackup", VerifyingBackup |-> "ChallengeBackup",
     ConfiguringPin |-> "ConfigurePin", Persisting |-> "PersistProvisioning"]
FirstStages == {"CreatingKeyMaterial", "CapturingRecoveryMaterial"}

\* A setup has one question or one answer in flight.  Its question is the
\* newest job, and once it was answered no job of an earlier setup is left.
OneQuestion ==
    IsProvisioning =>
        /\ \A i \in DOMAIN jobs : Mentions(jobs[i], lifecycle.id) =>
              /\ i = Len(jobs) /\ jobs[i].tag = Question[lifecycle.stage]
              /\ \A k \in DOMAIN answers : ~Mentions(answers[k], lifecycle.id)
        /\ \A i, k \in DOMAIN answers :
              Mentions(answers[i], lifecycle.id) /\ Mentions(answers[k], lifecycle.id) => i = k
SetupAlone ==
    IsProvisioning /\ (\/ lifecycle.stage \notin FirstStages
                      \/ \E k \in DOMAIN answers : Mentions(answers[k], lifecycle.id))
        => \A i \in DOMAIN jobs : Mentions(jobs[i], lifecycle.id)

\* What a setup has achieved when it reaches a stage or has an answer.
SetupProved ==
    IsProvisioning =>
        /\ \A k \in DOMAIN answers : Mentions(answers[k], lifecycle.id) =>
              /\ answers[k].tag = "BackupShown" => backup = pending
              /\ answers[k].tag = "BackupVerified" => pending \in Proved
              /\ answers[k].tag = "ProvisioningPersisted" =>
                    stored = Provisioned(NewMetadata(lifecycle.mode, lifecycle.passphrase))
        /\ lifecycle.stage = "VerifyingBackup" => backup = pending
        /\ lifecycle.mode = "Create" /\ lifecycle.stage \in {"ConfiguringPin", "Persisting"} =>
              pending \in Proved

\* A commit is the oldest job, also when its setup was given up, and what it
\* commits is the root that was proved.
CommitIsNext ==
    \A i \in DOMAIN jobs : jobs[i].tag = "PersistProvisioning" =>
        /\ i = 1
        /\ jobs[i].metadata.origin = "Generated" => pending \in Proved
        /\ IsProvisioning /\ jobs[i].id = lifecycle.id =>
              jobs[i].metadata = NewMetadata(lifecycle.mode, lifecycle.passphrase)

\* The answer an unlock attempt waits for names a context of the root.
OpenedIsReal ==
    \A k \in DOMAIN answers :
        answers[k].tag = "SessionOpened" /\ Mentions(auth, answers[k].id) =>
            \E c \in contexts : c.id = answers[k].wallet /\ c.root = root

\* A wipe is still to be carried out, or the root is gone and stays gone.
WipeIsComing ==
    lifecycle = Wiping =>
        \/ \E i \in DOMAIN jobs : jobs[i].tag = "WipeWallet"
        \/ /\ root = NoRoot
           /\ \A i \in DOMAIN jobs : jobs[i].tag # "PersistProvisioning"

SecretInv ==
    /\ SecretTypeOK
    /\ StoredHasRoot /\ WalletIsStored
    /\ OneQuestion /\ SetupAlone /\ SetupProved /\ CommitIsNext
    /\ OpenedIsReal /\ SessionUsesInstalledRoot
    /\ WipeIsComing
=============================================================================
