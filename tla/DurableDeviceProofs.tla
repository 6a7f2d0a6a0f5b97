------------------------ MODULE DurableDeviceProofs ------------------------
(***************************************************************************)
(* The device with its storage, for every instance: what the session is    *)
(* told about trust, retries and settings is what the disk holds, however  *)
(* answers are delayed, reordered or lost with the power.                  *)
(*                                                                         *)
(* DeviceInv is inductive.  A job only writes and answers (PerformKeeps);  *)
(* an event only moves the reducer, and what it does depends on the        *)
(* answers in flight (EventKeeps); a power loss empties both queues.       *)
(***************************************************************************)
EXTENDS DurableDevice, HandlerLemmas

LEMMA DeviceStateOK == ASSUME DeviceTypeOK PROVE StateOK
  BY DEF DeviceTypeOK, StateOK

\* The oldest job leaves the queue.
LEMMA OldestJob ==
    ASSUME QueuesOK, jobs # <<>>, jobs' = Tail(jobs)
    PROVE  /\ Head(jobs) = jobs[1] /\ 1 \in DOMAIN jobs
           /\ Head(jobs) \in Jobs /\ Head(jobs) \in Range(jobs)
           /\ jobs' \in Seq(Jobs) /\ Range(jobs') \subseteq Range(jobs)
           /\ \A i \in DOMAIN jobs' :
                 /\ i + 1 \in DOMAIN jobs /\ jobs'[i] = jobs[i + 1]
                 /\ i + 1 = Len(jobs) => i = Len(jobs')
           /\ 1 = Len(jobs) => jobs' = <<>>
<1>1. jobs \in Seq(Jobs)
  BY DEF QueuesOK
<1>2. Len(jobs) \in Nat \ {0} /\ DOMAIN jobs = 1..Len(jobs)
  BY <1>1, EmptySeq, LenProperties
<1>3. Head(jobs) = jobs[1] /\ Head(jobs) \in Jobs
  BY <1>1, HeadTailProperties
<1>4. jobs' \in Seq(Jobs) /\ Len(jobs') = Len(jobs) - 1
  BY <1>1, QueueTail
<1>5. 1 = Len(jobs) => jobs' = <<>>
  BY <1>2, <1>4, EmptySeq
<1>6. Head(jobs) \in Range(jobs) /\ Range(jobs') \subseteq Range(jobs)
  BY <1>1, QueueTail
<1>7. \A i \in DOMAIN jobs' : i + 1 \in DOMAIN jobs /\ jobs'[i] = jobs[i + 1]
  BY <1>1, QueueTail
<1>8. \A i \in DOMAIN jobs' : i + 1 = Len(jobs) => i = Len(jobs')
  BY <1>2, <1>4, LenProperties
<1>9. QED
  BY <1>2, <1>3, <1>4, <1>5, <1>6, <1>7, <1>8

\* An answer joins its queue.
LEMMA NewAnswer ==
    ASSUME QueuesOK, NEW a \in Answers, answers' = Append(answers, a)
    PROVE  answers' \in Seq(Answers) /\ Range(answers') = Range(answers) \cup {a}
  BY QueueAppend DEF QueuesOK

-----------------------------------------------------------------------------
(* Carrying out a job *)

\* What a job that answers a may do to the disk.
Harmless(a) ==
    /\ IsProvisioned =>
          /\ disk'.wallet.tag = disk.wallet.tag
          /\ disk'.wallet.metadata.origin = disk.wallet.metadata.origin
          /\ disk'.wallet.metadata.backup = disk.wallet.metadata.backup
    /\ auth.tag = "ResolvingHost" /\ Mentions(a, auth.id) =>
          /\ Mentions(Head(jobs), auth.id)
          /\ a.tag = "HostTrustResolved"
          /\ a.trust = "Trusted" => Head(jobs).host \in disk'.trusted
    /\ a.tag = "PinVerified" => disk'.failed = 0
    /\ auth.tag \in {"VerifyingPin", "AwaitingPassphrase", "OpeningSession"} =>
          disk.trusted \subseteq disk'.trusted
    /\ a.tag = "SettingChangePersisted" =>
          /\ Head(jobs).tag = "PersistSettingChange" /\ a.id = Head(jobs).id
          /\ IsProvisioned => Holds(disk', Head(jobs).change)
    /\ IsUnlocked /\ auth.host \in disk.trusted /\ auth.host \notin disk'.trusted =>
          IsPersisting /\ Downgrades(flow.change)
    /\ auth.tag \in {"AwaitingPassphrase", "OpeningSession", "Unlocked"} =>
          disk'.failed \in {0, disk.failed}

LEMMA PerformKeeps ==
    ASSUME DeviceInv, DeviceTypeOK', jobs # <<>>, jobs' = Tail(jobs),
           UNCHANGED wallet, NEW a, Harmless(a),
           Range(answers') \subseteq Range(answers) \cup {a}
    PROVE  DeviceInv'
<1> USE OldestJob
<1>0. QueuesOK /\ UNCHANGED <<lifecycle, auth, flow, policy>>
  BY DEF DeviceInv, DeviceTypeOK, wallet
<1>1. SessionNeedsWallet'
  BY <1>0 DEF DeviceInv, SessionNeedsWallet, Harmless, IsProvisioned, IsUnlocked
<1>2. BudgetKept'
  BY <1>0 DEF DeviceInv, BudgetKept, FailedAttempts
<1>3. HostBeingResolved'
  <2> SUFFICES ASSUME auth.tag = "ResolvingHost"
               PROVE  HostBeingResolved'
    BY <1>0 DEF HostBeingResolved
  <2>1. \A i \in DOMAIN jobs' : Mentions(jobs'[i], auth.id) =>
              i = Len(jobs') /\ jobs'[i] = AttemptJob("ResolveHostTrust")
    BY <1>0 DEF DeviceInv, HostBeingResolved
  <2>2. \A b \in Range(answers) : ~Mentions(b, auth.id)
    BY DEF DeviceInv, HostBeingResolved
  <2>3. Mentions(a, auth.id) =>
            /\ jobs' = <<>> /\ a.tag = "HostTrustResolved"
            /\ a.trust = "Trusted" => auth.host \in disk'.trusted
    BY <1>0 DEF DeviceInv, HostBeingResolved, Harmless, AttemptJob
  <2>4. QED
    BY <1>0, <2>1, <2>2, <2>3 DEF HostBeingResolved, AttemptJob
<1>4. AttemptAlone'
  BY <1>0 DEF DeviceInv, AttemptAlone, AttemptJob
<1>5. VerifiedMeansReset'
  BY <1>0 DEF DeviceInv, AttemptAlone, VerifiedMeansReset, Harmless
<1>6. AttemptIsBacked'
  BY <1>0 DEF DeviceInv, AttemptIsBacked, Harmless
<1>7. SessionJobs'
  BY <1>0 DEF DeviceInv, SessionJobs, IsUnlocked, IsPersisting
<1>8. PersistedMeansHeld'
  <2> SUFFICES ASSUME flow.tag = "Settings", NEW b \in Range(answers'),
                      b.tag = "SettingChangePersisted", b.id = flow.id
               PROVE  IsPersisting /\ jobs' = <<>> /\ Holds(disk', flow.change)
    BY <1>0 DEF PersistedMeansHeld, IsPersisting, Holds
  <2>1. IsUnlocked /\ IsProvisioned
    BY DEF DeviceInv, SessionNeedsWallet, Idle, IsUnlocked
  <2>2. b = a
    BY DEF DeviceInv, PersistedMeansHeld
  <2>3. Head(jobs).tag = "PersistSettingChange" /\ Holds(disk', Head(jobs).change)
    BY <2>1, <2>2 DEF Harmless
  <2>4. IsPersisting /\ 1 = Len(jobs) /\ Head(jobs).change = flow.change
    BY <1>0, <2>1, <2>3 DEF DeviceInv, SessionJobs
  <2>5. QED
    BY <1>0, <2>3, <2>4
<1>9. TrustIsBacked'
  BY <1>0
  DEF DeviceInv, TrustIsBacked, Harmless, IsPersisting, Downgrades, IsUnlocked
<1>10. SessionAfterReset'
  BY <1>0 DEF DeviceInv, SessionAfterReset, Harmless
<1>11. QED
  BY <1>1, <1>2, <1>3, <1>4, <1>5, <1>6, <1>7, <1>8, <1>9, <1>10
  DEF DeviceInv

LEMMA AnswerKeeps ==
    ASSUME DeviceInv, jobs # <<>>, NEW a \in Answers, Answer(a), Harmless(a),
           disk' \in Disk, disk'.wallet.tag \in {"Empty", "Provisioned"}
    PROVE  DeviceInv'
<1>1. QueuesOK /\ UNCHANGED <<lifecycle, auth, flow, policy, effect>>
  BY DEF DeviceInv, DeviceTypeOK, Answer, wallet
<1>2. /\ jobs' = Tail(jobs) /\ jobs' \in Seq(Jobs)
      /\ answers' \in Seq(Answers) /\ Range(answers') = Range(answers) \cup {a}
  BY <1>1, OldestJob, NewAnswer DEF Answer
<1>3. DeviceTypeOK'
  BY <1>1, <1>2 DEF DeviceInv, DeviceTypeOK, QueuesOK
<1>4. UNCHANGED wallet
  BY DEF Answer
<1>5. QED
  BY <1>2, <1>3, <1>4, PerformKeeps

\* The fields of the jobs this device carries out.
LEMMA JobFields ==
    ASSUME NEW j \in Jobs
    PROVE  /\ j.tag \in {"ResolveHostTrust", "VerifyPin", "OpenSession",
                         "PersistTrustedHost"} =>
                 j.id \in Ids /\ j.host \in Hosts /\ "id" \in DOMAIN j
           /\ j.tag = "PersistSettingChange" => j.id \in Ids /\ j.change \in Changes
           /\ j.tag = "ChangePin" => j.id \in Ids
  BY DEF Jobs, Effect

LEMMA PinJobKeeps ==
    ASSUME DeviceInv, Doing("VerifyPin"), NEW a \in Answers,
           Answer(a), a.id = Head(jobs).id, a.tag \in {"PinVerified", "PinRejected"},
           a.tag = "PinVerified" => disk'.failed = 0,
           disk' \in Disk, disk' = [disk EXCEPT !.failed = disk'.failed]
    PROVE  DeviceInv'
<1>1. /\ Head(jobs) \in Jobs /\ Head(jobs) = jobs[1] /\ 1 \in DOMAIN jobs
      /\ jobs # <<>>
  BY OldestJob DEF DeviceInv, DeviceTypeOK, Doing, Answer
<1>2. disk'.wallet = disk.wallet /\ disk'.trusted = disk.trusted
  BY DEF DeviceInv, DeviceTypeOK, Disk
<1>3. auth.tag = "ResolvingHost" => ~Mentions(a, auth.id)
  <2>1. "id" \in DOMAIN Head(jobs)
    BY <1>1, JobFields DEF Doing
  <2>2. QED
    BY <1>1, <2>1
    DEF Mentions, DeviceInv, HostBeingResolved, AttemptJob, Doing
<1>4. auth.tag \notin {"AwaitingPassphrase", "OpeningSession", "Unlocked"}
  BY <1>1 DEF DeviceInv, AttemptAlone, AttemptJob, SessionJobs, IsUnlocked, Doing
<1>5. Harmless(a)
  BY <1>2, <1>3, <1>4 DEF Harmless, IsUnlocked
<1>6. QED
  BY <1>1, <1>2, <1>5, AnswerKeeps DEF DeviceInv, DeviceTypeOK

\* What the settings store writes.
LEMMA SavedFacts ==
    ASSUME DeviceTypeOK, NEW change \in Changes
    PROVE  LET saved == Saved(change)
           IN  /\ saved \in Disk /\ saved.failed = disk.failed
               /\ saved.wallet.tag = disk.wallet.tag
               /\ disk.wallet.tag = "Provisioned" =>
                     /\ saved.wallet.metadata.origin = disk.wallet.metadata.origin
                     /\ saved.wallet.metadata.backup = disk.wallet.metadata.backup
                     /\ Holds(saved, change)
               /\ \A h \in disk.trusted \ saved.trusted :
                     \/ change.tag = "RevokeAllHosts"
                     \/ change.tag = "RevokeHost" /\ change.host = h
<1> DEFINE saved == Saved(change)
<1>1. change \in SettingChange
  BY ChangesAssumption
<1>2. disk \in Disk /\ disk.wallet \in Lifecycle
  BY DEF DeviceTypeOK, Disk
<1>3. /\ saved.failed = disk.failed
      /\ saved.policy = IF change.tag = "Security"
                        THEN ApplySetting(disk.policy, change.setting)
                        ELSE disk.policy
      /\ saved.wallet = IF change.tag = "Passphrase" /\ disk.wallet # Empty
                        THEN [disk.wallet EXCEPT !.metadata.passphrase = change.mode]
                        ELSE disk.wallet
      /\ saved.trusted = IF change.tag = "RevokeAllHosts" THEN {}
                         ELSE IF change.tag = "RevokeHost"
                         THEN disk.trusted \ {change.host} ELSE disk.trusted
  BY <1>2 DEF Saved, Disk
<1>0. saved \in Disk <=> /\ saved.wallet \in Lifecycle
                         /\ saved.policy \in SecurityPolicy
                         /\ saved.failed \in RetryCount
                         /\ saved.trusted \in SUBSET Hosts
  BY <1>2 DEF Saved, Disk
<1> HIDE DEF saved
<1>4. saved.policy \in SecurityPolicy
  BY <1>1, <1>2, <1>3, ApplySettingType DEF SettingChange, Disk
<1>5. /\ saved.wallet \in Lifecycle /\ saved.wallet.tag = disk.wallet.tag
      /\ disk.wallet.tag = "Provisioned" =>
            /\ saved.wallet.metadata.origin = disk.wallet.metadata.origin
            /\ saved.wallet.metadata.backup = disk.wallet.metadata.backup
            /\ change.tag = "Passphrase" =>
                  saved.wallet.metadata.passphrase = change.mode
  <2>1. CASE change.tag = "Passphrase" /\ disk.wallet.tag = "Provisioned"
    <3>1. change.mode \in PassphraseMode
      BY <1>1, <2>1 DEF SettingChange
    <3>2. disk.wallet \in [tag: {"Provisioned"}, metadata: WalletMetadata]
      BY <1>2, <2>1 DEF Lifecycle
    <3>3. saved.wallet = [disk.wallet EXCEPT !.metadata.passphrase = change.mode]
      BY <1>3, <2>1 DEF Empty
    <3>4. saved.wallet \in [tag: {"Provisioned"}, metadata: WalletMetadata]
      BY <3>1, <3>2, <3>3 DEF WalletMetadata
    <3>5. QED
      BY <3>2, <3>3, <3>4 DEF Lifecycle, WalletMetadata
  <2>2. CASE disk.wallet.tag = "Empty"
    BY <1>2, <1>3, <2>2 DEF Lifecycle, Empty
  <2>3. CASE change.tag # "Passphrase"
    BY <1>2, <1>3, <2>3
  <2>4. QED
    BY <2>1, <2>2, <2>3 DEF DeviceTypeOK
<1>6. saved \in Disk
  BY <1>0, <1>2, <1>3, <1>4, <1>5 DEF Disk
<1>7. change.tag = "Security" =>
          saved.policy[change.setting.field] = change.setting.value
  BY <1>1, <1>2, <1>3 DEF ApplySetting, SettingChange, SecuritySetting, Disk, SecurityPolicy
<1>8. \A h \in disk.trusted \ saved.trusted :
          \/ change.tag = "RevokeAllHosts"
          \/ change.tag = "RevokeHost" /\ change.host = h
  BY <1>3
<1>9. QED
  BY <1>3, <1>5, <1>6, <1>7, <1>8 DEF Holds, saved

LEMMA PerformInv == ASSUME DeviceInv, Perform PROVE DeviceInv'
<1> DEFINE job == Head(jobs)
<1>0. /\ jobs # <<>> /\ job \in Jobs /\ job = jobs[1] /\ 1 \in DOMAIN jobs
      /\ job \in Range(jobs)
  BY OldestJob
  DEF Perform, ResolveTrust, RightPin, WrongPin, StartSession, SaveHost,
      SaveSetting, SavePin, Erase, Clear, Doing, Answer, AnswerAs, Done,
      DeviceInv, DeviceTypeOK
<1>1. disk \in Disk /\ disk.wallet.tag \in {"Empty", "Provisioned"} /\ QueuesOK
  BY DEF DeviceInv, DeviceTypeOK
\* While a host is being resolved, only its own question carries its id.
<1>2. ASSUME auth.tag = "ResolvingHost", Mentions(job, auth.id)
      PROVE  job = AttemptJob("ResolveHostTrust")
  BY <1>0, <1>2 DEF DeviceInv, HostBeingResolved
<1>3. ASSUME NEW a, a.id = job.id, "id" \in DOMAIN job, Mentions(a, auth.id)
      PROVE  Mentions(job, auth.id)
  BY <1>3 DEF Mentions
<1>4. ASSUME UNCHANGED disk, NEW a \in Answers, Answer(a),
             \/ a = Failure
             \/ a.tag \in {"SessionOpened", "PinChanged"} /\ a.id = job.id
                /\ "id" \in DOMAIN job /\ job.tag # "ResolveHostTrust"
      PROVE  DeviceInv'
  <2>1. ~(auth.tag = "ResolvingHost" /\ Mentions(a, auth.id))
    BY <1>2, <1>3, <1>4 DEF Mentions, Failure, AttemptJob
  <2>2. a.tag \notin {"PinVerified", "SettingChangePersisted"}
    BY <1>4 DEF Failure
  <2>3. Harmless(a)
    BY <1>4, <2>1, <2>2 DEF Harmless
  <2>4. QED
    BY <1>0, <1>1, <1>4, <2>3, AnswerKeeps
<1>5. CASE ResolveTrust
  <2> DEFINE a == [tag |-> "HostTrustResolved", id |-> job.id,
                   trust |-> IF job.host \in disk.trusted
                             THEN "Trusted" ELSE "Untrusted"]
  <2>1. a \in Answers /\ "id" \in DOMAIN job
    BY <1>0, <1>5, JobFields DEF ResolveTrust, Doing, Answers, HostTrust
  <2>2. Harmless(a)
    BY <1>3, <1>5, <2>1 DEF ResolveTrust, Harmless
  <2>3. QED
    BY <1>0, <1>1, <1>5, <2>1, <2>2, AnswerKeeps DEF ResolveTrust
<1>6. CASE RightPin
  <2> DEFINE a == [tag |-> "PinVerified", id |-> job.id]
  <2>1. a \in Answers /\ Answer(a) /\ Doing("VerifyPin")
    BY <1>0, <1>6, JobFields DEF RightPin, Doing, Answers, AnswerAs
  <2>2. disk' \in Disk /\ disk'.failed = 0
    BY <1>1, <1>6, RetryAssumption DEF RightPin, Disk, RetryCount
  <2>3. QED
    BY <1>6, <2>1, <2>2, PinJobKeeps DEF RightPin
<1>7. CASE WrongPin
  <2> DEFINE a == [tag |-> "PinRejected", id |-> job.id,
                   failed_attempts |-> disk.failed + 1]
  <2>1. disk.failed + 1 \in RetryCount
    BY <1>1, <1>7, RetryAssumption DEF WrongPin, Disk, RetryCount
  <2>2. a \in Answers /\ Answer(a) /\ Doing("VerifyPin")
    BY <1>0, <1>7, <2>1, JobFields DEF WrongPin, Doing, Answers
  <2>3. disk' \in Disk /\ disk'.failed = disk.failed + 1
    BY <1>1, <1>7, <2>1 DEF WrongPin, Disk
  <2>4. QED
    BY <1>7, <2>2, <2>3, PinJobKeeps DEF WrongPin
<1>8. CASE StartSession
  <2>1. PICK w \in Wallets : Answer([tag |-> "SessionOpened", id |-> job.id,
                                     wallet |-> w])
    BY <1>8 DEF StartSession
  <2>2. /\ [tag |-> "SessionOpened", id |-> job.id, wallet |-> w] \in Answers
        /\ "id" \in DOMAIN job /\ job.tag = "OpenSession"
    BY <1>0, <1>8, JobFields DEF StartSession, Doing, Answers
  <2>3. QED
    BY <1>4, <1>8, <2>1, <2>2 DEF StartSession
<1>9. CASE SaveHost
  <2> DEFINE a == [tag |-> "TrustedHostPersisted", id |-> job.id]
  <2>1. /\ a \in Answers /\ Answer(a) /\ job.host \in Hosts
        /\ "id" \in DOMAIN job /\ job.tag = "PersistTrustedHost"
    BY <1>0, <1>9, JobFields DEF SaveHost, Doing, Answers, AnswerAs
  <2>2. /\ disk' \in Disk /\ disk.trusted \subseteq disk'.trusted
        /\ disk'.wallet = disk.wallet /\ disk'.failed = disk.failed
    BY <1>1, <1>9, <2>1 DEF SaveHost, Disk
  <2>3. ~(auth.tag = "ResolvingHost" /\ Mentions(a, auth.id))
    BY <1>2, <1>3, <2>1 DEF AttemptJob
  <2>4. Harmless(a)
    BY <2>2, <2>3 DEF Harmless
  <2>5. QED
    BY <1>0, <1>1, <2>1, <2>2, <2>4, AnswerKeeps
<1>10. CASE SaveSetting
  <2>1. CASE UNCHANGED disk /\ Answer(Failure)
    BY <1>4, <2>1 DEF Failure, Answers
  <2>2. CASE disk' = Saved(job.change) /\ AnswerAs("SettingChangePersisted")
    <3> DEFINE a == [tag |-> "SettingChangePersisted", id |-> job.id]
    <3>1. /\ job.tag = "PersistSettingChange" /\ job.change \in Changes
          /\ "id" \in DOMAIN job /\ a \in Answers /\ Answer(a)
      BY <1>0, <1>10, <2>2, JobFields
      DEF SaveSetting, Doing, Answers, AnswerAs, Jobs, Effect
    <3>2. /\ disk' \in Disk /\ disk'.failed = disk.failed
          /\ disk'.wallet.tag = disk.wallet.tag
          /\ disk.wallet.tag = "Provisioned" =>
                /\ disk'.wallet.metadata.origin = disk.wallet.metadata.origin
                /\ disk'.wallet.metadata.backup = disk.wallet.metadata.backup
                /\ Holds(disk', job.change)
          /\ \A h \in disk.trusted \ disk'.trusted :
                \/ job.change.tag = "RevokeAllHosts"
                \/ job.change.tag = "RevokeHost" /\ job.change.host = h
      BY <2>2, <3>1, SavedFacts DEF DeviceInv
    <3>3. ~(auth.tag = "ResolvingHost" /\ Mentions(a, auth.id))
      BY <1>2, <1>3, <3>1 DEF AttemptJob
    <3>4. auth.tag \notin {"VerifyingPin", "AwaitingPassphrase", "OpeningSession"}
      BY <1>0, <3>1 DEF DeviceInv, AttemptAlone, AttemptJob
    <3>5. ASSUME IsUnlocked, auth.host \in disk.trusted,
                 auth.host \notin disk'.trusted
          PROVE  IsPersisting /\ Downgrades(flow.change)
      BY <1>0, <3>1, <3>2, <3>5 DEF DeviceInv, SessionJobs, Downgrades
    <3>6. IsProvisioned => disk.wallet.tag = "Provisioned"
      BY DEF DeviceInv, SessionNeedsWallet
    <3>7. Harmless(a)
      BY <3>1, <3>2, <3>3, <3>4, <3>5, <3>6 DEF Harmless
    <3>8. QED
      BY <1>0, <1>1, <3>1, <3>2, <3>7, AnswerKeeps
  <2>3. QED
    BY <1>10, <2>1, <2>2 DEF SaveSetting
<1>11. CASE SavePin
  <2>1. /\ [tag |-> "PinChanged", id |-> job.id] \in Answers
        /\ "id" \in DOMAIN job /\ job.tag = "ChangePin"
    BY <1>0, <1>11, JobFields DEF SavePin, Doing, Answers, Jobs, Effect
  <2>2. QED
    BY <1>4, <1>11, <2>1 DEF SavePin, AnswerAs
<1>12. CASE Erase
  <2> DEFINE a == [tag |-> "WipeCompleted"]
  <2>1. job.tag = "WipeWallet" /\ a \in Answers /\ Answer(a)
    BY <1>12 DEF Erase, Doing, Answers
  <2>2. ~IsProvisioned /\ auth.tag = "Unavailable"
    BY <1>0, <2>1 DEF DeviceInv, SessionNeedsWallet
  <2>3. disk' \in Disk /\ disk'.wallet.tag = "Empty"
    <3>1. Empty \in Lifecycle /\ Empty.tag = "Empty" /\ 0 \in RetryCount
      BY RetryAssumption DEF Empty, Lifecycle, RetryCount
    <3>2. QED
      BY <1>1, <1>12, <3>1 DEF Erase, Disk
  <2>4. Harmless(a)
    BY <2>2 DEF Harmless, IsUnlocked
  <2>5. QED
    BY <1>0, <2>1, <2>3, <2>4, AnswerKeeps
<1>13. CASE Clear
  <2>1. /\ jobs' = Tail(jobs) /\ UNCHANGED <<answers, wallet, effect, disk>>
        /\ UNCHANGED <<lifecycle, auth, flow, policy>>
    BY <1>13 DEF Clear, Done, wallet
  <2>2. DeviceTypeOK'
    <3>1. jobs' \in Seq(Jobs)
      BY <1>0, <1>1, <2>1, OldestJob
    <3>2. QED
      BY <2>1, <3>1 DEF DeviceInv, DeviceTypeOK, QueuesOK
  <2>3. Harmless(Failure)
    BY <2>1 DEF Harmless, Failure, Mentions
  <2>4. Range(answers') \subseteq Range(answers) \cup {Failure}
    BY <2>1
  <2>5. QED
    BY <1>0, <2>1, <2>2, <2>3, <2>4, PerformKeeps
<1>14. QED
  BY <1>5, <1>6, <1>7, <1>8, <1>9, <1>10, <1>11, <1>12, <1>13 DEF Perform

-----------------------------------------------------------------------------
(* Handling an event *)

\* What every event leaves alone, and what it does to the queues.
Handling ==
    /\ DeviceTypeOK' /\ UNCHANGED disk
    /\ Range(answers') \subseteq Range(answers)
    /\ Submit

\* The newest job joins the queue.
LEMMA NewestJob ==
    ASSUME QueuesOK, NEW e, effect' = e, e.tag \in Backend, Submit,
           e.tag # "PersistProvisioning", e \in Effect
    PROVE  /\ Range(jobs') = Range(jobs) \cup {e}
           /\ \A i \in DOMAIN jobs' :
                 \/ i \in DOMAIN jobs /\ jobs'[i] = jobs[i]
                 \/ i = Len(jobs') /\ jobs'[i] = e
           /\ jobs = <<>> => jobs' = <<e>>
<1>1. e \in Jobs /\ jobs' = Append(jobs, e) /\ jobs \in Seq(Jobs)
  BY DEF Submit, Job, Jobs, QueuesOK
<1>2. /\ Len(jobs) \in Nat /\ DOMAIN jobs = 1..Len(jobs)
      /\ Len(jobs') = Len(jobs) + 1 /\ jobs' \in Seq(Jobs)
      /\ \A i \in 1..Len(jobs) : jobs'[i] = jobs[i]
      /\ jobs'[Len(jobs) + 1] = e
  BY <1>1, LenProperties, AppendProperties
<1>3. DOMAIN jobs' = 1..Len(jobs) + 1
  BY <1>2, LenProperties
<1>4. Range(jobs') = Range(jobs) \cup {e}
  BY <1>1, QueueAppend
<1>5. jobs = <<>> => jobs' = <<e>>
  BY <1>1
<1>6. QED
  BY <1>2, <1>3, <1>4, <1>5

\* A refused event only leaves the queue of answers.
LEMMA RefusedKeeps ==
    ASSUME DeviceInv, Handling, UNCHANGED wallet, effect'.tag \notin Backend
    PROVE  DeviceInv'
<1>1. UNCHANGED <<lifecycle, auth, flow, policy, disk, jobs>>
  BY DEF Handling, Submit, wallet
<1>2. /\ SessionNeedsWallet' /\ BudgetKept' /\ AttemptAlone' /\ AttemptIsBacked'
      /\ TrustIsBacked' /\ SessionAfterReset' /\ SessionJobs'
  BY <1>1
  DEF DeviceInv, SessionNeedsWallet, BudgetKept, AttemptAlone, AttemptIsBacked,
      TrustIsBacked, SessionAfterReset, SessionJobs, IsPersisting, IsUnlocked,
      IsProvisioned, FailedAttempts, AttemptJob, Downgrades
<1>3. HostBeingResolved' /\ VerifiedMeansReset' /\ PersistedMeansHeld'
  BY <1>1
  DEF DeviceInv, Handling, HostBeingResolved, VerifiedMeansReset,
      PersistedMeansHeld, AttemptJob, IsPersisting
<1>4. QED
  BY <1>2, <1>3 DEF DeviceInv, Handling

\* The device locks, starts a wipe or ends one.
Rests ==
    /\ flow' = Idle /\ UNCHANGED policy
    /\ \/ /\ lifecycle' = lifecycle
          /\ auth'.tag = IF IsProvisioned THEN "Locked" ELSE "Unavailable"
          /\ policy.pin_exhaustion = "Wipe" => FailedAttempts(auth') < MaxPinAttempts
          /\ effect'.tag \in Backend => effect'.tag = "ClearSensitiveState"
       \/ /\ lifecycle' \in {Empty, Wiping} /\ auth' = Unavailable
          /\ effect'.tag \in Backend => effect'.tag = "WipeWallet"

LEMMA RestKeeps == ASSUME DeviceInv, Handling, Rests PROVE DeviceInv'
<1>1. auth'.tag \in {"Locked", "Unavailable"} /\ flow' = Idle
  BY DEF Rests, Unavailable
<1>2. BudgetKept'
  BY RetryAssumption DEF Rests, BudgetKept, Unavailable, FailedAttempts
<1>3. \A job \in Range(jobs') : job \in Range(jobs) \/ job = effect'
  BY NewestJob
  DEF DeviceInv, DeviceTypeOK, Handling, Submit, Rests
<1>4. SessionNeedsWallet'
  <2>1. CASE lifecycle' = lifecycle
    BY <1>1, <1>3, <2>1
    DEF Rests, DeviceInv, SessionNeedsWallet, IsProvisioned, IsUnlocked, Handling,
        Submit, Empty, Wiping, Unavailable
  <2>2. CASE lifecycle' \in {Empty, Wiping}
    BY <1>1, <2>2
    DEF Rests, DeviceInv, DeviceTypeOK, SessionNeedsWallet, IsProvisioned,
        IsUnlocked, Empty, Wiping, Unavailable
  <2>3. QED
    BY <2>1, <2>2 DEF Rests
<1>5. /\ HostBeingResolved' /\ AttemptAlone' /\ VerifiedMeansReset'
      /\ AttemptIsBacked' /\ SessionJobs' /\ PersistedMeansHeld'
      /\ TrustIsBacked' /\ SessionAfterReset'
  BY <1>1
  DEF HostBeingResolved, AttemptAlone, VerifiedMeansReset, AttemptIsBacked,
      SessionJobs, PersistedMeansHeld, TrustIsBacked, SessionAfterReset,
      IsUnlocked, Idle
<1>6. QED
  BY <1>2, <1>4, <1>5 DEF DeviceInv, Handling

\* An unlock attempt moves within the wallet it belongs to, and asks nothing
\* of the wallet store.
LEMMA AttemptFrame ==
    ASSUME DeviceInv, Handling, UNCHANGED <<lifecycle, flow, policy>>, flow = Idle,
           auth.tag # "Unavailable", auth'.tag # "Unavailable",
           effect'.tag \in Backend => effect'.tag \in
               {"ResolveHostTrust", "VerifyPin", "OpenSession"},
           policy.pin_exhaustion = "Wipe" => FailedAttempts(auth') < MaxPinAttempts
    PROVE  /\ SessionNeedsWallet' /\ BudgetKept' /\ PersistedMeansHeld'
           /\ \A job \in Range(jobs') : job \in Range(jobs) \/ job = effect'
<1>1. \A job \in Range(jobs') : job \in Range(jobs) \/ job = effect'
  BY NewestJob DEF DeviceInv, DeviceTypeOK, Handling, Submit
<1>2. SessionNeedsWallet'
  BY <1>1
  DEF DeviceInv, SessionNeedsWallet, Handling, Submit, IsProvisioned, IsUnlocked
<1>3. BudgetKept'
  BY DEF BudgetKept
<1>4. PersistedMeansHeld'
  BY DEF PersistedMeansHeld, Idle
<1>5. QED
  BY <1>1, <1>2, <1>3, <1>4

LEMMA UnlockKeeps ==
    ASSUME DeviceInv, Handling, NEW id \in Ids, NEW h \in Hosts, Fresh(id),
           UnlockRequested(id, h)
    PROVE  DeviceInv'
<1>1. CASE UnlockRefusal # Accepted
  BY <1>1, RefusedKeeps DEF UnlockRequested, Reject, Rejection, Backend
<1>2. CASE UnlockRefusal = Accepted
  <2>1. /\ auth.tag = "Locked" /\ flow = Idle
        /\ auth' = [tag |-> "ResolvingHost", id |-> id, host |-> h,
                    failed |-> auth.failed]
        /\ effect' = [tag |-> "ResolveHostTrust", id |-> id, host |-> h]
        /\ UNCHANGED <<lifecycle, flow, policy>>
    BY <1>2 DEF UnlockRequested, UnlockRefusal, Accepted
  <2>2. FailedAttempts(auth') = FailedAttempts(auth)
    BY <2>1 DEF FailedAttempts
  <2>3. SessionNeedsWallet' /\ BudgetKept' /\ PersistedMeansHeld'
    BY <2>1, <2>2, AttemptFrame DEF DeviceInv, BudgetKept
  <2>4. HostBeingResolved'
    <3>1. \A i \in DOMAIN jobs' :
              \/ i \in DOMAIN jobs /\ jobs'[i] = jobs[i]
              \/ i = Len(jobs') /\ jobs'[i] = effect'
      BY <2>1, NewestJob
      DEF DeviceInv, DeviceTypeOK, Handling, Backend
    <3>2. \A a \in Range(answers') : ~Mentions(a, id)
      BY DEF Fresh, Handling, Range
    <3>3. QED
      BY <2>1, <3>1, <3>2 DEF HostBeingResolved, AttemptJob, Fresh
  <2>5. /\ AttemptAlone' /\ VerifiedMeansReset' /\ AttemptIsBacked'
        /\ SessionJobs' /\ TrustIsBacked' /\ SessionAfterReset'
    BY <2>1
    DEF AttemptAlone, VerifiedMeansReset, AttemptIsBacked, SessionJobs,
        TrustIsBacked, SessionAfterReset, IsUnlocked
  <2>6. QED
    BY <2>3, <2>4, <2>5 DEF DeviceInv, Handling
<1>3. QED
  BY <1>1, <1>2

LEMMA ResolvedKeeps ==
    ASSUME DeviceInv, Handling, NEW a \in Range(answers), a \in Answers,
           a.tag = "HostTrustResolved", HostTrustResolved(a.id, a.trust)
    PROVE  DeviceInv'
<1> DEFINE refusal == CallbackRefusal(auth.tag = "ResolvingHost", auth.id, a.id)
<1>1. CASE refusal # Accepted
  BY <1>1, RefusedKeeps DEF HostTrustResolved, Reject, Rejection, Backend
<1>2. CASE refusal = Accepted
  <2>1. auth.tag = "ResolvingHost" /\ auth.id = a.id
    BY <1>2 DEF CallbackRefusal, Accepted
  <2>2. /\ auth' = [tag |-> "VerifyingPin", id |-> auth.id, host |-> auth.host,
                    trust |-> a.trust, failed |-> auth.failed]
        /\ effect' = AttemptJob("VerifyPin")
        /\ UNCHANGED <<lifecycle, flow, policy>>
    BY <1>2, <2>1 DEF HostTrustResolved, Attempt, AttemptJob
  <2>3. Mentions(a, auth.id)
    BY <2>1 DEF Mentions, Answers
  <2>4. /\ jobs = <<>>
        /\ a.trust = "Trusted" => auth.host \in disk.trusted
        /\ \A b \in Range(answers) : Mentions(b, auth.id) => b.tag = "HostTrustResolved"
    BY <2>1, <2>3 DEF DeviceInv, HostBeingResolved
  <2>5. flow = Idle
    BY <2>1 DEF DeviceInv, SessionNeedsWallet, IsUnlocked
  <2>6. FailedAttempts(auth') = FailedAttempts(auth)
    BY <2>1, <2>2 DEF FailedAttempts
  <2>7. SessionNeedsWallet' /\ BudgetKept' /\ PersistedMeansHeld'
    BY <2>1, <2>2, <2>5, <2>6, AttemptFrame DEF DeviceInv, BudgetKept, AttemptJob
  <2>8. jobs' = <<effect'>>
    BY <2>2, <2>4, NewestJob
    DEF DeviceInv, DeviceTypeOK, Handling, Backend, AttemptJob
  <2>9. AttemptAlone' /\ AttemptIsBacked'
    BY <2>2, <2>4, <2>8
    DEF AttemptAlone, AttemptIsBacked, AttemptJob, Handling
  <2>10. VerifiedMeansReset'
    <3>1. \A b \in Range(answers) : ~(b.tag = "PinVerified" /\ b.id = auth.id)
      <4>1. \A b \in Range(answers) : b \in Answers
        BY RangeOfSeq DEF DeviceInv, DeviceTypeOK, QueuesOK
      <4>2. QED
        BY <2>4, <4>1 DEF Mentions, Answers
    <3>2. QED
      BY <2>2, <3>1 DEF VerifiedMeansReset, Handling
  <2>11. /\ HostBeingResolved' /\ SessionJobs' /\ TrustIsBacked'
         /\ SessionAfterReset'
    BY <2>2
    DEF HostBeingResolved, SessionJobs, TrustIsBacked, SessionAfterReset, IsUnlocked
  <2>12. QED
    BY <2>7, <2>9, <2>10, <2>11 DEF DeviceInv, Handling
<1>3. QED
  BY <1>1, <1>2

\* From the right PIN to the session.
LEMMA OpeningKeeps ==
    ASSUME DeviceInv, Handling, auth.tag \in {"VerifyingPin", "AwaitingPassphrase"},
           jobs = <<>>, disk.failed = 0, NEW n \in RetryCount,
           policy.pin_exhaustion = "Wipe" => n < MaxPinAttempts,
           \/ OpenSession(n)
           \/ /\ auth' = Attempt("AwaitingPassphrase", auth.trust, n)
              /\ effect'.tag \notin Backend
              /\ UNCHANGED <<lifecycle, flow, policy>>
    PROVE  DeviceInv'
<1>1. /\ auth'.tag \in {"AwaitingPassphrase", "OpeningSession"}
      /\ auth'.host = auth.host /\ auth'.id = auth.id /\ auth'.trust = auth.trust
      /\ auth'.failed = n
      /\ UNCHANGED <<lifecycle, flow, policy>>
  BY DEF OpenSession, Attempt
<1>2. flow = Idle
  BY DEF DeviceInv, SessionNeedsWallet, IsUnlocked
<1>3. effect'.tag \in Backend => effect' = AttemptJob("OpenSession")
  BY DEF OpenSession, AttemptJob
<1>4. policy.pin_exhaustion = "Wipe" => FailedAttempts(auth') < MaxPinAttempts
  BY <1>1 DEF FailedAttempts
<1>5. SessionNeedsWallet' /\ BudgetKept' /\ PersistedMeansHeld'
  BY <1>1, <1>2, <1>3, <1>4, AttemptFrame DEF AttemptJob
<1>6. AttemptAlone'
  <2>1. CASE OpenSession(n)
    <3>1. /\ effect' = AttemptJob("OpenSession") /\ effect'.tag = "OpenSession"
          /\ auth'.tag = "OpeningSession"
      BY <2>1 DEF OpenSession, Attempt, AttemptJob
    <3>2. jobs' = <<effect'>>
      BY <3>1, NewestJob DEF DeviceInv, DeviceTypeOK, Handling, Backend
    <3>3. QED
      BY <1>1, <3>1, <3>2 DEF AttemptAlone, AttemptJob
  <2>2. CASE ~OpenSession(n)
    BY <2>2 DEF AttemptAlone, Attempt, Handling, Submit
  <2>3. QED
    BY <2>1, <2>2
<1>7. AttemptIsBacked' /\ SessionAfterReset'
  BY <1>1 DEF DeviceInv, AttemptIsBacked, SessionAfterReset, Handling
<1>8. /\ HostBeingResolved' /\ VerifiedMeansReset' /\ SessionJobs'
      /\ TrustIsBacked'
  BY <1>1
  DEF HostBeingResolved, VerifiedMeansReset, SessionJobs, TrustIsBacked, IsUnlocked
<1>9. QED
  BY <1>5, <1>6, <1>7, <1>8 DEF DeviceInv, Handling

LEMMA PinVerifiedKeeps ==
    ASSUME DeviceInv, Handling, NEW a \in Range(answers), a.tag = "PinVerified",
           PinVerified(a.id)
    PROVE  DeviceInv'
<1>1. CASE PinVerifiedRefusal(a.id) # Accepted
  BY <1>1, RefusedKeeps DEF PinVerified, Reject, Rejection, Backend
<1>2. CASE PinVerifiedRefusal(a.id) = Accepted
  <2>1. auth.tag = "VerifyingPin" /\ auth.id = a.id
    BY <1>2 DEF PinVerifiedRefusal, CallbackRefusal, Accepted
  <2>2. jobs = <<>> /\ disk.failed = 0
    BY <2>1 DEF DeviceInv, VerifiedMeansReset
  <2>3. 0 \in RetryCount /\ 0 < MaxPinAttempts
    BY RetryAssumption DEF RetryCount
  <2>4. CASE OpenSession(0)
    BY <2>1, <2>2, <2>3, <2>4, OpeningKeeps
  <2>5. CASE ~OpenSession(0)
    <3>1. /\ auth' = Attempt("AwaitingPassphrase", auth.trust, 0)
          /\ effect'.tag \notin Backend
          /\ UNCHANGED <<lifecycle, flow, policy>>
      BY <1>2, <2>5 DEF PinVerified, Backend
    <3>2. QED
      BY <2>1, <2>2, <2>3, <3>1, OpeningKeeps
  <2>6. QED
    BY <2>4, <2>5
<1>3. QED
  BY <1>1, <1>2

LEMMA LockRests == ASSUME DeviceInv, LockWallet PROVE Rests
<1>1. auth \in AuthState
  BY DEF DeviceInv, DeviceTypeOK
<1>2. FailedAttempts(auth') = FailedAttempts(auth)
  BY <1>1 DEF LockWallet, FailedAttempts, Locked
<1>3. auth'.tag = IF IsProvisioned THEN "Locked" ELSE "Unavailable"
  BY DEF LockWallet, Locked, DeviceInv, SessionNeedsWallet
<1>4. effect'.tag \in Backend => effect'.tag = "ClearSensitiveState"
  BY DEF LockWallet, NoEffect, Backend
<1>5. QED
  BY <1>2, <1>3, <1>4 DEF Rests, LockWallet, DeviceInv, BudgetKept

LEMMA WipeRests == ASSUME StartWipe PROVE Rests
  BY DEF StartWipe, Rests, Backend

LEMMA PinRejectedKeeps ==
    ASSUME DeviceInv, Handling, NEW id \in Ids, NEW n \in RetryCount,
           PinRejected(id, n)
    PROVE  DeviceInv'
<1>1. CASE PinRejectedRefusal(id, n) # Accepted
  BY <1>1, RefusedKeeps DEF PinRejected, Reject, Rejection, Backend
<1>2. CASE PinRejectedRefusal(id, n) = Accepted /\ StartWipe
  BY <1>2, WipeRests, RestKeeps
<1>3. CASE PinRejectedRefusal(id, n) = Accepted /\ ~StartWipe
  <2>1. auth.tag = "VerifyingPin"
    BY <1>3 DEF PinRejectedRefusal, CallbackRefusal, Accepted
  <2>2. IsProvisioned /\ flow = Idle
    BY <2>1 DEF DeviceInv, SessionNeedsWallet, IsUnlocked
  <2>3. /\ ~(IsExhausted(n) /\ policy.pin_exhaustion = "Wipe")
        /\ auth' = Locked(n) /\ effect'.tag \notin Backend
        /\ UNCHANGED <<lifecycle, flow, policy>>
    BY <1>3 DEF PinRejected, Backend
  <2>4. policy.pin_exhaustion = "Wipe" => FailedAttempts(auth') < MaxPinAttempts
    BY <2>3, RetryAssumption DEF IsExhausted, FailedAttempts, Locked, RetryCount
  <2>5. Rests
    BY <2>2, <2>3, <2>4 DEF Rests, Locked
  <2>6. QED
    BY <2>5, RestKeeps
<1>4. QED
  BY <1>1, <1>2, <1>3

LEMMA PassphraseKeeps ==
    ASSUME DeviceInv, Handling, NEW id \in Ids,
           PassphraseProvided(id) \/ PassphraseSkipped(id)
    PROVE  DeviceInv'
<1>1. CASE auth.tag = "AwaitingPassphrase" /\ OpenSession(auth.failed)
  <2>1. jobs = <<>> /\ disk.failed = 0
    BY <1>1 DEF DeviceInv, AttemptAlone, SessionAfterReset
  <2>2. /\ auth.failed \in RetryCount
        /\ policy.pin_exhaustion = "Wipe" => auth.failed < MaxPinAttempts
    BY <1>1 DEF DeviceInv, DeviceTypeOK, AuthState, BudgetKept, FailedAttempts
  <2>3. QED
    BY <1>1, <2>1, <2>2, OpeningKeeps
<1>2. CASE ~(auth.tag = "AwaitingPassphrase" /\ OpenSession(auth.failed))
  <2>1. UNCHANGED wallet /\ effect'.tag = "Reject"
    BY <1>2
    DEF PassphraseProvided, PassphraseSkipped, PassphraseRefusal, SkipRefusal,
        CallbackRefusal, Accepted, Reject, Rejection
  <2>2. QED
    BY <2>1, RefusedKeeps DEF Backend
<1>3. QED
  BY <1>1, <1>2

LEMMA OpenedKeeps ==
    ASSUME DeviceInv, Handling, NEW id \in Ids, NEW s \in Ids, NEW w \in Wallets,
           SessionOpened(id, s, w)
    PROVE  DeviceInv'
<1> DEFINE refusal == CallbackRefusal(auth.tag = "OpeningSession", auth.id, id)
<1>1. CASE refusal # Accepted
  BY <1>1, RefusedKeeps DEF SessionOpened, Reject, Rejection, Backend
<1>2. CASE refusal = Accepted
  <2>1. /\ auth.tag = "OpeningSession"
        /\ auth' = [tag |-> "Unlocked", session |-> s, host |-> auth.host,
                    wallet |-> w, trust |-> auth.trust]
        /\ effect' = [tag |-> "SessionReady"]
        /\ UNCHANGED <<lifecycle, flow, policy>>
    BY <1>2 DEF SessionOpened, CallbackRefusal, Accepted
  <2>2. flow = Idle /\ jobs' = jobs
    BY <2>1
    DEF DeviceInv, SessionNeedsWallet, IsUnlocked, Handling, Submit, Backend
  <2>3. policy.pin_exhaustion = "Wipe" => FailedAttempts(auth') < MaxPinAttempts
    BY <2>1, RetryAssumption DEF FailedAttempts
  <2>4. SessionNeedsWallet' /\ BudgetKept' /\ PersistedMeansHeld'
    BY <2>1, <2>2, <2>3, AttemptFrame DEF Backend
  <2>5. SessionJobs'
    <3>1. \A i \in DOMAIN jobs : jobs[i].tag = "OpenSession"
      BY <2>1 DEF DeviceInv, AttemptAlone, AttemptJob
    <3>2. QED
      BY <2>2, <3>1 DEF SessionJobs
  <2>6. TrustIsBacked' /\ SessionAfterReset'
    BY <2>1
    DEF DeviceInv, AttemptIsBacked, TrustIsBacked, SessionAfterReset, Handling
  <2>7. /\ HostBeingResolved' /\ AttemptAlone' /\ VerifiedMeansReset'
        /\ AttemptIsBacked'
    BY <2>1
    DEF HostBeingResolved, AttemptAlone, VerifiedMeansReset, AttemptIsBacked
  <2>8. QED
    BY <2>4, <2>5, <2>6, <2>7 DEF DeviceInv, Handling
<1>3. QED
  BY <1>1, <1>2

-----------------------------------------------------------------------------
(* Events of a flow *)

\* The session stays and its flow moves, without touching the wallet store or
\* the retry counter.
LEMMA FlowFrame ==
    ASSUME DeviceInv, Handling, UNCHANGED <<lifecycle, auth, policy>>, IsUnlocked,
           ~IsPersisting, effect'.tag \in Backend =>
               effect'.tag \in {"PersistTrustedHost", "ChangePin",
                               "PersistSettingChange"}
    PROVE  /\ SessionNeedsWallet' /\ BudgetKept' /\ HostBeingResolved'
           /\ AttemptAlone' /\ VerifiedMeansReset' /\ AttemptIsBacked'
           /\ TrustIsBacked' /\ SessionAfterReset'
           /\ \A i \in DOMAIN jobs' :
                 \/ jobs'[i].tag \notin {"VerifyPin", "PersistSettingChange"}
                 \/ /\ i = Len(jobs') /\ jobs'[i] = effect'
                    /\ effect'.tag \in Backend
<1>1. \/ jobs' = jobs
      \/ /\ Range(jobs') = Range(jobs) \cup {effect'}
         /\ \A i \in DOMAIN jobs' :
               \/ i \in DOMAIN jobs /\ jobs'[i] = jobs[i]
               \/ i = Len(jobs') /\ jobs'[i] = effect'
         /\ effect'.tag \in Backend
  BY NewestJob DEF DeviceInv, DeviceTypeOK, Handling, Submit
<1>2. \A i \in DOMAIN jobs : jobs[i].tag \notin {"VerifyPin", "PersistSettingChange"}
  BY DEF DeviceInv, SessionJobs
<1>3. \A i \in DOMAIN jobs' :
          \/ jobs'[i].tag \notin {"VerifyPin", "PersistSettingChange"}
          \/ i = Len(jobs') /\ jobs'[i] = effect' /\ effect'.tag \in Backend
  BY <1>1, <1>2
<1>4. SessionNeedsWallet'
  BY <1>1 DEF DeviceInv, SessionNeedsWallet, Handling, IsProvisioned, IsUnlocked
<1>5. BudgetKept' /\ TrustIsBacked' /\ SessionAfterReset'
  BY DEF DeviceInv, BudgetKept, FailedAttempts, TrustIsBacked, SessionAfterReset,
         IsPersisting, IsUnlocked, Handling
<1>6. /\ HostBeingResolved' /\ AttemptAlone' /\ VerifiedMeansReset'
      /\ AttemptIsBacked'
  BY DEF IsUnlocked, HostBeingResolved, AttemptAlone, VerifiedMeansReset,
         AttemptIsBacked
<1>7. QED
  BY <1>3, <1>4, <1>5, <1>6

\* Pairings, PIN changes and the end of a review.
LEMMA FlowKeeps ==
    ASSUME DeviceInv, Handling, UNCHANGED <<lifecycle, auth, policy>>, IsUnlocked,
           ~IsPersisting, flow'.tag # "Settings", effect'.tag \in Backend =>
               effect'.tag \in {"PersistTrustedHost", "ChangePin"}
    PROVE  DeviceInv'
<1>1. SessionJobs'
  BY FlowFrame DEF SessionJobs
<1>2. PersistedMeansHeld'
  BY DEF PersistedMeansHeld
<1>3. QED
  BY <1>1, <1>2, FlowFrame DEF DeviceInv, Handling

LEMMA RequestAccepted ==
    ASSUME NEW host, RequestRefusal(host) = Accepted
    PROVE  IsUnlocked /\ flow = Idle /\ ~IsPersisting
  BY DEF RequestRefusal, Accepted, IsPersisting, Idle

LEMMA PairingKeeps ==
    ASSUME DeviceInv, Handling, NEW id \in Ids, PairingHandlers(id)
    PROVE  DeviceInv'
<1>1. CASE UNCHANGED wallet /\ effect'.tag = "Reject"
  BY <1>1, RefusedKeeps DEF Backend
<1>2. CASE ~(UNCHANGED wallet /\ effect'.tag = "Reject")
  <2>1. \/ \E h \in Hosts : RequestRefusal(h) = Accepted
        \/ IsPairing
    BY <1>2
    DEF PairingHandlers, PairingRequested, PairingConfirmed, PairingRejected,
        TrustedHostPersisted, EndPairing, CallbackRefusal, Accepted, Reject,
        Rejection
  <2>2. IsUnlocked /\ ~IsPersisting
    BY <2>1, RequestAccepted
    DEF IsPairing, IsPersisting, Idle, DeviceInv, SessionNeedsWallet
  <2>3. UNCHANGED <<lifecycle, auth, policy>> /\ flow'.tag \in {"Idle", "Pairing"}
    BY <1>2
    DEF PairingHandlers, PairingRequested, PairingConfirmed, PairingRejected,
        TrustedHostPersisted, EndPairing, Idle, Reject, Rejection
  <2>4. effect'.tag \in Backend => effect'.tag = "PersistTrustedHost"
    BY <1>2
    DEF PairingHandlers, PairingRequested, PairingConfirmed, PairingRejected,
        TrustedHostPersisted, EndPairing, Backend, Reject, Rejection
  <2>5. QED
    BY <2>2, <2>3, <2>4, FlowKeeps
<1>3. QED
  BY <1>1, <1>2

LEMMA PinChangeKeeps ==
    ASSUME DeviceInv, Handling, NEW id \in Ids,
           PinChanged(id) \/ \E h \in Hosts : ChangePinRequested(id, h)
    PROVE  DeviceInv'
<1>1. CASE UNCHANGED wallet /\ effect'.tag = "Reject"
  BY <1>1, RefusedKeeps DEF Backend
<1>2. CASE ~(UNCHANGED wallet /\ effect'.tag = "Reject")
  <2>1. (\E h \in Hosts : RequestRefusal(h) = Accepted) \/ IsMaintenance
    BY <1>2
    DEF PinChanged, PinChangedRefusal, ChangePinRequested, MaintenanceRequested,
        CallbackRefusal, Accepted, Reject, Rejection
  <2>2. IsUnlocked /\ ~IsPersisting
    BY <2>1, RequestAccepted
    DEF IsMaintenance, IsPersisting, Idle, DeviceInv, SessionNeedsWallet
  <2>3. /\ UNCHANGED <<lifecycle, auth, policy>>
        /\ flow'.tag \in {"Idle", "Maintenance"}
        /\ effect'.tag \in Backend => effect'.tag = "ChangePin"
    BY <1>2
    DEF PinChanged, ChangePinRequested, MaintenanceRequested, Idle, Backend,
        Reject, Rejection
  <2>4. QED
    BY <2>2, <2>3, FlowKeeps
<1>3. QED
  BY <1>1, <1>2

LEMMA ReviewKeeps ==
    ASSUME DeviceInv, Handling, NEW id \in Ids, Fresh(id), NEW h \in Hosts,
           NEW c \in Changes, SettingChangeRequested(id, h, c)
    PROVE  DeviceInv'
<1>1. CASE RequestRefusal(h) # Accepted
  BY <1>1, RefusedKeeps DEF SettingChangeRequested, Reject, Rejection, Backend
<1>2. CASE RequestRefusal(h) = Accepted
  <2>1. IsUnlocked /\ ~IsPersisting
    BY <1>2, RequestAccepted
  <2>2. /\ flow' = [tag |-> "Settings", id |-> id, host |-> h, change |-> c,
                    stage |-> "Reviewing"]
        /\ effect'.tag = "RenderSettingChange"
        /\ UNCHANGED <<lifecycle, auth, policy>>
    BY <1>2 DEF SettingChangeRequested
  <2>3. PersistedMeansHeld'
    <3>1. \A a \in Range(answers') : a \in Answers /\ ~Mentions(a, id)
      BY RangeOfSeq DEF Fresh, Handling, Range, DeviceTypeOK, QueuesOK
    <3>2. \A a \in Range(answers') : ~(a.tag = "SettingChangePersisted" /\ a.id = id)
      BY <3>1 DEF Mentions, Answers
    <3>3. QED
      BY <2>2, <3>2 DEF PersistedMeansHeld
  <2>4. SessionJobs'
    BY <2>1, <2>2, FlowFrame DEF SessionJobs, Backend
  <2>5. QED
    BY <2>1, <2>2, <2>3, <2>4, FlowFrame DEF DeviceInv, Handling, Backend
<1>3. QED
  BY <1>1, <1>2

LEMMA ApprovalKeeps ==
    ASSUME DeviceInv, Handling, NEW id \in Ids, SettingChangeConfirmed(id)
    PROVE  DeviceInv'
<1>1. CASE ConfirmRefusal(id) # Accepted
  BY <1>1, RefusedKeeps DEF SettingChangeConfirmed, Reject, Rejection, Backend
<1>2. CASE ConfirmRefusal(id) = Accepted
  <2>1. /\ flow.tag = "Settings" /\ flow.stage = "Reviewing" /\ flow.id = id
        /\ IsUnlocked /\ ~IsPersisting
    BY <1>2
    DEF ConfirmRefusal, SettingsRefusal, CallbackRefusal, Accepted, IsPersisting
  <2>2. /\ flow'.tag = "Settings" /\ flow'.stage = "Persisting"
        /\ flow'.id = flow.id /\ flow'.change = flow.change
    BY <1>2, <2>1 DEF SettingChangeConfirmed, DeviceInv, DeviceTypeOK, FlowState
  <2>3. /\ effect' = [tag |-> "PersistSettingChange", id |-> id,
                      change |-> flow.change]
        /\ UNCHANGED <<lifecycle, auth, policy>>
    BY <1>2 DEF SettingChangeConfirmed
  <2>4. PersistedMeansHeld'
    <3>1. \A a \in Range(answers) :
              ~(a.tag = "SettingChangePersisted" /\ a.id = flow.id)
      BY <2>1 DEF DeviceInv, PersistedMeansHeld
    <3>2. QED
      BY <2>2, <3>1 DEF PersistedMeansHeld, Handling
  <2>5. SessionJobs'
    BY <2>1, <2>2, <2>3, FlowFrame DEF SessionJobs, IsPersisting, Backend
  <2>6. QED
    BY <2>1, <2>3, <2>4, <2>5, FlowFrame DEF DeviceInv, Handling, Backend
<1>3. QED
  BY <1>1, <1>2

LEMMA DeclineKeeps ==
    ASSUME DeviceInv, Handling, NEW id \in Ids, SettingChangeRejected(id)
    PROVE  DeviceInv'
<1>1. CASE SettingsRefusal(id, "Reviewing") # Accepted
  BY <1>1, RefusedKeeps DEF SettingChangeRejected, Reject, Rejection, Backend
<1>2. CASE SettingsRefusal(id, "Reviewing") = Accepted
  <2>1. IsUnlocked /\ ~IsPersisting
    BY <1>2
    DEF SettingsRefusal, CallbackRefusal, Accepted, IsPersisting, Idle, DeviceInv,
        SessionNeedsWallet
  <2>2. /\ flow'.tag = "Idle" /\ effect'.tag \notin Backend
        /\ UNCHANGED <<lifecycle, auth, policy>>
    BY <1>2 DEF SettingChangeRejected, Idle, Backend
  <2>3. QED
    BY <2>1, <2>2, FlowKeeps
<1>3. QED
  BY <1>1, <1>2

\* A report the settings flow waits for finds the change on the disk.
LEMMA AwaitedReport ==
    ASSUME DeviceInv, NEW a \in Range(answers), a.tag = "SettingChangePersisted",
           SettingsRefusal(a.id, "Persisting") = Accepted
    PROVE  /\ IsPersisting /\ IsUnlocked /\ IsProvisioned /\ jobs = <<>>
           /\ flow.change \in Changes /\ Holds(disk, flow.change)
<1>1. flow.tag = "Settings" /\ flow.id = a.id /\ IsPersisting
  BY DEF SettingsRefusal, CallbackRefusal, Accepted, IsPersisting
<1>2. IsUnlocked /\ IsProvisioned
  BY <1>1 DEF DeviceInv, SessionNeedsWallet, Idle, IsUnlocked
<1>3. flow.change \in Changes
  BY <1>1 DEF DeviceInv, DeviceTypeOK, FlowState
<1>4. QED
  BY <1>1, <1>2, <1>3 DEF DeviceInv, PersistedMeansHeld

\* What a provisioned wallet becomes when a change is applied.
LEMMA AppliedWallet ==
    ASSUME DeviceInv, IsProvisioned, NEW c \in Changes, ApplyChange(c)
    PROVE  /\ lifecycle'.tag = "Provisioned"
           /\ lifecycle'.metadata.origin = lifecycle.metadata.origin
           /\ lifecycle'.metadata.backup = lifecycle.metadata.backup
           /\ c.tag = "Passphrase" => lifecycle'.metadata.passphrase = c.mode
           /\ c.tag # "Passphrase" => lifecycle' = lifecycle
<1>1. lifecycle \in [tag: {"Provisioned"}, metadata: WalletMetadata]
  BY DEF DeviceInv, DeviceTypeOK, Lifecycle, IsProvisioned
<1>2. QED
  BY <1>1 DEF ApplyChange, IsProvisioned, WalletMetadata

LEMMA AppliedKeeps ==
    ASSUME DeviceInv, Handling, NEW a \in Range(answers),
           a.tag = "SettingChangePersisted", SettingChangePersisted(a.id)
    PROVE  DeviceInv'
<1>1. CASE SettingsRefusal(a.id, "Persisting") # Accepted
  BY <1>1, RefusedKeeps DEF SettingChangePersisted, Reject, Rejection, Backend
<1>2. CASE SettingsRefusal(a.id, "Persisting") = Accepted
  <2>1. /\ IsPersisting /\ IsUnlocked /\ IsProvisioned /\ jobs = <<>>
        /\ flow.change \in Changes
    BY <1>2, AwaitedReport
  <2>2. flow' = Idle /\ ApplyChange(flow.change) /\ effect'.tag \notin Backend
    BY <1>2 DEF SettingChangePersisted, Rejection, Backend
  <2>3. jobs' = <<>>
    BY <2>1, <2>2 DEF Handling, Submit
  <2>4. /\ auth'.tag = "Unlocked" /\ auth'.host = auth.host
        /\ auth'.trust = IF Downgrades(flow.change) THEN "Untrusted" ELSE auth.trust
    BY <2>1, <2>2
    DEF ApplyChange, IsUnlocked, DeviceInv, DeviceTypeOK, AuthState
  <2>5. SessionNeedsWallet'
    <3>1. /\ lifecycle'.tag = "Provisioned"
          /\ lifecycle'.metadata.origin = lifecycle.metadata.origin
          /\ lifecycle'.metadata.backup = lifecycle.metadata.backup
      BY <2>1, <2>2, AppliedWallet
    <3>2. \A job \in Range(jobs') : job.tag # "WipeWallet"
      BY <2>3 DEF Range
    <3>3. QED
      BY <2>1, <2>2, <2>4, <3>1, <3>2
      DEF DeviceInv, SessionNeedsWallet, IsProvisioned, Handling
  <2>6. BudgetKept'
    BY <2>4, RetryAssumption DEF BudgetKept, FailedAttempts
  <2>7. TrustIsBacked' /\ SessionAfterReset'
    BY <2>1, <2>4
    DEF DeviceInv, TrustIsBacked, SessionAfterReset, IsUnlocked, Handling
  <2>8. SessionJobs' /\ PersistedMeansHeld'
    BY <2>2, <2>3 DEF SessionJobs, PersistedMeansHeld, Idle
  <2>9. /\ HostBeingResolved' /\ AttemptAlone' /\ VerifiedMeansReset'
        /\ AttemptIsBacked'
    BY <2>4
    DEF HostBeingResolved, AttemptAlone, VerifiedMeansReset, AttemptIsBacked
  <2>10. QED
    BY <2>5, <2>6, <2>7, <2>8, <2>9 DEF DeviceInv, Handling
<1>3. QED
  BY <1>1, <1>2

-----------------------------------------------------------------------------
(* Every event *)

\* The handlers this device runs start no setup and store no new wallet, and
\* all but one leave the policy and the wallet alone, unless to wipe it.
SetsUpNothing ==
    lifecycle'.tag # "Provisioning" /\ effect'.tag # "PersistProvisioning"
Conserves ==
    /\ UNCHANGED policy /\ lifecycle' \in {lifecycle, Empty, Wiping}
    /\ effect'.tag # "PersistProvisioning"

LEMMA SetupRefused ==
    ASSUME DeviceInv, NEW id \in Ids,
           \/ RecoveryMaterialCaptured(id) \/ KeyMaterialReady(id)
           \/ BackupShown(id) \/ BackupVerified(id) \/ PinConfigured(id)
           \/ ProvisioningPersisted(id)
    PROVE  UNCHANGED wallet /\ effect'.tag = "Reject"
<1>1. ~IsProvisioning
  BY DEF DeviceInv, DeviceTypeOK, IsProvisioning
<1>2. CASE RecoveryMaterialCaptured(id) \/ KeyMaterialReady(id)
  BY <1>1, <1>2
  DEF RecoveryMaterialCaptured, RecoveryMaterialRefusal, KeyMaterialReady,
      KeyMaterialRefusal, CallbackRefusal, Accepted, Reject, Rejection
<1>3. CASE BackupShown(id) \/ BackupVerified(id) \/ PinConfigured(id)
  BY <1>1, <1>3
  DEF BackupShown, BackupVerified, PinConfigured, AdvanceProvisioning,
      StageRefusal, CallbackRefusal, Accepted, Reject, Rejection
<1>4. CASE ProvisioningPersisted(id)
  BY <1>1, <1>4
  DEF ProvisioningPersisted, ProvisioningPersistedRefusal, CallbackRefusal,
      Accepted, Reject, Rejection
<1>5. QED
  BY <1>2, <1>3, <1>4

LEMMA ConservesSetsUpNothing == ASSUME DeviceInv, Conserves PROVE SetsUpNothing
  BY DEF DeviceInv, DeviceTypeOK, Conserves, SetsUpNothing, Empty, Wiping

LEMMA BoardConserves ==
    ASSUME DeviceInv, BoardHandlers
    PROVE  Conserves
<1>1. lifecycle.tag # "Provisioning"
  BY DEF DeviceInv, DeviceTypeOK
<1>2. QED
  BY <1>1
  DEF BoardHandlers, LockRequested, LockWallet, HostDisconnected, WipeCompleted,
      ResetToEmpty, RuntimeFailure, TamperDetected, StartWipe, Reject, Rejection,
      NoEffect, wallet, Conserves

LEMMA SessionConserves ==
    ASSUME NEW id \in Ids,
           \/ AuthHandlers(id) \/ PairingHandlers(id)
           \/ \E h \in Hosts, c \in Changes : SettingChangeRequested(id, h, c)
           \/ SettingChangeConfirmed(id) \/ SettingChangeRejected(id)
           \/ PinChanged(id) \/ \E h \in Hosts : ChangePinRequested(id, h)
    PROVE  Conserves
<1>1. CASE AuthHandlers(id)
  BY <1>1
  DEF AuthHandlers, UnlockRequested, HostTrustResolved, PinVerified, PinRejected,
      PassphraseProvided, PassphraseSkipped, SessionOpened, SessionExpired,
      OpenSession, LockWallet, StartWipe, Reject, Rejection, NoEffect, wallet,
      Conserves
<1>2. CASE PairingHandlers(id)
  BY <1>2
  DEF PairingHandlers, PairingRequested, PairingConfirmed, PairingRejected,
      TrustedHostPersisted, EndPairing, Reject, Rejection, wallet, Conserves
<1>3. CASE \/ \E h \in Hosts, c \in Changes : SettingChangeRequested(id, h, c)
           \/ SettingChangeConfirmed(id) \/ SettingChangeRejected(id)
  BY <1>3
  DEF SettingChangeRequested, SettingChangeConfirmed, SettingChangeRejected,
      Reject, Rejection, wallet, Conserves
<1>4. CASE PinChanged(id) \/ \E h \in Hosts : ChangePinRequested(id, h)
  BY <1>4
  DEF PinChanged, ChangePinRequested, MaintenanceRequested, Reject, Rejection,
      wallet, Conserves
<1>5. QED
  BY <1>1, <1>2, <1>3, <1>4

LEMMA AppliedSetsUpNothing ==
    ASSUME DeviceInv, NEW id \in Ids, SettingChangePersisted(id)
    PROVE  SetsUpNothing
<1>1. CASE SettingsRefusal(id, "Persisting") # Accepted
  BY <1>1
  DEF SettingChangePersisted, Reject, Rejection, wallet, SetsUpNothing, DeviceInv,
      DeviceTypeOK
<1>2. CASE SettingsRefusal(id, "Persisting") = Accepted
  <2>1. flow.change \in Changes /\ IsProvisioned
    BY <1>2
    DEF SettingsRefusal, CallbackRefusal, Accepted, DeviceInv, DeviceTypeOK,
        FlowState, SessionNeedsWallet, IsUnlocked, Idle
  <2>2. lifecycle'.tag = "Provisioned"
    BY <1>2, <2>1, AppliedWallet DEF SettingChangePersisted
  <2>3. QED
    BY <1>2, <2>2 DEF SettingChangePersisted, Rejection, SetsUpNothing
<1>3. QED
  BY <1>1, <1>2

\* The queues and the state of the device stay well-formed.
LEMMA EventTypes ==
    ASSUME DeviceInv, StateOK', SetsUpNothing, Submit, UNCHANGED disk,
           answers' \in Seq(Answers)
    PROVE  DeviceTypeOK'
<1>1. StateOK /\ jobs \in Seq(Jobs)
  BY DeviceStateOK DEF DeviceInv, DeviceTypeOK, QueuesOK
<1>2. effect' \in Effect
  BY DEF StateOK
<1>3. jobs' \in Seq(Jobs)
  BY <1>1, <1>2, JobTypes, QueueAppend DEF Submit, SetsUpNothing
<1>4. QED
  BY <1>3 DEF DeviceTypeOK, StateOK, QueuesOK, SetsUpNothing, DeviceInv

\* The board's events lock, wipe, end a wipe or do nothing.
LEMMA BoardKeeps ==
    ASSUME DeviceInv, Handling, BoardHandlers
    PROVE  DeviceInv'
<1> USE RefusedKeeps, RestKeeps, LockRests, WipeRests
<1>1. CASE LockRequested
  BY <1>1 DEF LockRequested
<1>2. ASSUME NEW h \in Hosts, HostDisconnected(h) PROVE DeviceInv'
  BY <1>2 DEF HostDisconnected, NoEffect, Backend
<1>3. CASE WipeCompleted
  <2>1. CASE lifecycle # Wiping
    BY <1>3, <2>1 DEF WipeCompleted, Reject, Rejection, Backend
  <2>2. CASE lifecycle = Wiping
    BY <1>3, <2>2 DEF WipeCompleted, ResetToEmpty, Rests, Backend
  <2>3. QED
    BY <2>1, <2>2
<1>4. CASE RuntimeFailure
  <2>1. lifecycle.tag # "Provisioning"
    BY DEF DeviceInv, DeviceTypeOK
  <2>2. CASE LockWallet
    BY <2>2
  <2>3. CASE ~LockWallet
    BY <1>4, <2>1, <2>3 DEF RuntimeFailure, NoEffect, Backend
  <2>4. QED
    BY <2>2, <2>3
<1>5. CASE TamperDetected
  BY <1>5 DEF TamperDetected, NoEffect, Backend
<1>6. QED
  BY <1>1, <1>2, <1>3, <1>4, <1>5 DEF BoardHandlers

\* An answer the reducer acts on or refuses.
LEMMA HandleSetsUpNothing ==
    ASSUME DeviceInv, NEW a \in Answers, Handle(a)
    PROVE  SetsUpNothing /\ (a.tag # "SettingChangePersisted" => Conserves)
<1>1. CASE a.tag \in {"WipeCompleted", "RuntimeFailure"}
  <2>1. BoardHandlers
    BY <1>1 DEF Handle, BoardHandlers
  <2>2. QED
    BY <2>1, BoardConserves, ConservesSetsUpNothing
<1>2. CASE a.tag = "SettingChangePersisted"
  <2>1. a.id \in Ids
    BY <1>2 DEF Answers
  <2>2. QED
    BY <1>2, <2>1, AppliedSetsUpNothing DEF Handle
<1>3. CASE a.tag \in {"RecoveryMaterialCaptured", "KeyMaterialReady", "BackupShown",
                      "BackupVerified", "PinConfigured", "ProvisioningPersisted"}
  <2>1. a.id \in Ids
    BY <1>3 DEF Answers
  <2>2. UNCHANGED wallet /\ effect'.tag = "Reject"
    BY <1>3, <2>1, SetupRefused DEF Handle
  <2>3. Conserves
    BY <2>2 DEF Conserves, wallet
  <2>4. QED
    BY <2>3, ConservesSetsUpNothing
<1>4. CASE a.tag \in {"HostTrustResolved", "PinVerified", "PinRejected",
                      "SessionOpened", "TrustedHostPersisted", "PinChanged"}
  <2>1. /\ a.id \in Ids
        /\ a.tag = "HostTrustResolved" => a.trust \in HostTrust
        /\ a.tag = "PinRejected" => a.failed_attempts \in RetryCount
        /\ a.tag = "SessionOpened" => a.wallet \in Wallets
    BY <1>4 DEF Answers
  <2>2. AuthHandlers(a.id) \/ PairingHandlers(a.id) \/ PinChanged(a.id)
    BY <1>4, <2>1 DEF Handle, AuthHandlers, PairingHandlers
  <2>3. QED
    BY <1>4, <2>1, <2>2, SessionConserves, ConservesSetsUpNothing
<1>5. QED
  BY <1>1, <1>2, <1>3, <1>4 DEF Handle

LEMMA HandleKeeps ==
    ASSUME DeviceInv, Handling, NEW a \in Range(answers), a \in Answers, Handle(a)
    PROVE  DeviceInv'
<1>1. CASE a.tag \in {"WipeCompleted", "RuntimeFailure"}
  BY <1>1, BoardKeeps DEF Handle, BoardHandlers
<1>2. CASE a.tag \notin {"WipeCompleted", "RuntimeFailure"}
  <2>1. /\ a.id \in Ids
        /\ a.tag = "PinRejected" => a.failed_attempts \in RetryCount
        /\ a.tag = "SessionOpened" => a.wallet \in Wallets
    BY <1>2 DEF Answers
  <2>2. CASE a.tag \in {"RecoveryMaterialCaptured", "KeyMaterialReady",
                        "BackupShown", "BackupVerified", "PinConfigured",
                        "ProvisioningPersisted"}
    <3>1. UNCHANGED wallet /\ effect'.tag = "Reject"
      BY <2>1, <2>2, SetupRefused DEF Handle
    <3>2. QED
      BY <3>1, RefusedKeeps DEF Backend
  <2>3. CASE a.tag \in {"HostTrustResolved", "PinVerified", "PinRejected",
                        "SessionOpened"}
    BY <2>1, <2>3, ResolvedKeeps, PinVerifiedKeeps, PinRejectedKeeps, OpenedKeeps
    DEF Handle
  <2>4. CASE a.tag \in {"TrustedHostPersisted", "SettingChangePersisted",
                        "PinChanged"}
    BY <2>1, <2>4, PairingKeeps, AppliedKeeps, PinChangeKeeps
    DEF Handle, PairingHandlers
  <2>5. QED
    BY <1>2, <2>2, <2>3, <2>4 DEF Handle
<1>3. QED
  BY <1>1, <1>2

\* Delivering an answer takes it out of the queue.
LEMMA Delivered ==
    ASSUME DeviceInv, NEW i \in DOMAIN answers, Receive(i)
    PROVE  /\ answers[i] \in Range(answers) /\ answers[i] \in Answers
           /\ Handle(answers[i]) /\ Handling
<1>1. /\ answers \in Seq(Answers) /\ answers' = RemoveAt(answers, i)
      /\ Handle(answers[i]) /\ Submit /\ UNCHANGED disk
  BY DEF DeviceInv, DeviceTypeOK, QueuesOK, Receive, Deliver
<1>2. /\ answers' \in Seq(Answers) /\ answers[i] \in Range(answers)
      /\ Range(answers') \subseteq Range(answers)
  BY <1>1, QueueRemove
<1>3. answers[i] \in Answers
  BY <1>1, ElementOfSeq, LenProperties
<1>4. StateOK' /\ SetsUpNothing
  BY <1>1, <1>3, HandleTypes, HandleSetsUpNothing, DeviceStateOK DEF DeviceInv
<1>5. QED
  BY <1>1, <1>2, <1>3, <1>4, EventTypes DEF Handling

\* An event of the host, the user or the board.
LEMMA InputHandling ==
    ASSUME DeviceInv, StateOK', SetsUpNothing, Input, UNCHANGED disk
    PROVE  Handling
  BY EventTypes DEF Input, Handling, DeviceInv, DeviceTypeOK, QueuesOK

LEMMA RequestInv ==
    ASSUME DeviceInv, NEW id \in Ids, NEW h \in Hosts, Request(id, h)
    PROVE  DeviceInv'
<1>0. /\ Fresh(id) /\ Input /\ UNCHANGED disk
      /\ \/ UnlockRequested(id, h) \/ PairingRequested(id, h)
         \/ \E c \in Changes : SettingChangeRequested(id, h, c)
         \/ ChangePinRequested(id, h)
  BY DEF Request
<1>1. StateOK
  BY DeviceStateOK DEF DeviceInv
<1>2. Conserves
  BY <1>0, SessionConserves DEF AuthHandlers, PairingHandlers
<1>3. StateOK'
  BY <1>0, <1>1, AuthTypes, PairingTypes, SettingsTypes, MaintenanceTypes
  DEF AuthHandlers, PairingHandlers, SettingsHandlers, MaintenanceHandlers
<1>4. Handling
  BY <1>0, <1>2, <1>3, ConservesSetsUpNothing, InputHandling
<1>5. QED
  BY <1>0, <1>4, UnlockKeeps, PairingKeeps, ReviewKeeps, PinChangeKeeps
  DEF PairingHandlers

LEMMA DecisionHandler ==
    ASSUME DeviceInv, Decision
    PROVE  \E id \in Ids :
              \/ PassphraseProvided(id) \/ PassphraseSkipped(id)
              \/ PairingConfirmed(id) \/ PairingRejected(id)
              \/ SettingChangeConfirmed(id) \/ SettingChangeRejected(id)
<1>1. auth.tag = "AwaitingPassphrase" => auth.id \in Ids
  BY DEF DeviceInv, DeviceTypeOK, AuthState
<1>2. IsPairing \/ flow.tag = "Settings" => flow.id \in Ids
  BY DEF DeviceInv, DeviceTypeOK, FlowState, IsPairing
<1>3. QED
  BY <1>1, <1>2 DEF Decision

LEMMA DecisionInv ==
    ASSUME DeviceInv, Decision
    PROVE  DeviceInv'
<1>0. PICK id \in Ids :
              \/ PassphraseProvided(id) \/ PassphraseSkipped(id)
              \/ PairingConfirmed(id) \/ PairingRejected(id)
              \/ SettingChangeConfirmed(id) \/ SettingChangeRejected(id)
  BY DecisionHandler
<1>1. StateOK /\ Input /\ UNCHANGED disk
  BY DeviceStateOK DEF DeviceInv, Decision
<1>2. Conserves
  BY <1>0, SessionConserves DEF AuthHandlers, PairingHandlers
<1>3. StateOK'
  BY <1>0, <1>1, AuthTypes, PairingTypes, SettingsTypes
  DEF AuthHandlers, PairingHandlers, SettingsHandlers
<1>4. Handling
  BY <1>1, <1>2, <1>3, ConservesSetsUpNothing, InputHandling
<1>5. QED
  BY <1>0, <1>4, PassphraseKeeps, PairingKeeps, ApprovalKeeps, DeclineKeeps
  DEF PairingHandlers

LEMMA DisturbanceInv ==
    ASSUME DeviceInv, Disturbance
    PROVE  DeviceInv'
<1>0. BoardHandlers /\ Input /\ UNCHANGED disk
  BY DEF Disturbance, BoardHandlers
<1>1. StateOK'
  BY <1>0, BoardTypes, DeviceStateOK DEF DeviceInv
<1>2. Handling
  BY <1>0, <1>1, BoardConserves, ConservesSetsUpNothing, InputHandling
<1>3. QED
  BY <1>0, <1>2, BoardKeeps

-----------------------------------------------------------------------------
(* The theorems *)

\* A device that rests with empty queues on what its disk holds.
Booted ==
    /\ disk \in Disk /\ disk.wallet.tag \in {"Empty", "Provisioned"}
    /\ lifecycle = disk.wallet /\ flow = Idle /\ policy = disk.policy
    /\ auth = IF disk.wallet.tag = "Provisioned" THEN Locked(0) ELSE Unavailable
    /\ effect = NoEffect /\ jobs = <<>> /\ answers = <<>>

LEMMA BootedInv == Booted => DeviceInv
<1> SUFFICES ASSUME Booted PROVE DeviceInv
  OBVIOUS
<1> USE DEF Booted
<1>1. jobs \in Seq(Jobs) /\ answers \in Seq(Answers)
  BY EmptySeq
<1>2. auth \in AuthState /\ flow \in FlowState /\ effect \in Effect
  BY RetryAssumption
  DEF AuthState, FlowState, Effect, Locked, Unavailable, Idle, NoEffect, RetryCount
<1>3. DeviceTypeOK
  BY <1>1, <1>2 DEF DeviceTypeOK, QueuesOK, Disk
<1>4. auth.tag = IF disk.wallet.tag = "Provisioned" THEN "Locked" ELSE "Unavailable"
  BY DEF Locked, Unavailable
<1>5. SessionNeedsWallet
  BY <1>4 DEF SessionNeedsWallet, IsProvisioned, Range
<1>6. BudgetKept
  BY RetryAssumption DEF BudgetKept, FailedAttempts, Locked, Unavailable
<1>7. /\ HostBeingResolved /\ AttemptAlone /\ VerifiedMeansReset
      /\ AttemptIsBacked /\ SessionJobs /\ PersistedMeansHeld
      /\ TrustIsBacked /\ SessionAfterReset
  BY <1>4
  DEF HostBeingResolved, AttemptAlone, VerifiedMeansReset, AttemptIsBacked,
      SessionJobs, PersistedMeansHeld, TrustIsBacked, SessionAfterReset,
      IsUnlocked, Idle
<1>8. QED
  BY <1>3, <1>5, <1>6, <1>7 DEF DeviceInv

LEMMA InitInv == ASSUME Init PROVE DeviceInv
<1>1. PICK m \in Modes : disk.wallet = Generated(m)
  BY DEF Init
<1>2. disk.wallet \in Lifecycle /\ disk.wallet.tag = "Provisioned"
  BY <1>1, ModesAssumption
  DEF Generated, Provisioned, Lifecycle, WalletMetadata, WalletOrigin, BackupStatus
<1>3. disk \in Disk
  BY <1>2, PoliciesAssumption, RetryAssumption DEF Init, Disk, RetryCount
<1>4. QED
  BY <1>2, <1>3, BootedInv DEF Init, Booted

LEMMA PowerLossInv == ASSUME DeviceInv, PowerLoss PROVE DeviceInv'
<1>1. Booted'
  BY DEF PowerLoss, Boot, DeviceInv, DeviceTypeOK, Booted
<1>2. QED
  BY <1>1, BootedInv, PTL

\* The reducer, the queues and the disk stay in step.
THEOREM DeviceInductive == Spec => []DeviceInv
<1>1. Init => DeviceInv
  BY InitInv
<1>2. DeviceInv /\ [Next]_vars => DeviceInv'
  <2> SUFFICES ASSUME DeviceInv, [Next]_vars PROVE DeviceInv'
    OBVIOUS
  <2>1. ASSUME NEW i \in DOMAIN answers, Receive(i) PROVE DeviceInv'
    BY <2>1, Delivered, HandleKeeps
  <2>2. CASE UNCHANGED vars
    <3>1. UNCHANGED <<lifecycle, auth, flow, policy, effect, jobs, answers, disk>>
      BY <2>2 DEF vars
    <3>2. DeviceTypeOK'
      BY <3>1 DEF DeviceInv, DeviceTypeOK, QueuesOK
    <3>3. /\ SessionNeedsWallet' /\ BudgetKept' /\ AttemptAlone'
          /\ AttemptIsBacked' /\ TrustIsBacked' /\ SessionAfterReset'
          /\ SessionJobs'
      BY <3>1
      DEF DeviceInv, SessionNeedsWallet, BudgetKept, AttemptAlone,
          AttemptIsBacked, TrustIsBacked, SessionAfterReset, SessionJobs,
          IsPersisting, IsUnlocked, IsProvisioned, FailedAttempts, AttemptJob,
          Downgrades
    <3>4. HostBeingResolved' /\ VerifiedMeansReset' /\ PersistedMeansHeld'
      BY <3>1
      DEF DeviceInv, HostBeingResolved, VerifiedMeansReset, PersistedMeansHeld,
          AttemptJob, IsPersisting
    <3>5. QED
      BY <3>2, <3>3, <3>4 DEF DeviceInv
  <2>3. QED
    BY <2>1, <2>2, RequestInv, DecisionInv, DisturbanceInv, PerformInv,
       PowerLossInv
    DEF Next
<1>3. QED
  BY <1>1, <1>2, PTL DEF Spec

\* A session that works as trusted has its host in the trusted-host store,
\* but for the moment in which the revocation it asked for is on its way back.
THEOREM TrustStaysBacked == Spec => []TrustIsBacked
<1>1. DeviceInv => TrustIsBacked
  BY DEF DeviceInv
<1>2. QED
  BY <1>1, DeviceInductive, PTL

\* No late PinVerified leads to a session while wrong attempts are recorded:
\* from the passphrase on the durable retry counter is zero.
THEOREM SessionsFollowReset == Spec => []SessionAfterReset
<1>1. DeviceInv => SessionAfterReset
  BY DEF DeviceInv
<1>2. QED
  BY <1>1, DeviceInductive, PTL

\* What a step may do to the policy and the wallet in RAM.
LEMMA StepConserves ==
    ASSUME DeviceInv, Next
    PROVE  \/ Conserves \/ UNCHANGED wallet \/ PowerLoss
           \/ \E i \in DOMAIN answers :
                 answers[i].tag = "SettingChangePersisted" /\ Receive(i)
<1>1. ASSUME NEW id \in Ids, NEW h \in Hosts, Request(id, h)
      PROVE  Conserves
  BY <1>1, SessionConserves DEF Request, AuthHandlers, PairingHandlers
<1>2. CASE Decision
  BY <1>2, DecisionHandler, SessionConserves DEF AuthHandlers, PairingHandlers
<1>3. CASE Disturbance
  BY <1>3, BoardConserves DEF Disturbance, BoardHandlers
<1>4. CASE Perform
  BY <1>4
  DEF Perform, ResolveTrust, RightPin, WrongPin, StartSession, SaveHost,
      SaveSetting, SavePin, Erase, Clear, Answer, AnswerAs, Done
<1>5. ASSUME NEW i \in DOMAIN answers, Receive(i),
             answers[i].tag # "SettingChangePersisted"
      PROVE  Conserves
  BY <1>5, Delivered, HandleSetsUpNothing
<1>6. QED
  BY <1>1, <1>2, <1>3, <1>4, <1>5 DEF Next

\* A policy field or a passphrase mode takes a new value in RAM only when the
\* disk already holds it.
THEOREM NothingAppliedBeforePersisted == Spec => AppliedAfterPersisted
<1> DEFINE Applied ==
        /\ \A f \in DOMAIN policy :
              policy'[f] # policy[f] => policy'[f] = disk.policy[f]
        /\ lifecycle' # lifecycle /\ lifecycle'.tag = "Provisioned" =>
              lifecycle' = disk.wallet
<1>1. DeviceInv /\ [Next]_vars => [Applied]_vars
  <2> SUFFICES ASSUME DeviceInv, Next PROVE Applied
    OBVIOUS
  <2>1. CASE Conserves
    BY <2>1 DEF Conserves, Empty, Wiping
  <2>2. CASE UNCHANGED wallet
    BY <2>2 DEF wallet
  <2>3. CASE PowerLoss
    BY <2>3 DEF PowerLoss, Boot
  <2>4. ASSUME NEW i \in DOMAIN answers, Receive(i),
               answers[i].tag = "SettingChangePersisted"
        PROVE  Applied
    <3> DEFINE a == answers[i]
    <3>1. a \in Range(answers) /\ SettingChangePersisted(a.id)
      BY <2>4, Delivered DEF Handle
    <3>2. CASE SettingsRefusal(a.id, "Persisting") # Accepted
      BY <3>1, <3>2 DEF SettingChangePersisted, Reject, wallet
    <3>3. CASE SettingsRefusal(a.id, "Persisting") = Accepted
      <4>1. /\ IsProvisioned /\ flow.change \in Changes
            /\ Holds(disk, flow.change)
        BY <2>4, <3>1, <3>3, AwaitedReport
      <4>2. ApplyChange(flow.change) /\ flow.change \in SettingChange
        BY <3>1, <3>3, <4>1, ChangesAssumption DEF SettingChangePersisted
      <4>3. \A f \in DOMAIN policy :
                policy'[f] # policy[f] => policy'[f] = disk.policy[f]
        BY <4>1, <4>2
        DEF ApplyChange, ApplySetting, Holds, SettingChange, SecuritySetting,
            DeviceInv, DeviceTypeOK, SecurityPolicy
      <4>4. lifecycle' # lifecycle => lifecycle' = disk.wallet
        <5>1. CASE flow.change.tag # "Passphrase"
          BY <4>1, <4>2, <5>1, AppliedWallet
        <5>2. CASE flow.change.tag = "Passphrase"
          <6>1. /\ lifecycle'.tag = "Provisioned"
                /\ lifecycle'.metadata.origin = lifecycle.metadata.origin
                /\ lifecycle'.metadata.backup = lifecycle.metadata.backup
                /\ lifecycle'.metadata.passphrase = flow.change.mode
            BY <4>1, <4>2, <5>2, AppliedWallet
          <6>2. /\ disk.wallet.tag = "Provisioned"
                /\ disk.wallet.metadata.origin = lifecycle.metadata.origin
                /\ disk.wallet.metadata.backup = lifecycle.metadata.backup
                /\ disk.wallet.metadata.passphrase = flow.change.mode
            BY <4>1, <5>2 DEF Holds, DeviceInv, SessionNeedsWallet
          <6>3. lifecycle' \in Lifecycle /\ disk.wallet \in Lifecycle
            BY <2>4, Delivered DEF Handling, DeviceTypeOK, DeviceInv, Disk
          <6>4. /\ lifecycle' \in [tag: {"Provisioned"}, metadata: WalletMetadata]
                /\ disk.wallet \in [tag: {"Provisioned"}, metadata: WalletMetadata]
            BY <6>1, <6>2, <6>3 DEF Lifecycle
          <6>5. lifecycle'.metadata = disk.wallet.metadata
            BY <6>1, <6>2, <6>4 DEF WalletMetadata
          <6>6. QED
            BY <6>4, <6>5
        <5>3. QED
          BY <5>1, <5>2
      <4>5. QED
        BY <4>3, <4>4
    <3>4. QED
      BY <3>2, <3>3
  <2>5. QED
    BY <2>1, <2>2, <2>3, <2>4, StepConserves
<1>2. QED
  BY <1>1, DeviceInductive, PTL DEF Spec, AppliedAfterPersisted

\* A rejection of the current attempt whose recorded total reaches the
\* threshold wipes the wallet: the count in RAM is always below the threshold
\* while the policy is to wipe, so that such a total is never taken for stale.
THEOREM ExhaustionWipes == Spec => ReportedExhaustionWipes
<1> DEFINE Wipes ==
        \A i \in DOMAIN answers :
          (/\ answers[i].tag = "PinRejected" /\ auth.tag = "VerifyingPin"
           /\ answers[i].id = auth.id
           /\ answers[i].failed_attempts >= MaxPinAttempts
           /\ policy.pin_exhaustion = "Wipe"
           /\ Receive(i)) => lifecycle' = Wiping
<1>1. DeviceInv /\ [Next]_vars => [Wipes]_vars
  <2> SUFFICES ASSUME DeviceInv, NEW i \in DOMAIN answers,
                      answers[i].tag = "PinRejected", auth.tag = "VerifyingPin",
                      answers[i].id = auth.id,
                      answers[i].failed_attempts >= MaxPinAttempts,
                      policy.pin_exhaustion = "Wipe", Receive(i)
               PROVE  lifecycle' = Wiping
    OBVIOUS
  <2> DEFINE n == answers[i].failed_attempts
  <2>1. n \in RetryCount /\ PinRejected(auth.id, n)
    BY Delivered DEF Handle, Answers
  <2>2. auth.failed \in RetryCount /\ auth.failed < MaxPinAttempts
    BY DEF DeviceInv, DeviceTypeOK, AuthState, BudgetKept, FailedAttempts
  <2>3. ~(n = 0 \/ n <= auth.failed) /\ IsExhausted(n)
    BY <2>1, <2>2, RetryAssumption DEF RetryCount, IsExhausted
  <2>4. PinRejectedRefusal(auth.id, n) = Accepted
    BY <2>3 DEF PinRejectedRefusal, CallbackRefusal, Accepted
  <2>5. QED
    BY <2>1, <2>3, <2>4 DEF PinRejected, StartWipe
<1>2. QED
  BY <1>1, DeviceInductive, PTL DEF Spec, ReportedExhaustionWipes
=============================================================================
