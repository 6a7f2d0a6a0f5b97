------------------------- MODULE SecretDeviceProofs -------------------------
(***************************************************************************)
(* The key lifecycle by itself, and the device with its root secret, for   *)
(* every instance: context ids name one seed, the backup is of the staged  *)
(* root, wiped roots do not return; a wallet that is called provisioned    *)
(* has its root, a generated one the root whose backup the user proved, a  *)
(* session works on it, and a wipe that ends with no other wipe asked for  *)
(* has erased it.                                                          *)
(*                                                                         *)
(* SecretInv is inductive.  A job moves the secrets and answers            *)
(* (PerformInv); an event only moves the reducer, which at most appends    *)
(* one job (HandleInv); a power loss leaves the store.                     *)
(***************************************************************************)
EXTENDS SecretDevice, HandlerLemmas

LEMMA SecretStateOK == ASSUME SecretTypeOK PROVE StateOK
  BY DEF SecretTypeOK, StateOK, Idle, FlowState

-----------------------------------------------------------------------------
(* The key lifecycle by itself *)

\* Staging, reading, committing and cancelling keep the invariant: they touch
\* neither the contexts nor the counter.
LEMMA StagingKeepsInv ==
    ASSUME KeyInv,
           \/ \E r \in Roots : BeginCreate(r) \/ BeginRecovery(r)
           \/ PendingMnemonic \/ CommitPending \/ CancelPending
    PROVE  KeyInv'
<1>1. UNCHANGED <<next_context_id, contexts>>
  BY DEF BeginCreate, BeginRecovery, Stage, Fail, PendingMnemonic,
         CommitPending, PersistFailed, CancelPending
<1>2. (ContextNamesOneSeed /\ IssuedBelowCounter)'
  BY <1>1 DEF KeyInv, ContextNamesOneSeed, IssuedBelowCounter
<1>3. KeyTypeOK'
  BY DEF KeyInv, KeyTypeOK, Errors, BeginCreate, BeginRecovery,
       Stage, Fail,
         PendingMnemonic, CommitPending, PersistFailed,
         CancelPending, Unstage
<1>4. BackupIsOfStagedRoot'
  BY DEF KeyInv, BackupIsOfStagedRoot, BeginCreate, BeginRecovery,
         StagingRefused, Stage, Fail, PendingMnemonic,
         CommitPending,
         PersistFailed, CancelPending, Unstage
<1>5. WipedRootsStayGone'
  <2>1. NoRoot \notin erased
    BY NoRootAssumption DEF KeyInv, KeyTypeOK
  <2>2. QED
    BY <2>1
    DEF KeyInv, WipedRootsStayGone, BeginCreate, BeginRecovery,
        Stage, Fail,
        PendingMnemonic, CommitPending, PersistFailed,
        CancelPending, Unstage
<1>6. QED
  BY <1>2, <1>3, <1>4, <1>5 DEF KeyInv

\* A new context takes the counter's id, which no issued context has, and
\* moves the counter past it.
LEMMA OpenKeepsInv ==
    ASSUME KeyInv, NEW p \in Passphrases, OpenContext(p)
    PROVE  KeyInv'
<1>1. CASE UNCHANGED <<root, pending, next_context_id, contexts, backup, erased>>
           /\ result' \in Errors
  BY <1>1 DEF KeyInv, KeyTypeOK, ContextNamesOneSeed,
       BackupIsOfStagedRoot,
              WipedRootsStayGone, IssuedBelowCounter
<1>2. CASE /\ root # NoRoot
           /\ next_context_id' = next_context_id + 1
           /\ next_context_id' \in 0..MaxContextId
           /\ contexts' = contexts \cup
                  {[id |-> next_context_id, root |-> root, passphrase |-> p]}
           /\ result' = "Ok"
           /\ UNCHANGED <<root, pending, backup, erased>>
  <2> DEFINE new == [id |-> next_context_id, root |-> root, passphrase |-> p]
  <2>1. new \in Contexts /\ new.id = next_context_id
    BY <1>2 DEF KeyInv, KeyTypeOK, Contexts
  <2>2. \A c \in contexts : c.id \in Nat /\ c.id < next_context_id
    BY DEF KeyInv, KeyTypeOK, Contexts, IssuedBelowCounter
  <2>3. next_context_id \in Nat
    BY DEF KeyInv, KeyTypeOK
  <2>4. KeyTypeOK'
    BY <1>2, <2>1 DEF KeyInv, KeyTypeOK
  <2>5. ContextNamesOneSeed'
    BY <1>2, <2>1, <2>2, <2>3 DEF KeyInv, ContextNamesOneSeed
  <2>6. IssuedBelowCounter'
    BY <1>2, <2>1, <2>2, <2>3 DEF IssuedBelowCounter
  <2>7. QED
    BY <1>2, <2>4, <2>5, <2>6
    DEF KeyInv, BackupIsOfStagedRoot, WipedRootsStayGone
<1>3. QED
  BY <1>1, <1>2 DEF OpenContext, Fail, Errors, CheckedAdd

\* Wipe and reboot drop the staged root; the contexts end with the counter.
LEMMA ResetKeepsInv ==
    ASSUME KeyInv, Wipe \/ Reboot
    PROVE  KeyInv'
<1>1. NoRoot \notin erased
  BY NoRootAssumption DEF KeyInv, KeyTypeOK
<1>2. KeyTypeOK'
  BY <1>1, ContextIdAssumption
  DEF KeyInv, KeyTypeOK, Wipe, WipeUnstages, Reboot,
      Unstage, Errors
<1>3. (ContextNamesOneSeed /\ IssuedBelowCounter)'
  BY DEF KeyInv, ContextNamesOneSeed, IssuedBelowCounter, Wipe,
       Reboot
<1>4. (BackupIsOfStagedRoot /\ WipedRootsStayGone)'
  BY <1>1
  DEF KeyInv, BackupIsOfStagedRoot, WipedRootsStayGone, Wipe,
      WipeUnstages,
      Reboot, Unstage
<1>5. QED
  BY <1>2, <1>3, <1>4 DEF KeyInv

\* Every call, failing or not, and every power loss keeps KeyInv.
THEOREM KeyInductive == KeySpec => []KeyInv
<1>1. KeyInit => KeyInv
  BY ContextIdAssumption
  DEF KeyInit, KeyInv, KeyTypeOK, ContextNamesOneSeed,
      BackupIsOfStagedRoot,
      WipedRootsStayGone, IssuedBelowCounter
<1>2. KeyInv /\ [KeyNext]_keyVars => KeyInv'
  <2> SUFFICES ASSUME KeyInv, [KeyNext]_keyVars PROVE KeyInv'
    OBVIOUS
  <2>1. CASE KeyNext
    BY <2>1, StagingKeepsInv, OpenKeepsInv, ResetKeepsInv DEF KeyNext
  <2>2. CASE UNCHANGED keyVars
    BY <2>2
    DEF keyVars, KeyInv, KeyTypeOK, ContextNamesOneSeed,
        BackupIsOfStagedRoot,
        WipedRootsStayGone, IssuedBelowCounter
  <2>3. QED
    BY <2>1, <2>2
<1>3. QED
  BY <1>1, <1>2, PTL DEF KeySpec

\* No two contexts opened since boot or wipe share an id, whatever the width
\* of the counter and however many opens fail.
THEOREM ContextsAreNamed == KeySpec => []ContextNamesOneSeed
  BY KeyInductive, PTL DEF KeyInv

\* The backup read on the device is always the one of the staged root.
THEOREM BackupsMatch == KeySpec => []BackupIsOfStagedRoot
  BY KeyInductive, PTL DEF KeyInv

\* A successful wipe leaves no way back to the old root.
THEOREM WipesAreFinal == KeySpec => []WipedRootsStayGone
  BY KeyInductive, PTL DEF KeyInv

\* Only an install, a cancel, a wipe or a reboot ends a staged root.
THEOREM StagedRootsAreKept == KeySpec => StagedRootIsNotLost
<1>1. ASSUME [KeyNext]_keyVars, pending # NoRoot, pending' # pending
      PROVE  \/ root' = pending /\ result' = "Ok"
             \/ CancelPending \/ Wipe \/ Reboot
  BY <1>1
  DEF KeyNext, keyVars, BeginCreate, BeginRecovery,
      StagingRefused, Fail, Stage,
      PendingMnemonic, CommitPending, PersistFailed, OpenContext
<1>2. QED
  BY <1>1, PTL DEF KeySpec, StagedRootIsNotLost

-----------------------------------------------------------------------------
(* Queues by position *)

LEMMA OldestLeaves ==
    ASSUME jobs \in Seq(Jobs), jobs # <<>>, jobs' = Tail(jobs)
    PROVE  /\ Len(jobs) \in Nat /\ 1 \in DOMAIN jobs /\ Len(jobs) \in DOMAIN jobs
           /\ Head(jobs) = jobs[1] /\ Head(jobs) \in Jobs
           /\ jobs' \in Seq(Jobs) /\ Len(jobs') = Len(jobs) - 1
           /\ \A i \in DOMAIN jobs' : /\ i \in Nat \ {0} /\ i + 1 \in DOMAIN jobs
                                      /\ jobs'[i] = jobs[i + 1]
           /\ \A i \in DOMAIN jobs : i # 1 => i - 1 \in DOMAIN jobs' /\ jobs'[i - 1] = jobs[i]
<1>1. Len(jobs) \in Nat \ {0} /\ DOMAIN jobs = 1..Len(jobs)
  BY EmptySeq, LenProperties
<1>2. Head(jobs) = jobs[1] /\ Head(jobs) \in Jobs
  BY HeadTailProperties
<1>3. /\ jobs' \in Seq(Jobs) /\ Len(jobs') = Len(jobs) - 1
      /\ \A i \in DOMAIN jobs' : i + 1 \in DOMAIN jobs /\ jobs'[i] = jobs[i + 1]
  BY QueueTail
<1>4. DOMAIN jobs' = 1..Len(jobs')
  BY <1>3, LenProperties
<1>5. QED
  BY <1>1, <1>2, <1>3, <1>4

LEMMA NewestJoins ==
    ASSUME NEW S, NEW q \in Seq(S), NEW x \in S
    PROVE  /\ Append(q, x) \in Seq(S)
           /\ Len(q) \in Nat /\ DOMAIN q = 1..Len(q)
           /\ Len(Append(q, x)) = Len(q) + 1
           /\ DOMAIN Append(q, x) = 1..(Len(q) + 1)
           /\ \A i \in DOMAIN q : Append(q, x)[i] = q[i]
           /\ Append(q, x)[Len(q) + 1] = x
<1>1. Append(q, x) \in Seq(S) /\ Len(Append(q, x)) = Len(q) + 1
  BY AppendProperties
<1>2. Len(q) \in Nat /\ DOMAIN q = 1..Len(q)
  BY LenProperties
<1>3. DOMAIN Append(q, x) = 1..(Len(q) + 1)
  BY <1>1, LenProperties
<1>4. QED
  BY <1>1, <1>2, <1>3, AppendProperties

\* Where the j-th element was before the i-th left.
Before(i, j) == IF j < i THEN j ELSE j + 1

LEMMA OneLeaves ==
    ASSUME NEW S, NEW q \in Seq(S), NEW i \in DOMAIN q
    PROVE  \A j \in DOMAIN RemoveAt(q, i) :
               /\ j \in Nat
               /\ Before(i, j) \in DOMAIN q /\ RemoveAt(q, i)[j] = q[Before(i, j)]
<1> DEFINE front == SubSeq(q, 1, i - 1)
           back == SubSeq(q, i + 1, Len(q))
<1>1. Len(q) \in Nat /\ DOMAIN q = 1..Len(q) /\ i \in 1..Len(q)
  BY LenProperties
<1>2. \A j \in 1..Len(q) : q[j] \in S
  BY ElementOfSeq
<1>3. /\ front \in Seq(S) /\ Len(front) = i - 1
      /\ \A j \in 1..(i - 1) : front[j] = q[j]
  BY <1>1, <1>2, SubSeqProperties
<1>4. /\ back \in Seq(S) /\ Len(back) = Len(q) - i
      /\ \A j \in 1..(Len(q) - i) : back[j] = q[i + j]
  <2>1. \A j \in (i + 1)..Len(q) : q[j] \in S
    BY <1>1, <1>2
  <2>2. /\ back \in Seq(S)
        /\ Len(back) = IF i + 1 <= Len(q) THEN Len(q) - (i + 1) + 1 ELSE 0
        /\ \A j \in 1..(Len(q) - (i + 1) + 1) : back[j] = q[(i + 1) + j - 1]
    BY <1>1, <2>1, SubSeqProperties
  <2>3. \A j \in 1..(Len(q) - i) : back[j] = q[i + j]
    <3> SUFFICES ASSUME NEW j \in 1..(Len(q) - i) PROVE back[j] = q[i + j]
      OBVIOUS
    <3> HIDE DEF back
    <3>1. j \in 1..(Len(q) - (i + 1) + 1) /\ (i + 1) + j - 1 = i + j
      BY <1>1
    <3>2. QED
      BY <2>2, <3>1
  <2> HIDE DEF back
  <2>4. QED
    BY <1>1, <2>2, <2>3
<1>5. RemoveAt(q, i) = front \o back
  BY DEF RemoveAt
<1> HIDE DEF front, back
<1>6. /\ RemoveAt(q, i) \in Seq(S) /\ Len(RemoveAt(q, i)) = Len(q) - 1
      /\ \A j \in 1..(Len(q) - 1) :
            RemoveAt(q, i)[j] = IF j <= i - 1 THEN front[j] ELSE back[j - (i - 1)]
  <2>1. Len(front) + Len(back) = Len(q) - 1
    BY <1>1, <1>3, <1>4
  <2>2. /\ front \o back \in Seq(S)
        /\ Len(front \o back) = Len(front) + Len(back)
        /\ \A j \in 1..(Len(front) + Len(back)) :
              (front \o back)[j] = IF j <= Len(front) THEN front[j]
                                   ELSE back[j - Len(front)]
    BY <1>3, <1>4, ConcatProperties
  <2>3. QED
    BY <1>3, <1>5, <2>1, <2>2
<1>7. DOMAIN RemoveAt(q, i) = 1..(Len(q) - 1)
  BY <1>6, LenProperties
<1>8. SUFFICES ASSUME NEW j \in 1..(Len(q) - 1)
               PROVE  /\ j \in Nat /\ Before(i, j) \in 1..Len(q)
                      /\ RemoveAt(q, i)[j] = q[Before(i, j)]
  BY <1>1, <1>7
<1>9. CASE j < i
  <2>1. j <= i - 1 /\ j \in 1..(i - 1) /\ j \in 1..Len(q)
    BY <1>1, <1>9
  <2>2. QED
    BY <1>3, <1>6, <1>9, <2>1 DEF Before
<1>10. CASE ~(j < i)
  <2>1. /\ j - (i - 1) \in 1..(Len(q) - i) /\ i + (j - (i - 1)) = j + 1
        /\ ~(j <= i - 1) /\ j + 1 \in 1..Len(q)
    BY <1>1, <1>10
  <2>2. RemoveAt(q, i)[j] = q[j + 1]
    BY <1>4, <1>6, <2>1
  <2>3. QED
    BY <1>10, <2>1, <2>2 DEF Before
<1>11. QED
  BY <1>9, <1>10

-----------------------------------------------------------------------------
(* Carrying out a job *)

\* The oldest job leaves, and a, which mentions no other id, is its answer if
\* it has one.
Answered(a) ==
    /\ jobs # <<>> /\ jobs' = Tail(jobs)
    /\ answers' \in {answers, Append(answers, a)} /\ a \in Answers
    /\ \A id : Mentions(a, id) => Mentions(Head(jobs), id)
    /\ UNCHANGED <<lifecycle, auth, flow, policy, effect>>

LEMMA AnswerJoins ==
    ASSUME SecretTypeOK, NEW a, Answered(a)
    PROVE  /\ answers' \in Seq(Answers)
           /\ \A k \in DOMAIN answers : k \in DOMAIN answers' /\ answers'[k] = answers[k]
           /\ \A k \in DOMAIN answers' :
                 \/ k \in DOMAIN answers /\ answers'[k] = answers[k]
                 \/ k = Len(answers) + 1 /\ answers'[k] = a
<1>1. answers \in Seq(Answers) /\ a \in Answers
  BY DEF SecretTypeOK, QueuesOK, Answered
<1>2. CASE answers' = answers
  BY <1>1, <1>2
<1>3. CASE answers' = Append(answers, a)
  BY <1>1, <1>3, NewestJoins
<1>4. QED
  BY <1>2, <1>3 DEF Answered

LEMMA AnswerTypes ==
    ASSUME SecretTypeOK, NEW a, Answered(a), next_context_id' \in 1..MaxContextId,
           stored' \in Lifecycle, stored'.tag \in {"Empty", "Provisioned"}
    PROVE  SecretTypeOK'
<1>1. jobs' \in Seq(Jobs)
  BY OldestLeaves DEF SecretTypeOK, QueuesOK, Answered
<1>2. QED
  BY <1>1, AnswerJoins DEF SecretTypeOK, QueuesOK, Answered

\* A setup still has one question or one answer.
LEMMA AnswerSettles ==
    ASSUME SecretInv, NEW a, Answered(a)
    PROVE  OneQuestion' /\ SetupAlone'
<1>0. SecretTypeOK /\ OneQuestion /\ SetupAlone /\ jobs \in Seq(Jobs)
      /\ lifecycle' = lifecycle
  BY DEF SecretInv, SecretTypeOK, QueuesOK, Answered
<1> SUFFICES ASSUME IsProvisioning PROVE OneQuestion' /\ SetupAlone'
  BY <1>0 DEF OneQuestion, SetupAlone, IsProvisioning
<1> DEFINE Own(m) == Mentions(m, lifecycle.id)
<1>1. /\ Len(jobs) \in Nat /\ 1 \in DOMAIN jobs
      /\ Head(jobs) = jobs[1] /\ Len(jobs') = Len(jobs) - 1
      /\ \A i \in DOMAIN jobs' : /\ i \in Nat \ {0} /\ i + 1 \in DOMAIN jobs
                                 /\ jobs'[i] = jobs[i + 1]
  BY <1>0, OldestLeaves DEF Answered
<1>2. /\ \A i \in DOMAIN jobs : Own(jobs[i]) =>
            /\ i = Len(jobs) /\ jobs[i].tag = Question[lifecycle.stage]
            /\ \A k \in DOMAIN answers : ~Own(answers[k])
      /\ \A i, k \in DOMAIN answers : Own(answers[i]) /\ Own(answers[k]) => i = k
  BY <1>0 DEF OneQuestion
<1>3. Own(a) => Own(jobs[1])
  BY <1>1 DEF Answered
<1>4. \A k \in DOMAIN answers' :
          \/ k \in DOMAIN answers /\ answers'[k] = answers[k]
          \/ k = Len(answers) + 1 /\ answers'[k] = a
  BY <1>0, AnswerJoins
<1> HIDE DEF Own
<1>5. Own(a) => /\ \A i \in DOMAIN jobs' : FALSE
                /\ \A k \in DOMAIN answers : ~Own(answers[k])
  <2> SUFFICES ASSUME Own(a)
               PROVE  /\ \A i \in DOMAIN jobs' : FALSE
                      /\ \A k \in DOMAIN answers : ~Own(answers[k])
    OBVIOUS
  <2>1. Len(jobs) = 1 /\ \A k \in DOMAIN answers : ~Own(answers[k])
    BY <1>1, <1>2, <1>3
  <2>2. DOMAIN jobs = 1..Len(jobs)
    BY <1>0, LenProperties
  <2>3. QED
    BY <1>1, <2>1, <2>2
<1>6. \A i \in DOMAIN jobs' : Own(jobs'[i]) =>
            /\ i = Len(jobs') /\ jobs'[i].tag = Question[lifecycle.stage]
            /\ \A k \in DOMAIN answers' : ~Own(answers'[k])
  <2> SUFFICES ASSUME NEW i \in DOMAIN jobs', Own(jobs'[i])
               PROVE  /\ i = Len(jobs') /\ jobs'[i].tag = Question[lifecycle.stage]
                      /\ \A k \in DOMAIN answers' : ~Own(answers'[k])
    OBVIOUS
  <2>1. /\ i + 1 = Len(jobs) /\ jobs'[i].tag = Question[lifecycle.stage]
        /\ \A k \in DOMAIN answers : ~Own(answers[k])
    BY <1>1, <1>2
  <2>2. ~Own(a)
    BY <1>5
  <2>3. \A k \in DOMAIN answers' : ~Own(answers'[k])
    BY <1>4, <2>1, <2>2
  <2>4. QED
    BY <1>1, <2>1, <2>3
<1>7. \A i, k \in DOMAIN answers' : Own(answers'[i]) /\ Own(answers'[k]) => i = k
  <2>1. CASE Own(a)
    BY <1>4, <1>5, <2>1
  <2>2. CASE ~Own(a)
    BY <1>2, <1>4, <2>2
  <2>3. QED
    BY <2>1, <2>2
<1>8. OneQuestion'
  BY <1>0, <1>6, <1>7 DEF OneQuestion, Own
<1>9. SetupAlone'
  <2> SUFFICES ASSUME \/ lifecycle.stage \notin FirstStages
                      \/ \E k \in DOMAIN answers' : Own(answers'[k])
               PROVE  \A i \in DOMAIN jobs' : Own(jobs'[i])
    BY <1>0 DEF SetupAlone, Own
  <2>1. CASE Own(a)
    BY <1>5, <2>1
  <2>2. CASE ~Own(a)
    <3>1. \/ lifecycle.stage \notin FirstStages
          \/ \E k \in DOMAIN answers : Own(answers[k])
      BY <1>4, <2>2
    <3>2. \A i \in DOMAIN jobs : Own(jobs[i])
      BY <1>0, <3>1 DEF SetupAlone, Own
    <3>3. QED
      BY <1>1, <3>2
  <2>3. QED
    BY <2>1, <2>2
<1>10. QED
  BY <1>8, <1>9

\* What a job that answers a may do to the secrets.
Safe(a) ==
    /\ SecretTypeOK' /\ StoredHasRoot' /\ SetupProved' /\ WipeIsComing'
    /\ IsProvisioned => root' = root /\ contexts \subseteq contexts' /\ stored' = stored
    /\ a.tag = "SessionOpened" /\ Mentions(auth, a.id) =>
          \E c \in contexts' : c.id = a.wallet /\ c.root = root'

LEMMA PerformKeeps ==
    ASSUME SecretInv, NEW a, Answered(a), Safe(a)
    PROVE  SecretInv'
<1>0. /\ SecretTypeOK /\ jobs \in Seq(Jobs)
      /\ UNCHANGED <<lifecycle, auth, flow, policy, effect>>
  BY DEF SecretInv, SecretTypeOK, QueuesOK, Answered
<1>1. /\ 1 \in DOMAIN jobs
      /\ \A i \in DOMAIN jobs' : /\ i \in Nat \ {0} /\ i + 1 \in DOMAIN jobs
                                 /\ jobs'[i] = jobs[i + 1]
  BY <1>0, OldestLeaves DEF Answered
<1>2. WalletIsStored'
  BY <1>0, <1>1 DEF SecretInv, WalletIsStored, IsProvisioned, Safe
<1>3. CommitIsNext'
  <2> SUFFICES ASSUME NEW i \in DOMAIN jobs', jobs'[i].tag = "PersistProvisioning"
               PROVE  FALSE
    BY DEF CommitIsNext
  <2>1. i \in Nat \ {0} /\ i + 1 = 1
    BY <1>1 DEF SecretInv, CommitIsNext
  <2>2. QED
    BY <2>1
<1>4. auth.tag # "Unavailable" =>
          /\ IsProvisioned /\ root' = root /\ contexts \subseteq contexts'
  BY DEF SecretInv, WalletIsStored, Safe
<1>5. OpenedIsReal'
  <2> SUFFICES ASSUME NEW k \in DOMAIN answers', answers'[k].tag = "SessionOpened",
                      Mentions(auth, answers'[k].id)
               PROVE  \E c \in contexts' : c.id = answers'[k].wallet /\ c.root = root'
    BY <1>0 DEF OpenedIsReal
  <2>1. auth.tag # "Unavailable"
    BY <1>0 DEF SecretTypeOK, AuthState, Mentions
  <2>2. CASE answers'[k] = a
    BY <2>2 DEF Safe
  <2>3. CASE k \in DOMAIN answers /\ answers'[k] = answers[k]
    BY <1>4, <2>1, <2>3 DEF SecretInv, OpenedIsReal
  <2>4. QED
    BY <1>0, <2>2, <2>3, AnswerJoins
<1>6. SessionUsesInstalledRoot'
  BY <1>0, <1>4 DEF SecretInv, SessionUsesInstalledRoot, IsUnlocked
<1>7. QED
  BY <1>2, <1>3, <1>5, <1>6, AnswerSettles DEF SecretInv, Safe

\* While a job is left, the setup in progress has no answer in flight; if the
\* oldest job is its own, or it is past its first stage, that job is its
\* question.
LEMMA SetupWaits ==
    ASSUME SecretInv, IsProvisioning, jobs # <<>>
    PROVE  /\ \A k \in DOMAIN answers : ~Mentions(answers[k], lifecycle.id)
           /\ lifecycle.stage \notin FirstStages => Mentions(Head(jobs), lifecycle.id)
           /\ Mentions(Head(jobs), lifecycle.id) =>
                 Head(jobs).tag = Question[lifecycle.stage]
<1>1. jobs \in Seq(Jobs)
  BY DEF SecretInv, SecretTypeOK, QueuesOK
<1>2. 1 \in DOMAIN jobs /\ Head(jobs) = jobs[1]
  BY <1>1, EmptySeq, LenProperties, HeadTailProperties
<1>3. \A k \in DOMAIN answers : ~Mentions(answers[k], lifecycle.id)
  BY <1>2 DEF SecretInv, OneQuestion, SetupAlone
<1>4. lifecycle.stage \notin FirstStages => Mentions(Head(jobs), lifecycle.id)
  BY <1>2 DEF SecretInv, SetupAlone
<1>5. Mentions(Head(jobs), lifecycle.id) => Head(jobs).tag = Question[lifecycle.stage]
  BY <1>2 DEF SecretInv, OneQuestion
<1>6. QED
  BY <1>3, <1>4, <1>5

\* The answer a says nothing but what the job did.
Truthful(a) ==
    IsProvisioning /\ Mentions(a, lifecycle.id) =>
        /\ a.tag = "BackupShown" => backup' = pending'
        /\ a.tag = "BackupVerified" => pending' \in Proved'
        /\ a.tag = "ProvisioningPersisted" =>
              stored' = Provisioned(NewMetadata(lifecycle.mode, lifecycle.passphrase))

LEMMA SetupAnswered ==
    ASSUME SecretInv, NEW a, Answered(a), Truthful(a),
           Head(jobs).tag = "ChallengeBackup" /\ backup = pending => backup' = pending',
           Head(jobs).tag \in {"ConfigurePin", "PersistProvisioning"}
               /\ pending \in Proved => pending' \in Proved'
    PROVE  SetupProved'
<1>0. lifecycle' = lifecycle /\ jobs # <<>> /\ SecretTypeOK
  BY DEF SecretInv, Answered
<1> SUFFICES ASSUME IsProvisioning PROVE SetupProved'
  BY <1>0 DEF SetupProved, IsProvisioning
<1>1. \A k \in DOMAIN answers : ~Mentions(answers[k], lifecycle.id)
  BY <1>0, SetupWaits
<1>2. \A k \in DOMAIN answers' : Mentions(answers'[k], lifecycle.id) => answers'[k] = a
  BY <1>0, <1>1, AnswerJoins
<1>3. \A k \in DOMAIN answers' : Mentions(answers'[k], lifecycle.id) =>
          /\ answers'[k].tag = "BackupShown" => backup' = pending'
          /\ answers'[k].tag = "BackupVerified" => pending' \in Proved'
          /\ answers'[k].tag = "ProvisioningPersisted" =>
                stored' = Provisioned(NewMetadata(lifecycle.mode, lifecycle.passphrase))
  BY <1>2 DEF Truthful
<1>4. lifecycle.stage = "VerifyingBackup" => backup' = pending'
  <2> SUFFICES ASSUME lifecycle.stage = "VerifyingBackup" PROVE backup' = pending'
    OBVIOUS
  <2>1. Head(jobs).tag = "ChallengeBackup"
    BY <1>0, SetupWaits DEF FirstStages, Question
  <2>2. QED
    BY <2>1 DEF SecretInv, SetupProved
<1>5. lifecycle.mode = "Create" /\ lifecycle.stage \in {"ConfiguringPin", "Persisting"} =>
          pending' \in Proved'
  <2> SUFFICES ASSUME lifecycle.mode = "Create",
                      lifecycle.stage \in {"ConfiguringPin", "Persisting"}
               PROVE  pending' \in Proved'
    OBVIOUS
  <2>1. Head(jobs).tag \in {"ConfigurePin", "PersistProvisioning"}
    BY <1>0, SetupWaits DEF FirstStages, Question
  <2>2. QED
    BY <2>1 DEF SecretInv, SetupProved
<1>6. QED
  BY <1>0, <1>3, <1>4, <1>5 DEF SetupProved

LEMMA WipeStays ==
    ASSUME SecretInv, NEW a, Answered(a), Head(jobs).tag # "WipeWallet",
           root' = root \/ Head(jobs).tag = "PersistProvisioning"
    PROVE  WipeIsComing'
<1>0. lifecycle' = lifecycle /\ jobs # <<>> /\ jobs' = Tail(jobs) /\ jobs \in Seq(Jobs)
  BY DEF SecretInv, SecretTypeOK, QueuesOK, Answered
<1> SUFFICES ASSUME lifecycle = Wiping PROVE WipeIsComing'
  BY <1>0 DEF WipeIsComing, Wiping
<1>1. /\ 1 \in DOMAIN jobs /\ Head(jobs) = jobs[1]
      /\ \A i \in DOMAIN jobs' : i + 1 \in DOMAIN jobs /\ jobs'[i] = jobs[i + 1]
      /\ \A i \in DOMAIN jobs : i # 1 => i - 1 \in DOMAIN jobs' /\ jobs'[i - 1] = jobs[i]
  BY <1>0, OldestLeaves
<1>2. CASE \E i \in DOMAIN jobs : jobs[i].tag = "WipeWallet"
  <2>1. PICK i \in DOMAIN jobs : jobs[i].tag = "WipeWallet"
    BY <1>2
  <2>2. i - 1 \in DOMAIN jobs' /\ jobs'[i - 1].tag = "WipeWallet"
    BY <1>1, <2>1
  <2>3. QED
    BY <2>2 DEF WipeIsComing
<1>3. CASE /\ root = NoRoot
           /\ \A i \in DOMAIN jobs : jobs[i].tag # "PersistProvisioning"
  BY <1>1, <1>3 DEF WipeIsComing
<1>4. QED
  BY <1>2, <1>3 DEF SecretInv, WipeIsComing

\* A job that leaves the store alone.
LEMMA StoreUntouched ==
    ASSUME SecretInv, NEW a, Answered(a), UNCHANGED <<root, stored>>,
           checked \subseteq checked', contexts \subseteq contexts',
           next_context_id' \in 1..MaxContextId, SetupProved',
           Head(jobs).tag # "WipeWallet",
           a.tag = "SessionOpened" =>
               \E c \in contexts' : c.id = a.wallet /\ c.root = root'
    PROVE  SecretInv'
<1>1. SecretTypeOK'
  BY AnswerTypes DEF SecretInv, SecretTypeOK
<1>2. StoredHasRoot'
  BY DEF SecretInv, StoredHasRoot
<1>3. WipeIsComing'
  BY WipeStays
<1>4. QED
  BY <1>1, <1>2, <1>3, PerformKeeps DEF Safe

\* The job in hand and the answers to it.
LEMMA OldestJob ==
    ASSUME SecretInv, NEW tag, Doing(tag)
    PROVE  /\ Head(jobs) \in Jobs /\ Head(jobs).tag = tag /\ jobs # <<>>
           /\ 1 \in DOMAIN jobs /\ Head(jobs) = jobs[1]
<1>1. jobs \in Seq(Jobs)
  BY DEF SecretInv, SecretTypeOK, QueuesOK
<1>2. QED
  BY <1>1, EmptySeq, LenProperties, HeadTailProperties DEF Doing

SetupAnswers ==
    {"RecoveryMaterialCaptured", "KeyMaterialReady", "BackupShown", "BackupVerified",
     "PinConfigured", "ProvisioningPersisted", "PinVerified"}

LEMMA AnswerById ==
    ASSUME SecretInv, jobs # <<>>, Head(jobs) \in Jobs,
           Head(jobs).tag \notin {"WipeWallet", "ClearSensitiveState"},
           NEW tag \in SetupAnswers, Answer([tag |-> tag, id |-> Head(jobs).id])
    PROVE  Answered([tag |-> tag, id |-> Head(jobs).id])
<1>1. Head(jobs).id \in Ids /\ "id" \in DOMAIN Head(jobs)
  BY DEF Jobs, Effect, Backend
<1>2. QED
  BY <1>1 DEF SetupAnswers, Answer, Answered, Answers, Mentions, wallet

LEMMA AnswerFailure ==
    ASSUME jobs # <<>>, Answer(Failure)
    PROVE  Answered(Failure)
  BY DEF Answer, Answered, Answers, Mentions, Failure, wallet

LEMMA StageRootInv == ASSUME SecretInv, StageRoot PROVE SecretInv'
<1>1. PICK tag \in {"GenerateKeyMaterial", "DeriveRecoveredKeyMaterial"} : Doing(tag)
  BY DEF StageRoot
<1>2. /\ UNCHANGED <<root, next_context_id, contexts, backup, stored, checked>>
      /\ Answer(For("KeyMaterialReady")) \/ Answer(Failure)
  BY DEF StageRoot, BeginCreate, BeginRecovery, Fail, Stage, ByResult
<1>3. PICK a : a \in {For("KeyMaterialReady"), Failure} /\ Answered(a)
  <2>1. CASE Answer(For("KeyMaterialReady"))
    BY <1>1, <2>1, OldestJob, AnswerById DEF For, SetupAnswers
  <2>2. CASE Answer(Failure)
    BY <1>1, <2>2, OldestJob, AnswerFailure
  <2>3. QED
    BY <1>2, <2>1, <2>2
<1>4. a.tag \in {"KeyMaterialReady", "RuntimeFailure"}
  BY <1>3 DEF For, Failure
<1>5. SetupProved'
  BY <1>1, <1>3, <1>4, OldestJob, SetupAnswered DEF Truthful
<1>6. QED
  BY <1>1, <1>2, <1>3, <1>4, <1>5, OldestJob, StoreUntouched
  DEF SecretInv, SecretTypeOK

LEMMA UserStepInv == ASSUME SecretInv, UserStep PROVE SecretInv'
<1>1. PICK tag \in {"CaptureRecoveryMaterial", "ChallengeBackup", "ConfigurePin",
                   "ResolveHostTrust", "VerifyPin"} : Doing(tag)
  BY DEF UserStep
<1>2. /\ UNCHANGED <<root, pending, next_context_id, contexts, backup, stored>>
      /\ checked \subseteq checked'
      /\ tag = "ChallengeBackup" => backup \in checked'
  BY <1>1 DEF UserStep, keyVars
<1>3. PICK a : /\ Answered(a)
               /\ a.tag \in {"RecoveryMaterialCaptured", "BackupVerified", "PinConfigured",
                             "HostTrustResolved", "PinVerified"}
               /\ a.tag = "BackupVerified" => tag = "ChallengeBackup"
  <2> DEFINE trusted == [tag |-> "HostTrustResolved", id |-> Head(jobs).id,
                         trust |-> "Untrusted"]
  <2>1. CASE tag = "ResolveHostTrust"
    <3>1. Answer(trusted)
      BY <1>1, <2>1 DEF UserStep, Doing
    <3>2. Head(jobs).id \in Ids /\ "id" \in DOMAIN Head(jobs) /\ jobs # <<>>
      BY <1>1, <2>1, OldestJob DEF Jobs, Effect, Backend
    <3>3. Answered(trusted)
      BY <3>1, <3>2 DEF Answer, Answered, Answers, HostTrust, Mentions, wallet
    <3>4. QED
      BY <3>3
  <2>2. CASE tag # "ResolveHostTrust"
    <3>1. PICK reply \in {"RecoveryMaterialCaptured", "BackupVerified", "PinConfigured",
                         "PinVerified"} :
              AnswerAs(reply) /\ (reply = "BackupVerified" => tag = "ChallengeBackup")
      BY <1>1, <2>2 DEF UserStep, Doing
    <3>2. Answered([tag |-> reply, id |-> Head(jobs).id])
      BY <1>1, <3>1, OldestJob, AnswerById DEF AnswerAs, SetupAnswers
    <3>3. QED
      BY <3>1, <3>2
  <2>3. QED
    BY <2>1, <2>2
<1>4. Truthful(a)
  <2> SUFFICES ASSUME IsProvisioning, Mentions(a, lifecycle.id), a.tag = "BackupVerified"
               PROVE  pending' \in Proved'
    BY <1>3 DEF Truthful
  <2>1. Mentions(Head(jobs), lifecycle.id) /\ Head(jobs).tag = "ChallengeBackup"
    BY <1>1, <1>3, OldestJob DEF Answered
  <2>2. Question[lifecycle.stage] = "ChallengeBackup" /\ lifecycle.stage \in ProvisioningStage
    BY <2>1, <1>1, OldestJob, SetupWaits
    DEF SecretInv, SecretTypeOK, Lifecycle, IsProvisioning
  <2>3. lifecycle.stage = "VerifyingBackup"
    BY <2>2 DEF Question, ProvisioningStage
  <2>4. backup = pending
    BY <2>3 DEF SecretInv, SetupProved
  <2>5. QED
    BY <1>2, <1>3, <2>4 DEF Proved
<1>5. SetupProved'
  BY <1>2, <1>3, <1>4, SetupAnswered DEF Proved
<1>6. QED
  BY <1>1, <1>2, <1>3, <1>5, OldestJob, StoreUntouched DEF SecretInv, SecretTypeOK

LEMMA ShowMnemonicInv == ASSUME SecretInv, ShowMnemonic PROVE SecretInv'
<1>1. /\ Doing("ShowBackup") /\ backup' = pending' /\ pending' = pending
      /\ UNCHANGED <<root, next_context_id, contexts, stored, checked>>
      /\ Answer(For("BackupShown")) \/ Answer(Failure)
  BY DEF ShowMnemonic, PendingMnemonic
<1>2. PICK a : a \in {For("BackupShown"), Failure} /\ Answered(a)
  <2>1. CASE Answer(For("BackupShown"))
    BY <1>1, <2>1, OldestJob, AnswerById DEF For, SetupAnswers
  <2>2. CASE Answer(Failure)
    BY <1>1, <2>2, OldestJob, AnswerFailure
  <2>3. QED
    BY <1>1, <2>1, <2>2
<1>3. a.tag \in {"BackupShown", "RuntimeFailure"}
  BY <1>2 DEF For, Failure
<1>4. SetupProved'
  BY <1>1, <1>2, <1>3, OldestJob, SetupAnswered DEF Truthful
<1>5. QED
  BY <1>1, <1>2, <1>3, <1>4, OldestJob, StoreUntouched DEF SecretInv, SecretTypeOK

LEMMA ClearSecretsInv == ASSUME SecretInv, ClearSecrets PROVE SecretInv'
<1>1. /\ Doing("ClearSensitiveState") /\ jobs' = Tail(jobs)
      /\ UNCHANGED <<answers, wallet, effect, root, next_context_id, contexts, stored, checked>>
  BY DEF ClearSecrets, CancelPending, Done
<1>2. Answered(Failure) /\ Failure.tag = "RuntimeFailure"
  BY <1>1, OldestJob DEF Answered, Answers, Failure, Mentions, wallet
<1>3. SetupProved'
  BY <1>1, <1>2, OldestJob, SetupAnswered DEF Truthful
<1>4. QED
  BY <1>1, <1>2, <1>3, OldestJob, StoreUntouched DEF SecretInv, SecretTypeOK

LEMMA OpenWalletInv == ASSUME SecretInv, OpenWallet PROVE SecretInv'
<1> DEFINE opened == [tag |-> "SessionOpened", id |-> Head(jobs).id,
                      wallet |-> next_context_id]
<1>1. /\ Doing("OpenSession") /\ UNCHANGED <<root, pending, backup, stored, checked>>
      /\ contexts \subseteq contexts'
      /\ \/ result' # "Ok" /\ UNCHANGED next_context_id
         \/ /\ next_context_id' \in CheckedAdd(next_context_id)
            /\ \E c \in contexts' : c.id = next_context_id /\ c.root = root
      /\ IF result' = "Ok" THEN Answer(opened) ELSE Answer(Failure)
  <2>1. PICK p \in Passphrases : OpenContext(p)
    BY DEF OpenWallet
  <2>2. CASE \E c : c \in contexts' /\ c = [id |-> next_context_id, root |-> root,
                                          passphrase |-> p]
    BY <2>1, <2>2 DEF OpenWallet, OpenContext, Fail, ByResult
  <2>3. CASE ~\E c : c \in contexts' /\ c = [id |-> next_context_id, root |-> root,
                                           passphrase |-> p]
    BY <2>1, <2>3 DEF OpenWallet, OpenContext, Fail, ByResult
  <2>4. QED
    BY <2>2, <2>3
<1>2. /\ next_context_id' \in 1..MaxContextId
      /\ result' = "Ok" => next_context_id \in Wallets
  BY <1>1, ContextIdAssumption, ContextIdsAreWallets DEF CheckedAdd, SecretInv, SecretTypeOK
<1>3. Head(jobs).id \in Ids /\ "id" \in DOMAIN Head(jobs) /\ jobs # <<>>
  BY <1>1, OldestJob DEF Jobs, Effect, Backend
<1>4. PICK a : /\ Answered(a) /\ a.tag \in {"SessionOpened", "RuntimeFailure"}
               /\ a.tag = "SessionOpened" =>
                     \E c \in contexts' : c.id = a.wallet /\ c.root = root
  <2>1. CASE result' = "Ok"
    <3>1. Answered(opened)
      BY <1>1, <1>2, <1>3, <2>1 DEF Answer, Answered, Answers, Mentions, wallet
    <3>2. \E c \in contexts' : c.id = opened.wallet /\ c.root = root
      BY <1>1, <2>1
    <3>3. QED
      BY <3>1, <3>2
  <2>2. CASE result' # "Ok"
    BY <1>1, <1>3, <2>2, AnswerFailure DEF Failure
  <2>3. QED
    BY <2>1, <2>2
<1>5. SetupProved'
  BY <1>1, <1>4, OldestJob, SetupAnswered DEF Truthful
<1>6. QED
  BY <1>1, <1>2, <1>4, <1>5, OldestJob, StoreUntouched

\* What committing the staged root does to the store, whatever is answered.
LEMMA CommitStores ==
    ASSUME SecretInv, Doing("PersistProvisioning"), CommitPending,
           stored' = IF pending # NoRoot /\ root' = pending
                     THEN Provisioned(Head(jobs).metadata) ELSE stored,
           UNCHANGED checked
    PROVE  /\ StoredHasRoot' /\ ~IsProvisioned
           /\ UNCHANGED <<next_context_id, contexts>>
           /\ pending' \in {pending, NoRoot}
           /\ result' = "Ok" => stored' = Provisioned(Head(jobs).metadata)
           /\ result' # "Ok" => UNCHANGED <<pending, backup>>
           /\ stored' \in Lifecycle /\ stored'.tag \in {"Empty", "Provisioned"}
<1>1. /\ root' \in {root, pending} /\ UNCHANGED <<next_context_id, contexts>>
      /\ pending' \in {pending, NoRoot}
      /\ pending = NoRoot => root' = root
      /\ result' = "Ok" => root' = pending /\ pending # NoRoot
      /\ result' # "Ok" => UNCHANGED <<pending, backup>>
  BY DEF CommitPending, Fail, PersistFailed, Unstage
<1>2. /\ Head(jobs).metadata \in WalletMetadata
      /\ Head(jobs).metadata.origin = "Generated" => pending \in Proved
  <2>1. Head(jobs) \in Jobs /\ Head(jobs).tag = "PersistProvisioning"
        /\ 1 \in DOMAIN jobs /\ Head(jobs) = jobs[1]
    BY OldestJob
  <2>2. QED
    BY <2>1 DEF Jobs, SecretInv, CommitIsNext
<1>3. /\ stored' \in Lifecycle /\ stored'.tag \in {"Empty", "Provisioned"}
  BY <1>2 DEF Provisioned, Lifecycle, SecretInv, SecretTypeOK
<1>4. StoredHasRoot'
  <2>1. CASE pending # NoRoot /\ root' = pending
    BY <1>2, <2>1 DEF StoredHasRoot, Provisioned, Proved
  <2>2. CASE ~(pending # NoRoot /\ root' = pending)
    BY <1>1, <2>2 DEF SecretInv, StoredHasRoot
  <2>3. QED
    BY <2>1, <2>2
<1>5. ~IsProvisioned
  BY OldestJob DEF SecretInv, WalletIsStored, SessionTags
<1>6. QED
  BY <1>1, <1>3, <1>4, <1>5

\* A commit or a wipe that failed and is tried again: no session is open, and
\* the setup in progress, if any, waits.
LEMMA RetryKeeps ==
    ASSUME SecretInv, UNCHANGED <<lifecycle, auth, flow, policy, effect, jobs, answers, checked>>,
           jobs # <<>>, ~IsProvisioned, next_context_id' \in 1..MaxContextId,
           stored' \in Lifecycle, stored'.tag \in {"Empty", "Provisioned"}, StoredHasRoot',
           \/ Head(jobs).tag = "WipeWallet"
           \/ Head(jobs).tag = "PersistProvisioning" /\ UNCHANGED <<pending, backup>>
    PROVE  SecretInv'
<1>0. /\ SecretTypeOK /\ jobs \in Seq(Jobs) /\ auth.tag = "Unavailable"
  BY DEF SecretInv, SecretTypeOK, QueuesOK, WalletIsStored
<1>1. 1 \in DOMAIN jobs /\ Head(jobs) = jobs[1]
  BY <1>0, EmptySeq, LenProperties, HeadTailProperties
<1>2. SecretTypeOK'
  BY <1>0 DEF SecretTypeOK, QueuesOK
<1>3. WalletIsStored' /\ OpenedIsReal' /\ SessionUsesInstalledRoot'
  BY <1>0
  DEF WalletIsStored, IsProvisioned, OpenedIsReal, SessionUsesInstalledRoot, IsUnlocked,
      Mentions, SecretTypeOK, AuthState
<1>4. OneQuestion' /\ SetupAlone'
  BY DEF SecretInv, OneQuestion, SetupAlone, IsProvisioning
<1>5. CommitIsNext'
  BY <1>1 DEF SecretInv, CommitIsNext, Proved, IsProvisioning
<1>6. SetupProved'
  <2> SUFFICES ASSUME IsProvisioning PROVE SetupProved'
    BY DEF SetupProved, IsProvisioning
  <2>1. \A k \in DOMAIN answers : ~Mentions(answers[k], lifecycle.id)
    BY SetupWaits
  <2>2. CASE lifecycle.stage \in FirstStages
    BY <2>1, <2>2 DEF SetupProved, FirstStages
  <2>3. CASE lifecycle.stage \notin FirstStages
    <3>1. Head(jobs).tag = Question[lifecycle.stage] /\ lifecycle.stage \in ProvisioningStage
      BY <1>0, <2>3, SetupWaits DEF SecretTypeOK, Lifecycle, IsProvisioning
    <3>2. Head(jobs).tag # "WipeWallet"
      BY <3>1 DEF Question, ProvisioningStage
    <3>3. QED
      BY <2>1, <3>2 DEF SecretInv, SetupProved, Proved
  <2>4. QED
    BY <2>2, <2>3
<1>7. WipeIsComing'
  BY <1>1 DEF SecretInv, WipeIsComing
<1>8. QED
  BY <1>2, <1>3, <1>4, <1>5, <1>6, <1>7 DEF SecretInv

LEMMA CommitRootInv == ASSUME SecretInv, CommitRoot PROVE SecretInv'
<1>0. /\ Doing("PersistProvisioning") /\ CommitPending /\ UNCHANGED checked
      /\ stored' = IF pending # NoRoot /\ root' = pending
                   THEN Provisioned(Head(jobs).metadata) ELSE stored
  BY DEF CommitRoot
<1>1. /\ StoredHasRoot' /\ ~IsProvisioned
      /\ UNCHANGED <<next_context_id, contexts>>
      /\ pending' \in {pending, NoRoot}
      /\ result' = "Ok" => stored' = Provisioned(Head(jobs).metadata)
      /\ result' # "Ok" => UNCHANGED <<pending, backup>>
      /\ stored' \in Lifecycle /\ stored'.tag \in {"Empty", "Provisioned"}
  BY <1>0, CommitStores
<1>2. CASE result' # "Ok" /\ Again
  BY <1>0, <1>1, <1>2, OldestJob, RetryKeeps DEF Again, wallet, SecretInv, SecretTypeOK
<1>3. CASE ~(result' # "Ok" /\ Again)
  <2>1. PICK a : /\ Answered(a) /\ a.tag \in {"ProvisioningPersisted", "RuntimeFailure"}
                 /\ a.tag = "ProvisioningPersisted" => result' = "Ok"
    <3>1. CASE result' = "Ok" /\ Answer(For("ProvisioningPersisted"))
      BY <1>0, <3>1, OldestJob, AnswerById DEF For, SetupAnswers
    <3>2. CASE Answer(Failure)
      BY <1>0, <3>2, OldestJob, AnswerFailure DEF Failure
    <3>3. QED
      BY <1>3, <3>1, <3>2 DEF CommitRoot
  <2>2. Truthful(a)
    <3> SUFFICES ASSUME IsProvisioning, Mentions(a, lifecycle.id),
                        a.tag = "ProvisioningPersisted"
                 PROVE  stored' = Provisioned(NewMetadata(lifecycle.mode,
                                                          lifecycle.passphrase))
      BY <2>1 DEF Truthful
    <3>1. Head(jobs).metadata = NewMetadata(lifecycle.mode, lifecycle.passphrase)
      BY <1>0, <2>1, OldestJob DEF Answered, Mentions, SecretInv, CommitIsNext
    <3>2. QED
      BY <1>1, <2>1, <3>1
  <2>3. SetupProved'
    BY <1>0, <1>1, <2>1, <2>2, OldestJob, SetupAnswered DEF Proved
  <2>4. WipeIsComing'
    BY <1>0, <2>1, OldestJob, WipeStays
  <2>5. SecretTypeOK'
    BY <1>1, <2>1, AnswerTypes DEF SecretInv, SecretTypeOK
  <2>6. QED
    BY <1>1, <2>1, <2>3, <2>4, <2>5, PerformKeeps DEF Safe
<1>4. QED
  BY <1>2, <1>3

LEMMA EraseWalletInv == ASSUME SecretInv, EraseWallet PROVE SecretInv'
<1>0. /\ Doing("WipeWallet") /\ UNCHANGED checked
      /\ root' \in {root, NoRoot}
      /\ next_context_id' \in 1..MaxContextId
      /\ result' = "Ok" => root' = NoRoot
      /\ stored' = IF root' = NoRoot THEN Empty ELSE stored
      /\ \/ result' = "Ok" /\ Answer([tag |-> "WipeCompleted"])
         \/ result' # "Ok" /\ Again
  BY ContextIdAssumption, ContextIdsAreWallets DEF EraseWallet, Wipe, SecretInv, SecretTypeOK
<1>1. /\ StoredHasRoot'
      /\ stored' \in Lifecycle /\ stored'.tag \in {"Empty", "Provisioned"}
  BY <1>0 DEF SecretInv, SecretTypeOK, StoredHasRoot, Empty, Lifecycle
<1>2. ~IsProvisioned
  BY <1>0, OldestJob DEF SecretInv, WalletIsStored, SessionTags
<1>3. CASE result' # "Ok" /\ Again
  BY <1>0, <1>1, <1>2, <1>3, OldestJob, RetryKeeps DEF Again, wallet
<1>4. CASE result' = "Ok" /\ Answer([tag |-> "WipeCompleted"])
  <2> DEFINE a == [tag |-> "WipeCompleted"]
  <2>1. Answered(a)
    BY <1>0, <1>4, OldestJob DEF Answer, Answered, Answers, Mentions, wallet
  <2>2. SetupProved'
    BY <1>0, <2>1, OldestJob, SetupAnswered DEF Truthful
  <2>3. WipeIsComing'
    <3>1. \A i \in DOMAIN jobs' : i \in Nat \ {0} /\ i + 1 \in DOMAIN jobs
                                 /\ jobs'[i] = jobs[i + 1]
      BY <2>1, OldestLeaves DEF SecretInv, SecretTypeOK, QueuesOK, Answered
    <3>2. \A i \in DOMAIN jobs' : jobs'[i].tag # "PersistProvisioning"
      <4> SUFFICES ASSUME NEW i \in DOMAIN jobs', jobs'[i].tag = "PersistProvisioning"
                   PROVE  FALSE
        OBVIOUS
      <4>1. i + 1 = 1 /\ i \in Nat \ {0}
        BY <3>1 DEF SecretInv, CommitIsNext
      <4>2. QED
        BY <4>1
    <3>3. QED
      BY <1>0, <1>4, <3>2 DEF WipeIsComing
  <2>4. SecretTypeOK'
    BY <1>0, <1>1, <2>1, AnswerTypes DEF SecretInv
  <2>5. QED
    BY <1>1, <1>2, <2>1, <2>2, <2>3, <2>4, PerformKeeps DEF Safe
<1>5. QED
  BY <1>0, <1>3, <1>4

LEMMA PerformInv == ASSUME SecretInv, Perform PROVE SecretInv'
  BY StageRootInv, UserStepInv, ShowMnemonicInv, CommitRootInv, OpenWalletInv,
     ClearSecretsInv, EraseWalletInv
  DEF Perform

-----------------------------------------------------------------------------
(* Handling an event *)

\* An event moves the reducer, takes the i-th answer away, if it is one, and
\* may add a job.
Handling(i) ==
    /\ StateOK' /\ answers' \in Seq(Answers) /\ i \in Nat
    /\ \A j \in DOMAIN answers' :
          /\ j \in Nat
          /\ Before(i, j) \in DOMAIN answers /\ answers'[j] = answers[Before(i, j)]
    /\ Submit
    /\ UNCHANGED <<root, pending, next_context_id, contexts, backup, stored, checked>>

LEMMA InputHandling ==
    ASSUME SecretInv, StateOK', Input, UNCHANGED <<keyVars, stored, checked>>
    PROVE  \E i \in Nat : Handling(i)
<1>1. /\ answers \in Seq(Answers) /\ answers' = answers
      /\ Len(answers) \in Nat /\ DOMAIN answers = 1..Len(answers)
  BY LenProperties DEF SecretInv, SecretTypeOK, QueuesOK, Input
<1>2. \A j \in DOMAIN answers : j \in Nat /\ Before(Len(answers) + 1, j) = j
  BY <1>1 DEF Before
<1>3. Handling(Len(answers) + 1)
  BY <1>1, <1>2 DEF Input, keyVars, Handling
<1>4. QED
  BY <1>1, <1>3

LEMMA JobJoins ==
    ASSUME SecretTypeOK, NEW i, Handling(i),
           effect'.tag = "PersistProvisioning" => IsProvisioning
    PROVE  /\ jobs' \in Seq(Jobs) /\ Len(jobs) \in Nat
           /\ \A n \in DOMAIN jobs : n \in DOMAIN jobs' /\ jobs'[n] = jobs[n]
           /\ \A n \in DOMAIN jobs' :
                 \/ n \in DOMAIN jobs /\ jobs'[n] = jobs[n]
                 \/ /\ effect'.tag \in Backend /\ jobs'[n] = Job(effect')
                    /\ n = Len(jobs') /\ n = Len(jobs) + 1
           /\ effect'.tag \in Backend =>
                 Len(jobs) + 1 \in DOMAIN jobs' /\ jobs'[Len(jobs) + 1] = Job(effect')
           /\ effect'.tag \notin Backend => jobs' = jobs
<1>1. jobs \in Seq(Jobs) /\ Len(jobs) \in Nat
  BY LenProperties DEF SecretTypeOK, QueuesOK
<1>2. CASE effect'.tag \notin Backend
  BY <1>1, <1>2 DEF Handling, Submit
<1>3. CASE effect'.tag \in Backend
  <2>1. StateOK /\ effect' \in Effect
    BY SecretStateOK DEF Handling, StateOK
  <2>2. Job(effect') \in Jobs
    BY <1>3, <2>1, JobTypes
  <2>3. jobs' = Append(jobs, Job(effect'))
    BY <1>3 DEF Handling, Submit
  <2>4. QED
    BY <1>1, <1>3, <2>2, <2>3, NewestJoins
<1>4. QED
  BY <1>2, <1>3

\* Of the answers, only their positions change.
LEMMA AnswersStay ==
    ASSUME SecretInv, NEW i, Handling(i), lifecycle' = lifecycle, IsProvisioning
    PROVE  /\ \A j, k \in DOMAIN answers' : /\ Mentions(answers'[j], lifecycle.id)
                                            /\ Mentions(answers'[k], lifecycle.id)
                                            => j = k
           /\ (\E j \in DOMAIN answers' : Mentions(answers'[j], lifecycle.id)) =>
                 \E k \in DOMAIN answers : Mentions(answers[k], lifecycle.id)
<1> SUFFICES ASSUME NEW j \in DOMAIN answers', NEW k \in DOMAIN answers',
                    Mentions(answers'[j], lifecycle.id), Mentions(answers'[k], lifecycle.id)
             PROVE  j = k /\ \E n \in DOMAIN answers : Mentions(answers[n], lifecycle.id)
  OBVIOUS
<1>1. /\ i \in Nat /\ j \in Nat /\ k \in Nat
      /\ Before(i, j) \in DOMAIN answers /\ answers'[j] = answers[Before(i, j)]
      /\ Before(i, k) \in DOMAIN answers /\ answers'[k] = answers[Before(i, k)]
  BY DEF Handling
<1>2. Before(i, j) = Before(i, k)
  BY <1>1 DEF SecretInv, OneQuestion
<1>3. j = k
  BY <1>1, <1>2 DEF Before
<1>4. QED
  BY <1>1, <1>3

LEMMA RefusedKeeps ==
    ASSUME SecretInv, NEW i, Handling(i), UNCHANGED wallet, effect'.tag \notin Backend
    PROVE  SecretInv'
<1>0. UNCHANGED <<lifecycle, auth, flow, policy>> /\ UNCHANGED jobs
  BY DEF wallet, Handling, Submit
<1>1. \A j \in DOMAIN answers' : \E k \in DOMAIN answers : answers'[j] = answers[k]
  BY DEF Handling
<1>2. SecretTypeOK'
  BY <1>0 DEF SecretInv, SecretTypeOK, QueuesOK, Handling, StateOK
<1>3. /\ StoredHasRoot' /\ WalletIsStored' /\ SessionUsesInstalledRoot'
      /\ WipeIsComing' /\ CommitIsNext'
  BY <1>0
  DEF SecretInv, Handling, StoredHasRoot, WalletIsStored, IsProvisioned, CommitIsNext,
      SessionUsesInstalledRoot, IsUnlocked, WipeIsComing, IsProvisioning, Proved
<1>4. OpenedIsReal'
  BY <1>0, <1>1 DEF SecretInv, Handling, OpenedIsReal
<1>5. OneQuestion' /\ SetupAlone' /\ SetupProved'
  <2> SUFFICES ASSUME IsProvisioning PROVE OneQuestion' /\ SetupAlone' /\ SetupProved'
    BY <1>0 DEF OneQuestion, SetupAlone, SetupProved, IsProvisioning
  <2>1. OneQuestion'
    BY <1>0, <1>1, AnswersStay DEF SecretInv, OneQuestion, IsProvisioning
  <2>2. SetupAlone'
    BY <1>0, AnswersStay DEF SecretInv, SetupAlone, IsProvisioning
  <2>3. SetupProved'
    BY <1>0, <1>1 DEF SecretInv, SetupProved, IsProvisioning, Proved, Handling
  <2>4. QED
    BY <2>1, <2>2, <2>3
<1>6. QED
  BY <1>2, <1>3, <1>4, <1>5 DEF SecretInv

\* The session and the attempts to open one stay within the stored wallet.
LEMMA SessionKeeps ==
    ASSUME SecretInv, NEW i, Handling(i), IsProvisioned, lifecycle' = lifecycle, flow' = Idle,
           effect'.tag \in Backend => effect'.tag \in SessionTags,
           OpenedIsReal', SessionUsesInstalledRoot'
    PROVE  SecretInv'
<1>0. effect'.tag # "PersistProvisioning"
  BY DEF Backend, SessionTags
<1>1. /\ jobs' \in Seq(Jobs)
      /\ \A n \in DOMAIN jobs' : jobs'[n].tag \in SessionTags
  <2>1. effect'.tag \in Backend => Job(effect') = effect'
    BY <1>0 DEF Job
  <2>2. \A n \in DOMAIN jobs : jobs[n].tag \in SessionTags
    BY DEF SecretInv, WalletIsStored
  <2>3. QED
    BY <1>0, <2>1, <2>2, JobJoins DEF SecretInv
<1>2. SecretTypeOK'
  BY <1>1 DEF SecretInv, SecretTypeOK, QueuesOK, Handling, StateOK
<1>3. StoredHasRoot' /\ WalletIsStored' /\ CommitIsNext'
  BY <1>1
  DEF SecretInv, Handling, StoredHasRoot, WalletIsStored, IsProvisioned, CommitIsNext,
      SessionTags
<1>4. /\ OneQuestion' /\ SetupAlone' /\ SetupProved' /\ WipeIsComing'
  BY DEF OneQuestion, SetupAlone, SetupProved, WipeIsComing, IsProvisioning, IsProvisioned,
         Wiping
<1>5. QED
  BY <1>2, <1>3, <1>4 DEF SecretInv

LEMMA AttemptKeeps ==
    ASSUME SecretInv, NEW i, Handling(i), IsProvisioned, lifecycle' = lifecycle, flow' = Idle,
           effect'.tag \in Backend => effect'.tag \in SessionTags,
           auth'.tag # "Unlocked",
           \A id : Mentions(auth', id) =>
               \/ Mentions(auth, id)
               \/ \A k \in DOMAIN answers : ~Mentions(answers[k], id)
    PROVE  SecretInv'
<1>1. OpenedIsReal'
  <2> SUFFICES ASSUME NEW k \in DOMAIN answers', answers'[k].tag = "SessionOpened",
                      Mentions(auth', answers'[k].id)
               PROVE  \E c \in contexts : c.id = answers'[k].wallet /\ c.root = root
    BY DEF OpenedIsReal, Handling
  <2>1. PICK n \in DOMAIN answers : answers'[k] = answers[n]
    BY DEF Handling
  <2>2. answers[n] \in Answers
    BY ElementOfSeq, LenProperties DEF SecretInv, SecretTypeOK, QueuesOK
  <2>3. Mentions(answers[n], answers[n].id)
    BY <2>1, <2>2 DEF Answers, Mentions
  <2>4. Mentions(auth, answers[n].id)
    BY <2>1, <2>3
  <2>5. QED
    BY <2>1, <2>4 DEF SecretInv, OpenedIsReal
<1>2. SessionUsesInstalledRoot'
  BY DEF SessionUsesInstalledRoot, IsUnlocked
<1>3. QED
  BY <1>1, <1>2, SessionKeeps

\* A setup or a wipe ends, or a wipe begins.
LEMMA ResetKeeps ==
    ASSUME SecretInv, NEW i, Handling(i), lifecycle' \in {Empty, Wiping},
           auth' = Unavailable, flow' = Idle,
           effect'.tag \in Backend => effect'.tag \in {"ClearSensitiveState", "WipeWallet"},
           lifecycle' = Wiping => effect'.tag = "WipeWallet"
    PROVE  SecretInv'
<1>0. effect'.tag # "PersistProvisioning" /\ SecretTypeOK
  BY DEF Backend, SecretInv
<1>1. lifecycle'.tag \in {"Empty", "Wiping"} /\ auth'.tag = "Unavailable"
      /\ \A id : ~Mentions(auth', id)
  BY DEF Empty, Wiping, Unavailable, Mentions
<1>2. effect'.tag \in Backend => Job(effect') = effect'
  BY <1>0 DEF Job
<1>3. SecretTypeOK'
  BY <1>0, JobJoins DEF SecretTypeOK, QueuesOK, Handling, StateOK
<1>4. /\ StoredHasRoot' /\ WalletIsStored' /\ OneQuestion' /\ SetupAlone' /\ SetupProved'
      /\ OpenedIsReal' /\ SessionUsesInstalledRoot'
  BY <1>1
  DEF SecretInv, Handling, StoredHasRoot, WalletIsStored, OneQuestion, SetupAlone, SetupProved,
      OpenedIsReal, SessionUsesInstalledRoot, IsUnlocked, IsProvisioned, IsProvisioning
<1>5. CommitIsNext'
  <2>1. \A n \in DOMAIN jobs' : jobs'[n].tag = "PersistProvisioning" =>
            n \in DOMAIN jobs /\ jobs'[n] = jobs[n]
    BY <1>0, <1>2, JobJoins
  <2>2. QED
    BY <1>1, <2>1 DEF SecretInv, CommitIsNext, Handling, IsProvisioning, Proved
<1>6. WipeIsComing'
  BY <1>0, <1>2, JobJoins DEF WipeIsComing, Backend
<1>7. QED
  BY <1>3, <1>4, <1>5, <1>6 DEF SecretInv

\* A setup begins with an id nothing in flight has.
LEMMA SetupBegins ==
    ASSUME SecretInv, NEW i, Handling(i), NEW id \in Ids, Fresh(id), lifecycle = Empty,
           lifecycle'.tag = "Provisioning", lifecycle'.id = id,
           lifecycle'.stage \in FirstStages, UNCHANGED <<auth, flow, policy>>,
           effect'.tag = Question[lifecycle'.stage]
    PROVE  SecretInv'
<1>0. /\ SecretTypeOK /\ lifecycle.tag = "Empty" /\ auth.tag = "Unavailable" /\ flow = Idle
      /\ effect'.tag \in {"GenerateKeyMaterial", "CaptureRecoveryMaterial"}
  BY DEF SecretInv, SecretTypeOK, WalletIsStored, IsProvisioned, Empty, Question, FirstStages
<1>1. effect'.tag # "PersistProvisioning" /\ Job(effect') = effect'
  BY <1>0 DEF Job
<1>2. /\ \A n \in DOMAIN jobs : ~Mentions(jobs[n], id)
      /\ \A k \in DOMAIN answers' : ~Mentions(answers'[k], id)
  BY DEF Fresh, Handling
<1>3. SecretTypeOK'
  BY <1>0, <1>1, JobJoins DEF SecretTypeOK, QueuesOK, Handling, StateOK
<1>4. \A n \in DOMAIN jobs' :
          \/ n \in DOMAIN jobs /\ jobs'[n] = jobs[n]
          \/ n = Len(jobs') /\ jobs'[n] = effect'
  BY <1>0, <1>1, JobJoins
<1>5. /\ StoredHasRoot' /\ WalletIsStored' /\ OpenedIsReal' /\ SessionUsesInstalledRoot'
      /\ WipeIsComing'
  BY <1>0
  DEF SecretInv, Handling, StoredHasRoot, WalletIsStored, OpenedIsReal,
      SessionUsesInstalledRoot, IsUnlocked, IsProvisioned, WipeIsComing, Wiping, Mentions,
      SecretTypeOK, AuthState
<1>6. OneQuestion'
  BY <1>2, <1>4 DEF OneQuestion
<1>7. SetupAlone' /\ SetupProved'
  BY <1>2 DEF SetupAlone, SetupProved, FirstStages
<1>8. CommitIsNext'
  <2> SUFFICES ASSUME NEW n \in DOMAIN jobs', jobs'[n].tag = "PersistProvisioning"
               PROVE  /\ n = 1
                      /\ jobs'[n].metadata.origin = "Generated" => pending \in Proved
                      /\ jobs'[n].id # id
    BY DEF CommitIsNext, Handling, Proved
  <2>1. n \in DOMAIN jobs /\ jobs'[n] = jobs[n]
    BY <1>1, <1>4
  <2>2. jobs[n] \in Jobs
    BY <2>1, ElementOfSeq, LenProperties DEF SecretInv, SecretTypeOK, QueuesOK
  <2>3. "id" \in DOMAIN jobs[n]
    BY <2>1, <2>2 DEF Jobs
  <2>4. QED
    BY <1>2, <2>1, <2>3 DEF SecretInv, CommitIsNext, Mentions
<1>9. QED
  BY <1>3, <1>5, <1>6, <1>7, <1>8 DEF SecretInv

\* When the setup's answer is delivered no job is left, and no other answer to
\* it.
LEMMA SetupAnswer ==
    ASSUME SecretInv, IsProvisioning, NEW i \in DOMAIN answers, Handling(i),
           Mentions(answers[i], lifecycle.id)
    PROVE  /\ jobs = <<>>
           /\ \A k \in DOMAIN answers' : ~Mentions(answers'[k], lifecycle.id)
<1>1. jobs = <<>>
  BY SetupWaits
<1>2. \A k \in DOMAIN answers' : ~Mentions(answers'[k], lifecycle.id)
  <2> SUFFICES ASSUME NEW k \in DOMAIN answers', Mentions(answers'[k], lifecycle.id)
               PROVE  FALSE
    OBVIOUS
  <2>1. /\ i \in Nat /\ k \in Nat
        /\ Before(i, k) \in DOMAIN answers /\ answers'[k] = answers[Before(i, k)]
    BY DEF Handling
  <2>2. Before(i, k) = i
    BY <2>1 DEF SecretInv, OneQuestion
  <2>3. QED
    BY <2>1, <2>2 DEF Before
<1>3. QED
  BY <1>1, <1>2

LEMMA AdvanceKeeps ==
    ASSUME SecretInv, IsProvisioning, NEW i \in DOMAIN answers, Handling(i),
           Mentions(answers[i], lifecycle.id),
           NEW stage \in ProvisioningStage \ FirstStages,
           AdvanceStage(stage, Question[stage]),
           stage = "VerifyingBackup" => backup = pending,
           lifecycle.mode = "Create" /\ stage \in {"ConfiguringPin", "Persisting"} =>
               pending \in Proved
    PROVE  SecretInv'
<1>0. /\ SecretTypeOK /\ auth.tag = "Unavailable" /\ flow = Idle
      /\ lifecycle \in [tag: {"Provisioning"}, id: Ids, mode: ProvisioningMode,
                        passphrase: PassphraseMode, stage: ProvisioningStage]
  BY DEF SecretInv, SecretTypeOK, WalletIsStored, IsProvisioned, IsProvisioning, Lifecycle
<1>1. /\ lifecycle'.tag = "Provisioning" /\ lifecycle'.stage = stage
      /\ lifecycle'.id = lifecycle.id /\ lifecycle'.mode = lifecycle.mode
      /\ lifecycle'.passphrase = lifecycle.passphrase
      /\ effect' = [tag |-> Question[stage], id |-> lifecycle.id]
      /\ UNCHANGED <<auth, flow, policy>>
  BY <1>0 DEF AdvanceStage
<1>2. /\ jobs = <<>> /\ Len(jobs) = 0 /\ DOMAIN jobs = {}
      /\ \A k \in DOMAIN answers' : ~Mentions(answers'[k], lifecycle.id)
  BY SetupAnswer
<1>3. Question[stage] \in Backend
  BY DEF Question, Backend, ProvisioningStage
<1>4. /\ jobs' \in Seq(Jobs)
      /\ \A n \in DOMAIN jobs' : n = 1 /\ n = Len(jobs') /\ jobs'[n] = Job(effect')
  BY <1>0, <1>1, <1>2, <1>3, JobJoins
<1>5. /\ Job(effect').tag = Question[stage] /\ Mentions(Job(effect'), lifecycle.id)
      /\ stage = "Persisting" => Job(effect').metadata =
             NewMetadata(lifecycle.mode, lifecycle.passphrase)
      /\ Question[stage] = "PersistProvisioning" => stage = "Persisting"
  BY <1>1 DEF Job, Mentions, Question, ProvisioningStage
<1>6. SecretTypeOK'
  BY <1>0, <1>1, <1>4 DEF SecretTypeOK, QueuesOK, Handling, StateOK
<1>7. /\ StoredHasRoot' /\ WalletIsStored' /\ OpenedIsReal' /\ SessionUsesInstalledRoot'
      /\ WipeIsComing'
  BY <1>0, <1>1
  DEF SecretInv, Handling, StoredHasRoot, WalletIsStored, OpenedIsReal,
      SessionUsesInstalledRoot, IsUnlocked, IsProvisioned, WipeIsComing, Wiping, Mentions,
      SecretTypeOK, AuthState
<1>8. OneQuestion' /\ SetupAlone'
  BY <1>1, <1>2, <1>4, <1>5 DEF OneQuestion, SetupAlone
<1>9. SetupProved'
  BY <1>1, <1>2 DEF SetupProved, Handling, Proved
<1>10. CommitIsNext'
  <2>1. \A n \in DOMAIN jobs' : jobs'[n].tag = "PersistProvisioning" =>
            /\ n = 1 /\ stage = "Persisting"
            /\ jobs'[n].metadata = NewMetadata(lifecycle.mode, lifecycle.passphrase)
    BY <1>4, <1>5
  <2>2. NewMetadata(lifecycle.mode, lifecycle.passphrase).origin = "Generated" =>
            lifecycle.mode = "Create"
    BY <1>0, FormatsAssumption DEF NewMetadata, ProvisioningMode, RecoveryFormat
  <2>3. QED
    BY <1>1, <2>1, <2>2 DEF CommitIsNext, Handling, Proved
<1>11. QED
  BY <1>6, <1>7, <1>8, <1>9, <1>10 DEF SecretInv

LEMMA PersistedKeeps ==
    ASSUME SecretInv, IsProvisioning, NEW i \in DOMAIN answers, Handling(i),
           Mentions(answers[i], lifecycle.id), answers[i].tag = "ProvisioningPersisted",
           lifecycle' = Provisioned(NewMetadata(lifecycle.mode, lifecycle.passphrase)),
           auth' = Locked(0), flow' = Idle, effect'.tag \notin Backend, UNCHANGED policy
    PROVE  SecretInv'
<1>1. lifecycle' = stored
  BY DEF SecretInv, SetupProved
<1>2. jobs = <<>> /\ jobs' = jobs
  BY SetupAnswer DEF Handling, Submit
<1>3. /\ lifecycle'.tag = "Provisioned" /\ auth'.tag = "Locked"
      /\ \A id : ~Mentions(auth', id)
  BY DEF Provisioned, Locked, Mentions
<1>4. SecretTypeOK'
  BY <1>2 DEF SecretInv, SecretTypeOK, QueuesOK, Handling, StateOK
<1>5. StoredHasRoot' /\ WalletIsStored' /\ CommitIsNext'
  BY <1>1, <1>2, <1>3
  DEF SecretInv, Handling, StoredHasRoot, WalletIsStored, IsProvisioned, CommitIsNext
<1>6. /\ OneQuestion' /\ SetupAlone' /\ SetupProved' /\ WipeIsComing'
      /\ OpenedIsReal' /\ SessionUsesInstalledRoot'
  BY <1>3
  DEF OneQuestion, SetupAlone, SetupProved, WipeIsComing, IsProvisioning, OpenedIsReal,
      SessionUsesInstalledRoot, IsUnlocked, Wiping
<1>7. QED
  BY <1>4, <1>5, <1>6 DEF SecretInv

-----------------------------------------------------------------------------
(* The handlers *)

LEMMA RejectKeeps ==
    ASSUME SecretInv, NEW i, Handling(i), NEW reason, Reject(reason)
    PROVE  SecretInv'
<1>1. UNCHANGED wallet /\ effect'.tag \notin Backend
  BY DEF Reject, Rejection, Backend
<1>2. QED
  BY <1>1, RefusedKeeps

LEMMA WipeKeeps ==
    ASSUME SecretInv, NEW i, Handling(i), StartWipe
    PROVE  SecretInv'
<1>1. effect'.tag = "WipeWallet"
  BY DEF StartWipe
<1>2. QED
  BY <1>1, ResetKeeps DEF StartWipe

LEMMA LockKeeps ==
    ASSUME SecretInv, NEW i, Handling(i), LockWallet
    PROVE  SecretInv'
<1>1. CASE auth.tag \in {"Unavailable", "Locked"}
  <2>1. UNCHANGED wallet /\ effect'.tag \notin Backend
    BY <1>1 DEF LockWallet, SecretInv, SecretTypeOK, wallet, NoEffect, Backend
  <2>2. QED
    BY <2>1, RefusedKeeps
<1>2. CASE auth.tag \notin {"Unavailable", "Locked"}
  <2>1. /\ IsProvisioned /\ lifecycle' = lifecycle /\ flow' = Idle
        /\ effect'.tag \in SessionTags
        /\ auth'.tag = "Locked" /\ \A id : ~Mentions(auth', id)
    BY <1>2 DEF LockWallet, SecretInv, WalletIsStored, Locked, Mentions, SessionTags
  <2>2. QED
    BY <2>1, AttemptKeeps
<1>3. QED
  BY <1>1, <1>2

LEMMA BoardInv ==
    ASSUME SecretInv, NEW i, Handling(i),
           LockRequested \/ RuntimeFailure \/ TamperDetected \/ WipeCompleted
    PROVE  SecretInv'
<1>1. CASE LockRequested
  BY <1>1, LockKeeps DEF LockRequested
<1>2. CASE RuntimeFailure
  <2>1. CASE IsProvisioned
    BY <1>2, <2>1, LockKeeps DEF RuntimeFailure, IsProvisioned, Empty, Wiping
  <2>2. CASE lifecycle.tag = "Provisioning"
    <3>1. /\ lifecycle' = Empty /\ auth' = Unavailable /\ flow' = Idle
          /\ effect'.tag = "ClearSensitiveState" /\ Empty # Wiping
      BY <1>2, <2>2 DEF RuntimeFailure, ResetToEmpty, IsProvisioned, Empty, Wiping
    <3>2. QED
      BY <3>1, ResetKeeps
  <2>3. CASE ~IsProvisioned /\ lifecycle.tag # "Provisioning"
    <3>1. UNCHANGED wallet /\ effect'.tag \notin Backend
      BY <1>2, <2>3 DEF RuntimeFailure, NoEffect, Backend
    <3>2. QED
      BY <3>1, RefusedKeeps
  <2>4. QED
    BY <2>1, <2>2, <2>3
<1>3. CASE TamperDetected
  <2>1. CASE UNCHANGED wallet /\ effect' = NoEffect
    BY <2>1, RefusedKeeps DEF NoEffect, Backend
  <2>2. CASE StartWipe
    BY <2>2, WipeKeeps
  <2>3. QED
    BY <1>3, <2>1, <2>2 DEF TamperDetected
<1>4. CASE WipeCompleted
  <2>1. CASE lifecycle # Wiping
    BY <1>4, <2>1, RejectKeeps DEF WipeCompleted
  <2>2. CASE lifecycle = Wiping
    <3>1. /\ lifecycle' = Empty /\ auth' = Unavailable /\ flow' = Idle
          /\ effect'.tag = "WalletWiped" /\ Empty # Wiping
      BY <1>4, <2>2 DEF WipeCompleted, ResetToEmpty, Empty, Wiping
    <3>2. effect'.tag \notin Backend
      BY <3>1 DEF Backend
    <3>3. QED
      BY <3>1, <3>2, ResetKeeps
  <2>3. QED
    BY <2>1, <2>2
<1>5. QED
  BY <1>1, <1>2, <1>3, <1>4

\* An answer a setup waits for.
LEMMA SetupHandled ==
    ASSUME SecretInv, NEW i \in DOMAIN answers, Handling(i), "id" \in DOMAIN answers[i],
           answers[i].tag \in SetupAnswers \ {"PinVerified"}, Handle(answers[i])
    PROVE  SecretInv'
<1> DEFINE a == answers[i]
<1>0. lifecycle.id = a.id => Mentions(a, lifecycle.id)
  BY DEF Mentions
<1>1. ASSUME NEW reason, Reject(reason) PROVE SecretInv'
  BY <1>1, RejectKeeps
<1>2. CASE a.tag = "RecoveryMaterialCaptured"
  <2>1. CASE RecoveryMaterialRefusal(a.id) # Accepted
    BY <1>1, <1>2, <2>1 DEF Handle, RecoveryMaterialCaptured
  <2>2. CASE RecoveryMaterialRefusal(a.id) = Accepted
    <3>1. IsProvisioning /\ lifecycle.id = a.id
      BY <2>2 DEF RecoveryMaterialRefusal, CallbackRefusal, Accepted
    <3>2. AdvanceStage("DerivingRecoveredKeyMaterial",
                       Question["DerivingRecoveredKeyMaterial"])
      BY <1>2, <2>2 DEF Handle, RecoveryMaterialCaptured, Question
    <3>3. QED
      BY <1>0, <3>1, <3>2, AdvanceKeeps DEF ProvisioningStage, FirstStages
  <2>3. QED
    BY <2>1, <2>2
<1>3. CASE a.tag = "KeyMaterialReady"
  <2>1. CASE KeyMaterialRefusal(a.id) # Accepted
    BY <1>1, <1>3, <2>1 DEF Handle, KeyMaterialReady
  <2>2. CASE KeyMaterialRefusal(a.id) = Accepted
    <3>1. IsProvisioning /\ lifecycle.id = a.id
      BY <2>2 DEF KeyMaterialRefusal, CallbackRefusal, Accepted
    <3>2. \/ AdvanceStage("ShowingBackup", Question["ShowingBackup"])
          \/ /\ AdvanceStage("ConfiguringPin", Question["ConfiguringPin"])
             /\ lifecycle.mode # "Create"
      BY <1>3, <2>2 DEF Handle, KeyMaterialReady, Question, IsDerivingKey
    <3>3. QED
      BY <1>0, <3>1, <3>2, AdvanceKeeps DEF ProvisioningStage, FirstStages
  <2>3. QED
    BY <2>1, <2>2
<1>4. ASSUME NEW expected, NEW stage \in ProvisioningStage \ FirstStages,
             AdvanceProvisioning(a.id, expected, stage, Question[stage]),
             lifecycle.stage = expected /\ IsProvisioning /\ lifecycle.id = a.id =>
                 /\ stage = "VerifyingBackup" => backup = pending
                 /\ lifecycle.mode = "Create" /\ stage \in {"ConfiguringPin", "Persisting"} =>
                       pending \in Proved
      PROVE  SecretInv'
  <2>1. CASE StageRefusal(a.id, expected) # Accepted
    BY <1>1, <1>4, <2>1 DEF AdvanceProvisioning
  <2>2. CASE StageRefusal(a.id, expected) = Accepted
    <3>1. IsProvisioning /\ lifecycle.id = a.id /\ lifecycle.stage = expected
      BY <2>2 DEF StageRefusal, CallbackRefusal, Accepted
    <3>2. AdvanceStage(stage, Question[stage])
      BY <1>4, <2>2 DEF AdvanceProvisioning
    <3>3. QED
      BY <1>0, <1>4, <3>1, <3>2, AdvanceKeeps
  <2>3. QED
    BY <2>1, <2>2
<1>5. CASE a.tag = "BackupShown"
  <2>1. AdvanceProvisioning(a.id, "ShowingBackup", "VerifyingBackup",
                            Question["VerifyingBackup"])
    BY <1>5 DEF Handle, BackupShown, Question
  <2>2. IsProvisioning /\ lifecycle.id = a.id => backup = pending
    BY <1>0, <1>5 DEF SecretInv, SetupProved
  <2>3. QED
    BY <1>4, <2>1, <2>2 DEF ProvisioningStage, FirstStages
<1>6. CASE a.tag = "BackupVerified"
  <2>1. AdvanceProvisioning(a.id, "VerifyingBackup", "ConfiguringPin",
                            Question["ConfiguringPin"])
    BY <1>6 DEF Handle, BackupVerified, Question
  <2>2. IsProvisioning /\ lifecycle.id = a.id => pending \in Proved
    BY <1>0, <1>6 DEF SecretInv, SetupProved
  <2>3. QED
    BY <1>4, <2>1, <2>2 DEF ProvisioningStage, FirstStages
<1>7. CASE a.tag = "PinConfigured"
  <2>1. AdvanceProvisioning(a.id, "ConfiguringPin", "Persisting", Question["Persisting"])
    BY <1>7 DEF Handle, PinConfigured, Question
  <2>2. IsProvisioning /\ lifecycle.mode = "Create" /\ lifecycle.stage = "ConfiguringPin" =>
            pending \in Proved
    BY DEF SecretInv, SetupProved
  <2>3. QED
    BY <1>4, <2>1, <2>2 DEF ProvisioningStage, FirstStages
<1>8. CASE a.tag = "ProvisioningPersisted"
  <2>1. CASE ProvisioningPersistedRefusal(a.id) # Accepted
    BY <1>1, <1>8, <2>1 DEF Handle, ProvisioningPersisted
  <2>2. CASE ProvisioningPersistedRefusal(a.id) = Accepted
    <3>1. IsProvisioning /\ lifecycle.id = a.id
      BY <2>2 DEF ProvisioningPersistedRefusal, CallbackRefusal, Accepted
    <3>2. /\ lifecycle' = Provisioned(NewMetadata(lifecycle.mode, lifecycle.passphrase))
          /\ auth' = Locked(0) /\ flow' = Idle /\ UNCHANGED policy
          /\ effect'.tag \notin Backend
      BY <1>8, <2>2 DEF Handle, ProvisioningPersisted, Backend
    <3>3. QED
      BY <1>0, <1>8, <3>1, <3>2, PersistedKeeps
  <2>3. QED
    BY <2>1, <2>2
<1>9. QED
  BY <1>2, <1>3, <1>5, <1>6, <1>7, <1>8 DEF SetupAnswers

\* An attempt goes on under the id it has.
LEMMA AttemptGoesOn ==
    ASSUME SecretInv, NEW i, Handling(i), auth.tag # "Unavailable",
           UNCHANGED <<lifecycle, flow, policy>>,
           NEW stage \in {"VerifyingPin", "AwaitingPassphrase", "OpeningSession"},
           NEW trust, NEW failed, "id" \in DOMAIN auth,
           auth' = Attempt(stage, trust, failed),
           effect'.tag \in Backend => effect'.tag \in SessionTags
    PROVE  SecretInv'
<1>1. IsProvisioned /\ flow' = Idle
  BY DEF SecretInv, WalletIsStored, SecretTypeOK
<1>2. auth'.tag = stage /\ \A id : Mentions(auth', id) => Mentions(auth, id)
  BY DEF Attempt, Mentions
<1>3. QED
  BY <1>1, <1>2, AttemptKeeps

LEMMA AttemptHasId ==
    ASSUME SecretInv, auth.tag \in {"ResolvingHost", "VerifyingPin", "OpeningSession"}
    PROVE  "id" \in DOMAIN auth
  BY DEF SecretInv, SecretTypeOK, AuthState

LEMMA AuthHandled ==
    ASSUME SecretInv, NEW i \in DOMAIN answers, Handling(i),
           answers[i].tag \in {"HostTrustResolved", "PinVerified", "PinRejected",
                              "SessionOpened"}, Handle(answers[i])
    PROVE  SecretInv'
<1> DEFINE a == answers[i]
<1>1. ASSUME NEW reason, Reject(reason) PROVE SecretInv'
  BY <1>1, RejectKeeps
<1>2. CASE a.tag = "HostTrustResolved"
  <2> DEFINE refusal == CallbackRefusal(auth.tag = "ResolvingHost", auth.id, a.id)
  <2>1. CASE refusal # Accepted
    BY <1>1, <1>2, <2>1 DEF Handle, HostTrustResolved
  <2>2. CASE refusal = Accepted
    <3>1. auth.tag = "ResolvingHost"
      BY <2>2 DEF CallbackRefusal, Accepted
    <3>2. /\ auth' = Attempt("VerifyingPin", a.trust, auth.failed)
          /\ effect'.tag \in SessionTags /\ UNCHANGED <<lifecycle, flow, policy>>
      BY <1>2, <2>2 DEF Handle, HostTrustResolved, SessionTags
    <3>3. QED
      BY <3>1, <3>2, AttemptHasId, AttemptGoesOn
  <2>3. QED
    BY <2>1, <2>2
<1>3. CASE a.tag = "PinVerified"
  <2>1. CASE PinVerifiedRefusal(a.id) # Accepted
    BY <1>1, <1>3, <2>1 DEF Handle, PinVerified
  <2>2. CASE PinVerifiedRefusal(a.id) = Accepted
    <3>1. auth.tag = "VerifyingPin"
      BY <2>2 DEF PinVerifiedRefusal, CallbackRefusal, Accepted
    <3>2. PICK stage \in {"AwaitingPassphrase", "OpeningSession"} :
              /\ auth' = Attempt(stage, auth.trust, 0)
              /\ effect'.tag \in {"OpenSession", "RequestPassphrase"}
              /\ UNCHANGED <<lifecycle, flow, policy>>
      BY <1>3, <2>2 DEF Handle, PinVerified, OpenSession
    <3>3. effect'.tag \in Backend => effect'.tag \in SessionTags
      BY <3>2 DEF Backend, SessionTags
    <3>4. QED
      BY <3>1, <3>2, <3>3, AttemptHasId, AttemptGoesOn
  <2>3. QED
    BY <2>1, <2>2
<1>4. CASE a.tag = "PinRejected"
  <2> DEFINE count == a.failed_attempts
  <2>1. CASE PinRejectedRefusal(a.id, count) # Accepted
    BY <1>1, <1>4, <2>1 DEF Handle, PinRejected
  <2>2. CASE PinRejectedRefusal(a.id, count) = Accepted
    <3>1. auth.tag = "VerifyingPin"
      BY <2>2 DEF PinRejectedRefusal, CallbackRefusal, Accepted
    <3>2. CASE StartWipe
      BY <3>2, WipeKeeps
    <3>3. CASE ~StartWipe
      <4>1. /\ auth' = Locked(count) /\ effect'.tag = "AuthenticationFailed"
            /\ UNCHANGED <<lifecycle, flow, policy>>
        BY <1>4, <2>2, <3>3 DEF Handle, PinRejected
      <4>2. /\ IsProvisioned /\ flow' = Idle /\ auth'.tag = "Locked"
            /\ \A id : ~Mentions(auth', id) /\ effect'.tag \notin Backend
        BY <3>1, <4>1
        DEF SecretInv, WalletIsStored, SecretTypeOK, Locked, Mentions, Backend
      <4>3. QED
        BY <4>1, <4>2, AttemptKeeps
    <3>4. QED
      BY <3>2, <3>3
  <2>3. QED
    BY <2>1, <2>2
<1>5. CASE a.tag = "SessionOpened"
  <2> DEFINE refusal == CallbackRefusal(auth.tag = "OpeningSession", auth.id, a.id)
  <2>1. CASE refusal # Accepted
    BY <1>1, <1>5, <2>1 DEF Handle, SessionOpened
  <2>2. CASE refusal = Accepted
    <3>1. auth.tag = "OpeningSession" /\ auth.id = a.id
      BY <2>2 DEF CallbackRefusal, Accepted
    <3>2. \E c \in contexts : c.id = a.wallet /\ c.root = root
      BY <1>5, <3>1, AttemptHasId DEF SecretInv, OpenedIsReal, Mentions
    <3>3. /\ auth'.tag = "Unlocked" /\ auth'.wallet = a.wallet
          /\ \A id : ~Mentions(auth', id)
          /\ effect'.tag \notin Backend /\ UNCHANGED <<lifecycle, flow, policy>>
      BY <1>5, <2>2 DEF Handle, SessionOpened, Mentions, Backend
    <3>4. OpenedIsReal' /\ SessionUsesInstalledRoot'
      BY <3>2, <3>3 DEF OpenedIsReal, SessionUsesInstalledRoot, Handling
    <3>5. IsProvisioned /\ flow' = Idle
      BY <3>1, <3>3 DEF SecretInv, WalletIsStored, SecretTypeOK
    <3>6. QED
      BY <3>3, <3>4, <3>5, SessionKeeps
  <2>3. QED
    BY <2>1, <2>2
<1>6. QED
  BY <1>2, <1>3, <1>4, <1>5

\* No flow is open, so that its answers are refused.
LEMMA FlowHandled ==
    ASSUME SecretInv, NEW i \in DOMAIN answers, Handling(i),
           answers[i].tag \in {"TrustedHostPersisted", "SettingChangePersisted",
                              "PinChanged"}, Handle(answers[i])
    PROVE  SecretInv'
<1>1. flow.tag = "Idle"
  BY DEF SecretInv, SecretTypeOK, Idle
<1>2. \E reason : Reject(reason)
  BY <1>1
  DEF Handle, TrustedHostPersisted, EndPairing, IsPairing, SettingChangePersisted,
      SettingsRefusal, PinChanged, PinChangedRefusal, IsMaintenance,
      CallbackRefusal, Accepted
<1>3. QED
  BY <1>2, RejectKeeps

LEMMA ReceiveInv ==
    ASSUME SecretInv, NEW i \in DOMAIN answers, Receive(i)
    PROVE  SecretInv'
<1>1. /\ answers \in Seq(Answers) /\ answers' = RemoveAt(answers, i)
      /\ Handle(answers[i]) /\ Submit /\ UNCHANGED <<keyVars, stored, checked>>
  BY DEF SecretInv, SecretTypeOK, QueuesOK, Receive, Deliver
<1>2. answers[i] \in Answers /\ i \in Nat
  BY <1>1, ElementOfSeq, LenProperties
<1>3. answers' \in Seq(Answers)
  BY <1>1, QueueRemove
<1>4. StateOK'
  BY <1>1, <1>2, HandleTypes, SecretStateOK DEF SecretInv
<1>5. Handling(i)
  BY <1>1, <1>2, <1>3, <1>4, OneLeaves DEF Handling, keyVars
<1>6. CASE answers[i].tag \in {"WipeCompleted", "RuntimeFailure"}
  BY <1>1, <1>5, <1>6, BoardInv DEF Handle
<1>7. CASE answers[i].tag \in SetupAnswers \ {"PinVerified"}
  <2>1. "id" \in DOMAIN answers[i]
    BY <1>2, <1>7 DEF SetupAnswers, Answers
  <2>2. QED
    BY <1>1, <1>5, <1>7, <2>1, SetupHandled
<1>8. CASE answers[i].tag \in {"HostTrustResolved", "PinVerified", "PinRejected",
                              "SessionOpened"}
  BY <1>1, <1>5, <1>8, AuthHandled
<1>9. CASE answers[i].tag \in {"TrustedHostPersisted", "SettingChangePersisted",
                              "PinChanged"}
  BY <1>1, <1>5, <1>9, FlowHandled
<1>10. QED
  BY <1>2, <1>6, <1>7, <1>8, <1>9 DEF Answers, SetupAnswers

LEMMA RequestInv == ASSUME SecretInv, Request PROVE SecretInv'
<1>1. PICK id \in Ids :
          /\ Fresh(id)
          /\ \/ lifecycle = Empty /\ \E p \in Modes : StartCreate(id, p)
             \/ lifecycle = Empty /\ \E f \in Formats, p \in Modes : StartRecovery(id, f, p)
             \/ \E h \in Hosts : UnlockRefusal = Accepted /\ UnlockRequested(id, h)
  BY DEF Request
<1>2. StateOK'
  BY <1>1, SetupTypes, AuthTypes, SecretStateOK DEF SecretInv, SetupHandlers, AuthHandlers
<1>3. PICK i \in Nat : Handling(i)
  BY <1>2, InputHandling DEF Request
<1>4. CASE lifecycle = Empty
  <2>1. /\ lifecycle'.tag = "Provisioning" /\ lifecycle'.id = id
        /\ lifecycle'.stage \in FirstStages /\ effect'.tag = Question[lifecycle'.stage]
        /\ UNCHANGED <<auth, flow, policy>>
    BY <1>1, <1>4
    DEF StartCreate, StartRecovery, StartSetup, FirstStages, Question, Empty, UnlockRefusal,
        IsProvisioned, Accepted
  <2>2. QED
    BY <1>1, <1>3, <1>4, <2>1, SetupBegins
<1>5. CASE lifecycle # Empty
  <2>1. PICK h \in Hosts : UnlockRefusal = Accepted /\ UnlockRequested(id, h)
    BY <1>1, <1>5
  <2>2. /\ IsProvisioned /\ lifecycle' = lifecycle /\ flow' = flow
        /\ auth'.tag = "ResolvingHost" /\ effect'.tag = "ResolveHostTrust"
        /\ \A n : Mentions(auth', n) => n = id
    BY <2>1 DEF UnlockRefusal, UnlockRequested, Accepted, Mentions
  <2>3. /\ flow' = Idle /\ effect'.tag \in SessionTags
        /\ \A k \in DOMAIN answers : ~Mentions(answers[k], id)
    BY <1>1, <2>2 DEF SecretInv, SecretTypeOK, SessionTags, Fresh
  <2>4. QED
    BY <1>3, <2>2, <2>3, AttemptKeeps
<1>6. QED
  BY <1>4, <1>5

LEMMA DisturbanceInv == ASSUME SecretInv, Disturbance PROVE SecretInv'
<1>1. LockRequested \/ RuntimeFailure \/ TamperDetected
  BY DEF Disturbance
<1>2. StateOK'
  BY <1>1, BoardTypes, SecretStateOK DEF SecretInv, BoardHandlers
<1>3. PICK i \in Nat : Handling(i)
  BY <1>2, InputHandling DEF Disturbance
<1>4. QED
  BY <1>1, <1>3, BoardInv

-----------------------------------------------------------------------------
(* The theorems *)

\* A device that rests with empty queues on what its store holds.
Booted ==
    /\ lifecycle = stored /\ stored \in Lifecycle /\ stored.tag \in {"Empty", "Provisioned"}
    /\ auth = IF stored.tag = "Provisioned" THEN Locked(0) ELSE Unavailable
    /\ flow = Idle /\ policy \in SecurityPolicy /\ effect = NoEffect
    /\ jobs = <<>> /\ answers = <<>> /\ next_context_id = 1 /\ StoredHasRoot

LEMMA BootedInv == Booted => SecretInv
<1> SUFFICES ASSUME Booted PROVE SecretInv
  OBVIOUS
<1>1. jobs \in Seq(Jobs) /\ answers \in Seq(Answers) /\ DOMAIN jobs = {} /\ DOMAIN answers = {}
  BY EmptySeq DEF Booted
<1>2. auth \in AuthState /\ effect \in Effect
  BY RetryAssumption DEF Booted, AuthState, Effect, Locked, Unavailable, NoEffect, RetryCount
<1>3. SecretTypeOK
  BY <1>1, <1>2, ContextIdAssumption, ContextIdsAreWallets DEF Booted, SecretTypeOK, QueuesOK
<1>4. /\ auth.tag \in {"Locked", "Unavailable"}
      /\ auth.tag # "Unavailable" => IsProvisioned
      /\ lifecycle.tag \in {"Empty", "Provisioned"}
  BY DEF Booted, Locked, Unavailable, IsProvisioned
<1>5. WalletIsStored
  BY <1>1, <1>4 DEF Booted, WalletIsStored
<1>6. /\ OneQuestion /\ SetupAlone /\ SetupProved /\ WipeIsComing
      /\ SessionUsesInstalledRoot
  BY <1>4
  DEF OneQuestion, SetupAlone, SetupProved, WipeIsComing, SessionUsesInstalledRoot,
      IsProvisioning, IsUnlocked, Wiping
<1>7. CommitIsNext /\ OpenedIsReal
  BY <1>1 DEF CommitIsNext, OpenedIsReal
<1>8. QED
  BY <1>3, <1>5, <1>6, <1>7 DEF SecretInv, Booted

LEMMA InitInv == ASSUME Init PROVE SecretInv
<1>1. Booted
  BY PoliciesAssumption
  DEF Init, NewWallet, Booted, KeyInit, Empty, Lifecycle, NoEffect, StoredHasRoot
<1>2. QED
  BY <1>1, BootedInv

LEMMA PowerLossInv == ASSUME SecretInv, PowerLoss PROVE SecretInv'
<1>1. Booted'
  BY DEF PowerLoss, Boot, Reboot, SecretInv, SecretTypeOK, StoredHasRoot, Booted
<1>2. QED
  BY <1>1, BootedInv, PTL

\* The reducer, the queues, the staged root and the store stay in step.
THEOREM SecretInductive == Spec => []SecretInv
<1>1. Init => SecretInv
  BY InitInv
<1>2. SecretInv /\ [Next]_vars => SecretInv'
  <2> SUFFICES ASSUME SecretInv, [Next]_vars PROVE SecretInv'
    OBVIOUS
  <2>1. ASSUME NEW i \in DOMAIN answers, Receive(i) PROVE SecretInv'
    BY <2>1, ReceiveInv
  <2>2. CASE UNCHANGED vars
    <3>1. UNCHANGED <<lifecycle, auth, flow, policy, effect, jobs, answers, root, pending,
                      next_context_id, contexts, backup, stored, checked>>
      BY <2>2 DEF vars
    <3>2. SecretTypeOK' /\ StoredHasRoot' /\ WalletIsStored'
      BY <3>1 DEF SecretInv, SecretTypeOK, QueuesOK, StoredHasRoot, WalletIsStored, IsProvisioned
    <3>3. OneQuestion' /\ SetupAlone'
      BY <3>1 DEF SecretInv, OneQuestion, SetupAlone, IsProvisioning
    <3>4. SetupProved' /\ CommitIsNext'
      BY <3>1 DEF SecretInv, SetupProved, CommitIsNext, IsProvisioning, Proved
    <3>5. OpenedIsReal' /\ SessionUsesInstalledRoot' /\ WipeIsComing'
      BY <3>1
      DEF SecretInv, OpenedIsReal, SessionUsesInstalledRoot, IsUnlocked, WipeIsComing
    <3>6. QED
      BY <3>2, <3>3, <3>4, <3>5 DEF SecretInv
  <2>3. QED
    BY <2>1, <2>2, RequestInv, DisturbanceInv, PerformInv, PowerLossInv DEF Next
<1>3. QED
  BY <1>1, <1>2, PTL DEF Spec

\* An open session works on the root that is installed, although wipes restart
\* the context ids and late answers of earlier attempts are still delivered.
THEOREM SessionsUseTheRoot == Spec => []SessionUsesInstalledRoot
<1>1. SecretInv => SessionUsesInstalledRoot
  BY DEF SecretInv
<1>2. QED
  BY <1>1, SecretInductive, PTL

\* A wallet the reducer calls provisioned has a root in the store, and a
\* generated one the root whose backup the user proved.
THEOREM WalletsHaveRoots == Spec => []ProvisionedWalletHasRoot
<1>1. SecretInv => ProvisionedWalletHasRoot
  BY DEF SecretInv, StoredHasRoot, WalletIsStored, ProvisionedWalletHasRoot, IsProvisioned
<1>2. QED
  BY <1>1, SecretInductive, PTL

\* When the reducer leaves Wiping and no other wipe is asked for, the store is
\* empty.  The number of WipeCompleted in flight does not matter.
THEOREM WipesErase == Spec => OneWipeMeansGone
<1>1. SecretInv =>
          (lifecycle = Wiping /\ (\A i \in DOMAIN jobs : jobs[i].tag # "WipeWallet")
               => root = NoRoot)
  BY DEF SecretInv, WipeIsComing
<1>2. SecretInv =>
          [(/\ lifecycle = Wiping /\ effect'.tag = "WalletWiped"
            /\ \A i \in DOMAIN jobs : jobs[i].tag # "WipeWallet"
            /\ \A i, j \in DOMAIN answers :
                  answers[i].tag = "WipeCompleted" /\ answers[j].tag = "WipeCompleted" => i = j)
               => root = NoRoot]_vars
  BY <1>1
<1>3. QED
  BY <1>2, SecretInductive, PTL DEF OneWipeMeansGone

\* The device drives its key lifecycle only by the calls KeyLifecycle offers:
\* every step is one of them or leaves the secrets alone, so what is proved of
\* KeyLifecycle holds in the device.
THEOREM DeviceUsesKeyLifecycle == Spec => KeySpec
<1>1. Init => KeyInit
  BY DEF Init
<1>2. [Next]_vars => [KeyNext]_keyVars
  <2> SUFFICES ASSUME [Next]_vars PROVE [KeyNext]_keyVars
    OBVIOUS
  <2>1. CASE \/ Request \/ Disturbance \/ UNCHANGED vars \/ UserStep
             \/ \E i \in DOMAIN answers : Receive(i)
    BY <2>1 DEF Request, Disturbance, UserStep, Receive, vars, keyVars
  <2>2. CASE StageRoot \/ ShowMnemonic \/ CommitRoot
    BY <2>2 DEF StageRoot, ShowMnemonic, CommitRoot, KeyNext
  <2>3. CASE OpenWallet \/ ClearSecrets \/ EraseWallet \/ PowerLoss
    BY <2>3 DEF OpenWallet, ClearSecrets, EraseWallet, PowerLoss, KeyNext
  <2>4. QED
    BY <2>1, <2>2, <2>3 DEF Next, Perform
<1>3. QED
  BY <1>1, <1>2, PTL DEF Spec, KeySpec

\* So whatever late answers, failures and power losses the device meets, its
\* context ids name one seed each, the backup is of the root it will commit, a
\* wiped root does not return, and a failing store costs no staged root.
THEOREM DeviceKeepsRoots ==
    Spec => /\ [](/\ ContextNamesOneSeed
                  /\ BackupIsOfStagedRoot
                  /\ WipedRootsStayGone)
            /\ StagedRootIsNotLost
  BY DeviceUsesKeyLifecycle, ContextsAreNamed, BackupsMatch, WipesAreFinal,
     StagedRootsAreKept, PTL
=============================================================================
