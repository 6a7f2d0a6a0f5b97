--------------------------- MODULE SigningSession ---------------------------
(***************************************************************************)
(* From a host's request to its response: the reducer, by what it promises *)
(* (SigningGate), the chain adapters, the key runtime, and the driver that *)
(* runs an approved execution (crates/chain-bitcoin/examples show it).           *)
(*                                                                         *)
(* An ExecutionContext is a copy, so an execution can outlive the session  *)
(* it was prepared in.  A lock makes the runtime drop its secrets          *)
(* (ClearSensitiveState), but the driver may go on and may meet the keys   *)
(* of a later session; after a wipe, which restarts the context ids, even  *)
(* under the id it is bound to.                                            *)
(***************************************************************************)
EXTENDS ChainBitcoin, ChainEthereum, ChainSolana

CONSTANTS
    Hosts,
    Seeds,          \* what roots and passphrases make
    MaxContextId,   \* the last wallet context id
    Requests        \* what hosts ask for

ASSUME ContextIdAssumption == MaxContextId \in Nat

VARIABLES
    session, job,   \* the reducer, as SigningGate sees it
    contexts,       \* the seeds of contexts 1, 2, ... since the last wipe
    review,         \* the result of prepare_review for the job, or None
    runtime,        \* the SoftwareKeyBackend of the driver's CryptoRuntime
    consented,      \* observer: the user confirmed the job on the device
    subject         \* observer: what the execution was prepared for, or None

deviceVars == <<session, job, contexts, review, consented>>
sessionVars == <<deviceVars, execVars, runtime, subject>>

Wallets == 1..MaxContextId

Gate == INSTANCE SigningGate

Idle == exec = None

Init ==
    /\ Gate!Init
    /\ contexts = <<>>
    /\ review = None /\ consented = FALSE
    /\ exec = None /\ op = None /\ answer = None /\ outcome = Pending
    /\ runtime = None /\ subject = None

-----------------------------------------------------------------------------
(* ChainModule, by chain *)

PrepareReview(request) ==
    CASE request.chain = "bitcoin" -> BitcoinReview(request)
      [] request.chain = "ethereum" -> EthereumReview(request)
      [] request.chain = "solana" -> SolanaReview(request)

ReviewPlan(r) ==
    IF r.kind \in PublicKeyKinds THEN PublicKeyPlan(r.kind) ELSE SigningPlan

PrepareExecution(r, context) ==
    CASE r.chain = "bitcoin" -> BitcoinExecution(r, context)
      [] r.chain = "ethereum" -> EthereumExecution(r, context)
      [] r.chain = "solana" -> SolanaExecution(r, context)

Payload(id) ==
    CASE exec.chain = "bitcoin" -> BitcoinPayload(id)
      [] exec.chain = "ethereum" -> EthereumPayload(id)
      [] exec.chain = "solana" -> SolanaPayload(id)

\* What a decoded request is: chain and kind are enums, amounts are u64.
ASSUME RequestsAreTyped ==
    \A q \in Requests :
        /\ q.chain \in {"bitcoin", "ethereum", "solana"}
        /\ q.kind \in PublicKeyKinds \cup {"SignMessage", "SignTransaction"}
        /\ q.chain = "bitcoin" /\ q.kind = "SignTransaction" =>
              LET tx == UnsignedTx(q.psbt)
                  utxo == WitnessUtxo(q.psbt)
              IN /\ tx # None /\ tx.tx # None => tx.tx.amount \in Nat
                 /\ utxo # None => utxo.amount \in Nat

-----------------------------------------------------------------------------
(* The device *)

\* KeyLifecycle::open_context counts up and derives the seed; OpenSession tells
\* the reducer the id.  Whether the host is trusted plays no part from here on.
Open(host, seed) ==
    /\ Len(contexts) < MaxContextId
    /\ contexts' = Append(contexts, seed)
    /\ Gate!OpenSession(host, Len(contexts'), "Trusted")
    /\ UNCHANGED <<review, consented, execVars, runtime, subject>>

\* The session ends, if there is one, and the secrets in RAM go: with a lock by
\* ClearSensitiveState, with a wipe as part of WipeWallet.  The execution of the
\* job, if any, is on its own from here.
LeaveSession(wipe) ==
    /\ Gate!CloseSession
    /\ review' = None /\ consented' = FALSE
    /\ runtime' = None
    /\ subject' = IF subject = None THEN None
                  ELSE [subject EXCEPT !.live = FALSE, !.wiped = @ \/ wipe,
                                       !.seeds = IF wipe THEN Seeds ELSE @]
    /\ UNCHANGED execVars

\* Lock, expiry, disconnect.
Lock == LeaveSession(FALSE) /\ UNCHANGED contexts

\* Factory reset, tampering or exhausted PIN, to the end of the wipe: the next
\* wallet's contexts have the ids of this one's.
Wipe == LeaveSession(TRUE) /\ contexts' = <<>>

Request(request) ==
    /\ Gate!Submit
    /\ review' = PrepareReview(request)
    /\ consented' = FALSE
    /\ UNCHANGED <<contexts, execVars, runtime, subject>>

PlanReview ==
    /\ Gate!Plan
    /\ review.tag = "Ok"
    /\ job'.key = ReviewPlan(review.value).uses_private_key
    /\ UNCHANGED <<contexts, review, consented, execVars, runtime, subject>>

\* Without a key to protect, what is only displayed runs once it is shown.
ShowReview ==
    /\ job.tag = "Planned"
    /\ IF ReviewPlan(review.value).interaction = "Display" /\ ~job.key
       THEN Gate!RunShown ELSE Gate!Present
    /\ UNCHANGED <<contexts, review, consented, execVars, runtime, subject>>

ConfirmReview ==
    /\ Gate!Consent
    /\ consented' = TRUE
    /\ UNCHANGED <<contexts, review, execVars, runtime, subject>>

DropExecution ==
    /\ exec' = None /\ op' = None /\ answer' = None /\ outcome' = Pending
    /\ subject' = None

EndJob ==
    /\ Gate!EndJob
    /\ review' = None /\ consented' = FALSE

\* The host cancels, the user rejects, or the request was not understood;
\* AbortOperation ends the execution of this job and no other.
CancelJob ==
    /\ job # Gate!NoJob
    /\ EndJob
    /\ IF subject # None /\ subject.live THEN DropExecution
       ELSE UNCHANGED <<execVars, subject>>
    /\ UNCHANGED <<contexts, runtime>>

-----------------------------------------------------------------------------
(* The driver *)

BeginExecution ==
    /\ Idle
    /\ job.tag = "Running"
    /\ exec' = PrepareExecution(review.value, session.wallet)
    /\ subject' = [review |-> review.value, wallet |-> session.wallet,
                   seeds |-> {contexts[session.wallet]}, consented |-> consented,
                   live |-> TRUE, wiped |-> FALSE]
    /\ UNCHANGED <<deviceVars, op, answer, outcome, runtime>>

\* execution.next(answer), also when there is none yet.
CallNext ==
    /\ ~Idle
    /\ outcome.tag # "Err"
    /\ \/ BitcoinNext
       \/ EthereumNext
       \/ SolanaNext
       \/ ExecutionFinished
    /\ UNCHANGED <<deviceVars, runtime, subject>>

\* HdKeyBackend::software_backend, with the keys of the session of now.
MaterializeKey ==
    /\ ~Idle
    /\ op # None /\ answer = None /\ outcome = Pending
    /\ session # Gate!Closed
    /\ LET hd == HdKeyBackend(session.wallet, contexts[session.wallet], exec.chain)
       IN \/ /\ \E e \in DeriveRefusal(hd, exec.key) : Refuse(e)
             /\ UNCHANGED runtime
          \/ /\ DeriveRefusal(hd, exec.key) = {}
             /\ runtime' = SoftwareBackend(hd, exec.key)
             /\ UNCHANGED execVars
    /\ UNCHANGED <<deviceVars, subject>>

\* What the execution owns as the payload of its operation.
OpPayload == IF op.type = "DerivePublicKey" THEN None ELSE Payload(op.payload)

\* CryptoRuntime::execute with that payload.  A driver has a runtime for each
\* key family: authorize does not compare families.
ExecuteCrypto ==
    /\ ~Idle
    /\ op # None /\ answer = None /\ outcome = Pending
    /\ runtime # None /\ runtime.secret.family = Family(exec.chain)
    /\ \/ \E e \in ExecuteRefusal(runtime, op, OpPayload) : Refuse(e)
       \/ /\ ExecuteRefusal(runtime, op, OpPayload) = {}
          /\ answer' \in ExecuteOutput(runtime, op, OpPayload)
          /\ UNCHANGED <<exec, op, outcome>>
    /\ UNCHANGED <<deviceVars, runtime, subject>>

Retry ==
    /\ outcome.tag = "Err"
    /\ outcome' = Pending
    /\ UNCHANGED <<deviceVars, exec, op, answer, runtime, subject>>

\* OperationCompleted or OperationFailed; the reducer ignores the report of an
\* operation that is no longer pending.  The key may be kept for the next one.
Report ==
    /\ outcome # Pending
    /\ DropExecution
    /\ IF subject.live THEN EndJob ELSE UNCHANGED <<session, job, review, consented>>
    /\ runtime' \in {runtime, None}
    /\ UNCHANGED contexts

DropStale ==
    /\ ~Idle
    /\ ~subject.live
    /\ DropExecution
    /\ UNCHANGED <<deviceVars, runtime>>

Driver == \/ BeginExecution
          \/ CallNext
          \/ MaterializeKey
          \/ ExecuteCrypto
          \/ Report
          \/ DropStale

Next ==
    \/ \E h \in Hosts, s \in Seeds : Open(h, s)
    \/ Lock
    \/ Wipe
    \/ \E r \in Requests : Request(r)
    \/ PlanReview
    \/ ShowReview
    \/ ConfirmReview
    \/ CancelJob
    \/ Driver
    \/ Retry

Spec == Init /\ [][Next]_sessionVars

\* The driver is a loop that runs until the execution is over, and does not
\* try again for ever what keeps failing.
FairSpec == Spec /\ WF_sessionVars(Driver) /\ SF_sessionVars(Report)

-----------------------------------------------------------------------------
(* Properties *)

SecretOf(r, seed) == Secret(Family(r.chain), seed, r.key.path)

\* The key the user reviewed, in the wallets that the execution's wallet id can
\* have named to it: the one in which the job was accepted, and after a wipe any.
ReviewedSecrets == {SecretOf(subject.review, seed) : seed \in subject.seeds}
ReviewedPublicKeys(format) == {PublicKey(secret, format) : secret \in ReviewedSecrets}

\* What a signature of the reviewed transaction has to cover.
SigningPayload(r) ==
    CASE r.chain = "bitcoin" ->
            Bip143(r.tx, r.input_amount, r.input_program,
                   Digest("DoubleSha256", Part("Prevouts", r.tx)),
                   Digest("DoubleSha256", Part("Sequence", r.tx)),
                   Digest("DoubleSha256", Part("Outputs", r.tx)))
      [] r.chain = "ethereum" -> r.unsigned
      [] r.chain = "solana" -> r.message

\* What was shown is all that is signed: on Bitcoin the amount and the fee
\* are the whole input, on Ethereum the call has the shown destination and
\* value and no data, on Solana the signer pays the shown recipient.
ShownIsSigned(r, response) ==
    CASE r.chain = "bitcoin" ->
            /\ r.fee \in Nat
            /\ r.fee + response.tx.amount = response.signature.payload.amount
      [] r.chain = "ethereum" ->
            /\ response.fields[6].payload = r.destination
            /\ response.fields[7].payload = r.value
            /\ \A i \in 8..Len(response.fields) : response.fields[i].payload = None
      [] r.chain = "solana" ->
            LET transfer == response.message.instructions[1]
                account(i) == response.message.accounts[transfer.accounts[i] + 1]
            IN /\ <<account(1), account(2)>> = <<r.signer, r.recipient>>
               /\ transfer.lamports = r.lamports

\* A response that leaves an execution is what the user reviewed, made with
\* the reviewed key of the wallet in which the job was accepted: the public key
\* of that key, or the transaction signed by it over exactly the reviewed bytes
\* and nothing that was not shown, whichever key of the session the driver's
\* runtime was last given and whatever failed and was retried on the way.  Only
\* an execution that was kept while the device was wiped may have used the same
\* key of another wallet, and then too for nothing but the reviewed bytes, on
\* Bitcoin after a key that owns the input.
ResponseMatchesReview ==
    outcome.tag = "Complete" =>
        LET r == subject.review
            response == outcome.response
        IN IF r.kind \in PublicKeyKinds
           THEN response.bytes \in ReviewedPublicKeys(exec.format)
           ELSE /\ response.signature.secret \in ReviewedSecrets
                /\ response.signature.payload = SigningPayload(r)
                /\ ShownIsSigned(r, response)
                /\ r.chain = "bitcoin" =>
                      /\ response.witness \in ReviewedPublicKeys("Compressed")
                      /\ Digest("Hash160", response.witness) = r.input_program

\* Bitcoin and Solana ask for a signature only after a key of the wallet has
\* proved to be the one the transaction spends from; a wrong key is found out
\* before anything asks for its signature.  (The request has no memory of the key
\* that proved itself: over a wipe another may answer, see above.)
KeyProvenBeforeSigning ==
    op # None /\ op.type = "Sign" =>
        LET r == subject.review
        IN /\ r.chain = "bitcoin" =>
                 /\ exec.public_key \in ReviewedPublicKeys("Compressed")
                 /\ Digest("Hash160", exec.public_key) = r.input_program
                 /\ r.psbt_pubkey \in {None, exec.public_key}
           /\ r.chain = "solana" => r.signer \in ReviewedPublicKeys("Raw")

\* A signature comes into being only for an operation the user confirmed, and
\* only while it is running in the session it was confirmed in: an execution
\* left over from an earlier session of the same wallet signs nothing, not even
\* with the same seed.  The exception is one that was kept while the device was
\* wiped; it signs in the session that has its context id again, and no other.
SignatureHasConsent ==
    [][answer = None /\ answer' # None /\ answer'.type = "Signature" =>
           /\ subject.consented
           /\ session # Gate!Closed /\ session.wallet = subject.wallet
           /\ ~subject.wiped => subject.live /\ job.tag = "Running" /\ job.key
      ]_sessionVars

\* Every operation that was handed to the driver ends.
OperationEnds == job.tag = "Running" ~> job.tag # "Running"

-----------------------------------------------------------------------------
(* What the invariants need to be inductive.  The state of an execution is *)
(* pinned to what was reviewed: at every stage it is one of the records    *)
(* below, it has asked for what its stage says, and the answer the driver  *)
(* holds is that of the reviewed key.                                      *)

\* The reviews the adapters can produce.
Reviews == {PrepareReview(q).value : q \in {p \in Requests : PrepareReview(p).tag = "Ok"}}

Subjects == [review: Reviews, wallet: Wallets, seeds: SUBSET Seeds,
             consented: BOOLEAN, live: BOOLEAN, wiped: BOOLEAN]

PublicKeyFormat(chain) ==
    CASE chain = "bitcoin" -> "Compressed"
      [] chain = "ethereum" -> "Uncompressed"
      [] chain = "solana" -> "Raw"

PublicKeyExecutions(r, w) ==
    [chain: {r.chain}, kind: {"PublicKey"},
     stage: {"Ready", "AwaitingPublicKey", "AwaitingCrypto", "Finished"},
     key: {BindKey(w, r.key)}, format: {PublicKeyFormat(r.chain)}]

\* The stages of the Bitcoin execution, by what they have behind them.
PreimageBuilt == {"AwaitingSignature", "Finished"}
SequenceHashed == {"AwaitingOutputsHash"} \cup PreimageBuilt
PrevoutsHashed == {"AwaitingSequenceHash"} \cup SequenceHashed
InputProven == {"AwaitingPrevoutsHash"} \cup PrevoutsHashed
KeyTaken == {"AwaitingPubkeyHash"} \cup InputProven
BitcoinStages == {"Ready", "AwaitingPublicKey"} \cup KeyTaken

PartDigest(name, r) == Digest("DoubleSha256", Part(name, r.tx))

P2wpkhExecutions(r, w) ==
    [chain: {"bitcoin"}, kind: {"P2wpkh"}, stage: BitcoinStages,
     key: {BindKey(w, r.key)}, format: {"Compressed"}, tx: {r.tx},
     input_amount: {r.input_amount}, input_program: {r.input_program},
     expected_pubkey: {r.psbt_pubkey},
     public_key: {None} \cup {PublicKey(SecretOf(r, seed), "Compressed") : seed \in Seeds},
     hash_prevouts: {None, PartDigest("Prevouts", r)},
     hash_sequence: {None, PartDigest("Sequence", r)},
     preimage: {None, SigningPayload(r)}]

Eip1559Executions(r, w) ==
    [chain: {"ethereum"}, kind: {"Eip1559"},
     stage: {"Ready", "AwaitingCrypto", "Finished"},
     key: {BindKey(w, r.key)}, unsigned: {r.unsigned}]

TransferExecutions(r, w) ==
    [chain: {"solana"}, kind: {"SystemTransfer"},
     stage: {"Ready", "AwaitingPublicKey", "AwaitingSignature", "Finished"},
     key: {BindKey(w, r.key)}, format: {"Raw"}, signer: {r.signer},
     message: {r.message}]

Executions(r, w) ==
    CASE r.kind \in PublicKeyKinds -> PublicKeyExecutions(r, w)
      [] r.kind \notin PublicKeyKinds /\ r.chain = "bitcoin" -> P2wpkhExecutions(r, w)
      [] r.kind \notin PublicKeyKinds /\ r.chain = "ethereum" -> Eip1559Executions(r, w)
      [] r.kind \notin PublicKeyKinds /\ r.chain = "solana" -> TransferExecutions(r, w)

\* Option::None is none of these.
ASSUME NoneIsNothing ==
    /\ None \notin Subjects
    /\ \A r \in Reviews, w \in Wallets : None \notin Executions(r, w)

\* What an execution has asked for, by its stage.
AskedBy(e) ==
    CASE e.stage \in {"Ready", "Finished"} -> None
      [] e.stage = "AwaitingPublicKey" -> DerivePublicKey(e.key, e.format)
      [] e.stage = "AwaitingCrypto" ->
            IF e.kind = "PublicKey" THEN DerivePublicKey(e.key, e.format)
            ELSE Sign(e.key, "EcdsaRecoverable", "Keccak256", "Eip1559")
      [] e.stage = "AwaitingPubkeyHash" -> Hash("Hash160", "PubkeyHash")
      [] e.stage = "AwaitingPrevoutsHash" -> Hash("DoubleSha256", "Prevouts")
      [] e.stage = "AwaitingSequenceHash" -> Hash("DoubleSha256", "Sequence")
      [] e.stage = "AwaitingOutputsHash" -> Hash("DoubleSha256", "Outputs")
      [] e.stage = "AwaitingSignature" ->
            IF e.kind = "P2wpkh" THEN Sign(e.key, "Ecdsa", "DoubleSha256", "Bip143")
            ELSE Sign(e.key, "Ed25519", "None", "Transfer")

\* The backend a reviewed secret would materialize to.
ReviewedBackend(secret) ==
    [wallet |-> subject.wallet, target |-> subject.review.key, secret |-> secret]

\* Without a subject there is no execution and nothing of an earlier one.
ExecutionPinned ==
    IF subject = None
    THEN exec = None /\ op = None /\ answer = None /\ outcome = Pending
    ELSE /\ subject \in Subjects
         /\ exec \in Executions(subject.review, subject.wallet)
         /\ op = AskedBy(exec)

AnswerIsOfReviewedKey ==
    answer # None =>
        /\ subject # None /\ op # None /\ outcome = Pending
        /\ \E secret \in ReviewedSecrets :
              answer \in ExecuteOutput(ReviewedBackend(secret), op, OpPayload)

StageIsEarned ==
    subject # None =>
        LET r == subject.review
        IN /\ exec.kind = "P2wpkh" =>
                 /\ exec.stage \in KeyTaken =>
                       /\ exec.public_key \in ReviewedPublicKeys("Compressed")
                       /\ r.psbt_pubkey \in {None, exec.public_key}
                 /\ exec.stage \in InputProven =>
                       Digest("Hash160", exec.public_key) = r.input_program
                 /\ exec.stage \in PrevoutsHashed =>
                       exec.hash_prevouts = PartDigest("Prevouts", r)
                 /\ exec.stage \in SequenceHashed =>
                       exec.hash_sequence = PartDigest("Sequence", r)
                 /\ exec.stage \in PreimageBuilt => exec.preimage = SigningPayload(r)
           /\ exec.kind = "SystemTransfer" =>
                 (exec.stage \in {"AwaitingSignature", "Finished"} =>
                      r.signer \in ReviewedPublicKeys("Raw"))

\* The job is that of the session, and what runs was planned and, if it uses
\* a key, confirmed.
JobInOrder ==
    /\ \/ session = Gate!Closed
       \/ session.tag = "Open" /\ session.wallet \in DOMAIN contexts
    /\ \/ job = Gate!NoJob
       \/ /\ session # Gate!Closed
          /\ job.tag \in {"Submitted", "Planned", "Presented", "Running"}
          /\ \E q \in Requests : review = PrepareReview(q)
    /\ contexts \in Seq(Seeds) /\ Len(contexts) <= MaxContextId
    /\ consented \in BOOLEAN
    /\ job.tag \in {"Planned", "Presented", "Running"} =>
          /\ review.tag = "Ok"
          /\ job.key = ReviewPlan(review.value).uses_private_key
    /\ job.tag = "Running" /\ job.key => consented

\* The driver's runtime has a key of the open session.
RuntimeIsOfSession ==
    runtime # None =>
        /\ session # Gate!Closed /\ runtime.wallet = session.wallet
        /\ runtime.secret = Secret(runtime.secret.family, contexts[runtime.wallet],
                                   runtime.target.path)

\* An execution is that of the running job, or of a session that is over and,
\* until a wipe, will not find its context open again.
SubjectIsRunning ==
    subject # None =>
        /\ ReviewPlan(subject.review).uses_private_key => subject.consented
        /\ subject.live =>
              /\ job.tag = "Running" /\ session.wallet = subject.wallet
              /\ job.key = ReviewPlan(subject.review).uses_private_key
              /\ ~subject.wiped
        /\ subject.wiped => subject.seeds = Seeds
        /\ ~subject.wiped =>
              /\ subject.wallet \in DOMAIN contexts
              /\ subject.seeds = {contexts[subject.wallet]}
              /\ ~subject.live =>
                    session = Gate!Closed \/ session.wallet # subject.wallet

ExecutionInv ==
    /\ ExecutionPinned
    /\ AnswerIsOfReviewedKey
    /\ StageIsEarned
    /\ ResponseMatchesReview

SigningInv ==
    /\ JobInOrder
    /\ RuntimeIsOfSession
    /\ SubjectIsRunning
    /\ ExecutionInv
=============================================================================
