---------------------------- MODULE SigningProofs ----------------------------
(***************************************************************************)
(* Proofs about the signing path: SigningInv is an inductive invariant,    *)
(* and with it what leaves an execution is what was reviewed.              *)
(***************************************************************************)
EXTENDS SigningSession, TLAPS

-----------------------------------------------------------------------------
(* Checks and reviews *)

\* What a review says of the bytes that will be signed.
ReviewIsTrue(r) ==
    /\ r.chain = "bitcoin" =>
          /\ r.fee \in Nat
          /\ r.fee + r.tx.amount = r.input_amount
    /\ r.chain = "ethereum" =>
          /\ r.unsigned.fields[6].payload = r.destination
          /\ r.unsigned.fields[7].payload = r.value
          /\ \A i \in 8..Len(r.unsigned.fields) : r.unsigned.fields[i].payload = None
    /\ r.chain = "solana" =>
          /\ r.message.instructions[1].accounts = <<0, 1>>
          /\ r.message.accounts[1] = r.signer
          /\ r.message.accounts[2] = r.recipient
          /\ r.message.instructions[1].lamports = r.lamports

\* parse_psbt lets no fee below zero pass.
LEMMA BitcoinReviewIsTrue ==
    ASSUME NEW q \in Requests, q.chain = "bitcoin", q.kind = "SignTransaction",
           ParsePsbtRefusal(q.psbt) = {}
    PROVE  ReviewIsTrue(P2wpkhReview(q))
<1> DEFINE tx == UnsignedTx(q.psbt)
           utxo == WitnessUtxo(q.psbt)
<1>1. /\ tx # None /\ tx.tx # None /\ utxo # None
      /\ tx.tx.amount <= utxo.amount
  BY DEF ParsePsbtRefusal, OrElse, Unless
<1>2. tx.tx.amount \in Nat /\ utxo.amount \in Nat
  BY <1>1, RequestsAreTyped
<1> HIDE DEF tx, utxo
<1>3. utxo.amount - tx.tx.amount \in Nat
      /\ (utxo.amount - tx.tx.amount) + tx.tx.amount = utxo.amount
  BY <1>1, <1>2
<1>4. QED BY <1>3 DEF P2wpkhReview, ReviewIsTrue, tx, utxo

LEMMA EthereumReviewIsTrue ==
    ASSUME NEW q, ParseEip1559Refusal(q.unsigned) = {}
    PROVE  ReviewIsTrue(Eip1559Review(q))
<1>1. /\ Len(q.unsigned.fields) = 9
      /\ Item(q.unsigned, "data").payload = None
      /\ Item(q.unsigned, "access_list").payload = None
  BY DEF ParseEip1559Refusal, OrElse, Unless
<1>2. q.unsigned.fields[8].payload = None /\ q.unsigned.fields[9].payload = None
  BY <1>1 DEF Item, Field
<1>3. \A i \in 8..Len(q.unsigned.fields) : q.unsigned.fields[i].payload = None
  BY <1>1, <1>2
<1>4. QED BY <1>3 DEF ReviewIsTrue, Eip1559Review, Item, Field

LEMMA SolanaReviewIsTrue ==
    ASSUME NEW q, ParseTransferRefusal(q.message) = {}
    PROVE  ReviewIsTrue(TransferReview(q))
<1>1. q.message.instructions[1].accounts = <<0, 1>>
  BY DEF ParseTransferRefusal, OrElse, Unless
<1>2. QED BY <1>1 DEF ReviewIsTrue, TransferReview

\* What is known of every review the device can be asked to show.
LEMMA ReviewFacts ==
    ASSUME NEW r \in Reviews
    PROVE  /\ r.chain \in {"bitcoin", "ethereum", "solana"}
           /\ r.kind \in PublicKeyKinds \/ r.kind = "SignTransaction"
           /\ r.kind = "SignTransaction" => ReviewIsTrue(r)
<1>1. PICK q \in Requests : PrepareReview(q).tag = "Ok" /\ r = PrepareReview(q).value
  BY DEF Reviews
<1>2. /\ q.chain \in {"bitcoin", "ethereum", "solana"}
      /\ q.kind \in PublicKeyKinds \cup {"SignMessage", "SignTransaction"}
  BY RequestsAreTyped
<1>3. CASE q.kind \in PublicKeyKinds
  <2>1. PrepareReview(q) = Ok(PublicKeyReview(q.chain, q))
    BY <1>2, <1>3 DEF PrepareReview, BitcoinReview, EthereumReview, SolanaReview,
                      PublicKeyKinds
  <2>2. QED BY <1>1, <1>2, <1>3, <2>1 DEF Ok, PublicKeyReview, PublicKeyKinds
<1>4. CASE q.kind = "SignMessage"
  <2>1. PrepareReview(q) = Err("ParserNotImplemented")
    BY <1>2, <1>4 DEF PrepareReview, BitcoinReview, EthereumReview, SolanaReview,
                      PublicKeyKinds
  <2>2. QED BY <1>1, <2>1 DEF Err
<1>5. CASE q.kind = "SignTransaction"
  <2>1. CASE q.chain = "bitcoin"
    <3>1. ParsePsbtRefusal(q.psbt) = {} /\ r = P2wpkhReview(q)
      BY <1>1, <1>5, <2>1 DEF PrepareReview, BitcoinReview, PublicKeyKinds, Ok, Err
    <3>2. QED BY <1>5, <2>1, <3>1, BitcoinReviewIsTrue DEF P2wpkhReview
  <2>2. CASE q.chain = "ethereum"
    <3>1. ParseEip1559Refusal(q.unsigned) = {} /\ r = Eip1559Review(q)
      BY <1>1, <1>5, <2>2 DEF PrepareReview, EthereumReview, PublicKeyKinds, Ok, Err
    <3>2. QED BY <1>5, <2>2, <3>1, EthereumReviewIsTrue DEF Eip1559Review
  <2>3. CASE q.chain = "solana"
    <3>1. ParseTransferRefusal(q.message) = {} /\ r = TransferReview(q)
      BY <1>1, <1>5, <2>3 DEF PrepareReview, SolanaReview, PublicKeyKinds, Ok, Err
    <3>2. QED BY <1>5, <2>3, <3>1, SolanaReviewIsTrue DEF TransferReview
  <2>4. QED BY <1>2, <2>1, <2>2, <2>3
<1>6. QED BY <1>2, <1>3, <1>4, <1>5

-----------------------------------------------------------------------------
(* Answers *)

LEMMA KeyAnswer ==
    ASSUME AnswerIsOfReviewedKey, answer # None, NEW k, NEW f,
           op = DerivePublicKey(k, f)
    PROVE  answer.bytes \in ReviewedPublicKeys(f)
BY DEF AnswerIsOfReviewedKey, ExecuteOutput, DerivePublicKey, ReviewedBackend,
       ReviewedPublicKeys

LEMMA DigestAnswer ==
    ASSUME AnswerIsOfReviewedKey, answer # None, NEW a, NEW id, op = Hash(a, id)
    PROVE  answer = [type |-> "Digest", algorithm |-> a,
                     bytes |-> Digest(a, Payload(id))]
BY DEF AnswerIsOfReviewedKey, ExecuteOutput, Hash, OpPayload

LEMMA SignatureAnswer ==
    ASSUME AnswerIsOfReviewedKey, answer # None, NEW k, NEW s, NEW p, NEW id,
           op = Sign(k, s, p, id)
    PROVE  /\ answer.type = "Signature"
           /\ answer.bytes.secret \in ReviewedSecrets
           /\ answer.bytes.payload = Payload(id)
BY DEF AnswerIsOfReviewedKey, ExecuteOutput, Sign, OpPayload, ReviewedBackend

-----------------------------------------------------------------------------
(* The results of next() *)

\* An execution that is over leaves nothing behind.
LEMMA Dropped == DropExecution => ExecutionInv'
BY DEF DropExecution, ExecutionInv, ExecutionPinned, AnswerIsOfReviewedKey,
       StageIsEarned, ResponseMatchesReview, Pending

\* Nothing is said of the execution's session but its wallet and seeds, and a
\* further seed takes nothing back.
LEMMA ExecutionFrame ==
    ASSUME ExecutionInv, execVars' = execVars,
           \/ subject' = subject
           \/ /\ subject # None /\ subject' \in Subjects
              /\ subject'.review = subject.review /\ subject'.wallet = subject.wallet
              /\ subject.seeds \subseteq subject'.seeds
    PROVE  ExecutionInv'
<1>1. subject' # None <=> subject # None
  BY NoneIsNothing
<1>2. /\ exec' = exec /\ op' = op /\ answer' = answer /\ outcome' = outcome
  BY DEF execVars
<1>3. subject # None => /\ subject'.review = subject.review
                        /\ subject'.wallet = subject.wallet
                        /\ subject.seeds \subseteq subject'.seeds
  OBVIOUS
<1>4. ExecutionPinned'
  BY <1>1, <1>2, <1>3 DEF ExecutionInv, ExecutionPinned
<1>5. subject # None => /\ ReviewedSecrets \subseteq ReviewedSecrets'
                        /\ \A secret : ReviewedBackend(secret)' = ReviewedBackend(secret)
  BY <1>3 DEF ReviewedSecrets, ReviewedBackend
<1>6. OpPayload' = OpPayload
  BY <1>2 DEF OpPayload, Payload, BitcoinPayload, EthereumPayload, SolanaPayload
<1>7. AnswerIsOfReviewedKey'
  BY <1>1, <1>2, <1>3, <1>5, <1>6
     DEF ExecutionInv, AnswerIsOfReviewedKey, ReviewedBackend
<1>8. StageIsEarned'
  BY <1>1, <1>2, <1>3, <1>5 DEF ExecutionInv, StageIsEarned, ReviewedPublicKeys
<1>9. subject = None => outcome = Pending
  BY DEF ExecutionInv, ExecutionPinned
<1>10. ResponseMatchesReview'
  BY <1>2, <1>3, <1>5, <1>9
     DEF ExecutionInv, ResponseMatchesReview, ReviewedPublicKeys, Pending
<1>11. QED BY <1>4, <1>7, <1>8, <1>10 DEF ExecutionInv

\* A refused answer is forgotten and the execution waits where it was.
LEMMA Refused ==
    ASSUME ExecutionInv, subject # None, subject' = subject, NEW e, Refuse(e)
    PROVE  ExecutionInv'
<1>1. exec' = exec /\ op' = op /\ answer' = None /\ outcome' = Err(e)
  BY DEF Refuse
<1>2. ExecutionPinned'
  BY <1>1 DEF ExecutionInv, ExecutionPinned
<1>3. ReviewedSecrets' = ReviewedSecrets
  BY DEF ReviewedSecrets
<1>4. StageIsEarned'
  BY <1>1, <1>3 DEF ExecutionInv, StageIsEarned, ReviewedPublicKeys
<1>5. QED
  BY <1>1, <1>2, <1>4 DEF ExecutionInv, AnswerIsOfReviewedKey,
                          ResponseMatchesReview, Err

\* The execution goes on to a stage it has earned and asks for what that needs.
LEMMA Asked ==
    ASSUME ExecutionInv, subject # None, subject' = subject,
           NEW request, AskFor(request), request = AskedBy(exec)',
           exec' \in Executions(subject.review, subject.wallet), StageIsEarned'
    PROVE  ExecutionInv'
<1>1. op' = AskedBy(exec)' /\ answer' = None /\ outcome' = Pending
  BY DEF AskFor
<1>2. ExecutionPinned'
  BY <1>1 DEF ExecutionInv, ExecutionPinned
<1>3. QED
  BY <1>1, <1>2 DEF ExecutionInv, AnswerIsOfReviewedKey, ResponseMatchesReview,
                    Pending

\* The execution is over and its response is the reviewed one.
LEMMA Completed ==
    ASSUME ExecutionInv, subject # None, subject' = subject,
           NEW response, Finish(response), exec'.stage = "Finished",
           exec' \in Executions(subject.review, subject.wallet),
           StageIsEarned', ResponseMatchesReview'
    PROVE  ExecutionInv'
<1>1. op' = AskedBy(exec)' /\ answer' = None
  BY DEF Finish, AskedBy
<1>2. ExecutionPinned'
  BY <1>1 DEF ExecutionInv, ExecutionPinned
<1>3. QED
  BY <1>1, <1>2 DEF ExecutionInv, AnswerIsOfReviewedKey

-----------------------------------------------------------------------------
(* Executions, one lemma per kind *)

NextCall == BitcoinNext \/ EthereumNext \/ SolanaNext \/ ExecutionFinished

LEMMA PublicKeyNext ==
    ASSUME ExecutionInv, subject # None, subject' = subject,
           subject.review.kind \in PublicKeyKinds, NextCall
    PROVE  ExecutionInv'
<1> DEFINE r == subject.review
           w == subject.wallet
<1>1. /\ subject \in Subjects /\ op = AskedBy(exec)
      /\ exec \in PublicKeyExecutions(r, w)
  BY DEF ExecutionInv, ExecutionPinned, Executions
<1>2. /\ r.chain \in {"bitcoin", "ethereum", "solana"}
      /\ exec.kind = "PublicKey" /\ exec.chain = r.chain
  BY <1>1, ReviewFacts DEF Subjects, PublicKeyExecutions
<1>3. \A exec1 \in PublicKeyExecutions(r, w) : exec1 \in Executions(r, w)
  BY DEF Executions
<1>4. ASSUME NEW stage \in {"AwaitingPublicKey", "AwaitingCrypto"},
             Start(stage, DerivePublicKey(exec.key, exec.format))
      PROVE  ExecutionInv'
  <2>1. exec' = [exec EXCEPT !.stage = stage]
        /\ AskFor(DerivePublicKey(exec.key, exec.format))
    BY <1>4 DEF Start
  <2>2. exec' \in PublicKeyExecutions(r, w) /\ exec'.kind = "PublicKey"
        /\ exec'.stage = stage /\ exec'.key = exec.key /\ exec'.format = exec.format
    BY <1>1, <2>1 DEF PublicKeyExecutions
  <2>3. DerivePublicKey(exec.key, exec.format) = AskedBy(exec)'
    BY <2>2 DEF AskedBy
  <2>4. StageIsEarned'
    BY <2>2 DEF StageIsEarned
  <2>5. QED BY <1>3, <2>1, <2>2, <2>3, <2>4, Asked
<1>5. ASSUME NEW stage \in {"AwaitingPublicKey", "AwaitingCrypto"},
             AcceptPublicKeyOnly(stage)
      PROVE  ExecutionInv'
  <2>1. CASE \E e : Refuse(e)
    BY <2>1, Refused
  <2>2. CASE /\ IsOutput("PublicKey")
             /\ Finish([type |-> "PublicKey", bytes |-> answer.bytes])
    <3>1. op = DerivePublicKey(exec.key, exec.format) /\ answer # None
      BY <1>1, <1>2, <1>5, <2>2 DEF AcceptPublicKeyOnly, AskedBy, IsOutput
    <3>2. answer.bytes \in ReviewedPublicKeys(exec.format)
      BY <3>1, KeyAnswer DEF ExecutionInv
    <3>3. /\ exec' = [exec EXCEPT !.stage = "Finished"]
          /\ outcome' = Complete([type |-> "PublicKey", bytes |-> answer.bytes])
          /\ op' = None /\ answer' = None
      BY <2>2 DEF Finish
    <3>4. exec' \in PublicKeyExecutions(r, w) /\ exec'.kind = "PublicKey"
          /\ exec'.stage = "Finished" /\ exec'.format = exec.format
      BY <1>1, <3>3 DEF PublicKeyExecutions
    <3>5. ReviewedSecrets' = ReviewedSecrets
      BY DEF ReviewedSecrets
    <3>6. StageIsEarned'
      BY <3>4 DEF StageIsEarned
    <3>7. ResponseMatchesReview'
      BY <3>2, <3>3, <3>4, <3>5 DEF ResponseMatchesReview, ReviewedPublicKeys, Complete
    <3>8. QED BY <1>3, <2>2, <3>4, <3>6, <3>7, Completed
  <2>3. QED BY <1>5, <2>1, <2>2 DEF AcceptPublicKeyOnly
<1>6. CASE ExecutionFinished
  BY <1>6, Refused DEF ExecutionFinished
<1>7. CASE BitcoinNext
  BY <1>2, <1>4, <1>5, <1>7
     DEF BitcoinNext, BitcoinStart, AwaitsBitcoin, AcceptPublicKey, AcceptPubkeyHash,
         AcceptPrevoutsHash, AcceptSequenceHash, AcceptComponentHash,
         AcceptOutputsHash, AcceptSignature
<1>8. CASE EthereumNext
  BY <1>2, <1>4, <1>5, <1>8 DEF EthereumNext, EthereumStart, AcceptEip1559Signature
<1>9. CASE SolanaNext
  BY <1>2, <1>4, <1>5, <1>9 DEF SolanaNext, SolanaStart, AcceptSigner,
                                AcceptTransferSignature
<1>10. QED BY <1>6, <1>7, <1>8, <1>9 DEF NextCall

LEMMA Eip1559Next ==
    ASSUME ExecutionInv, subject # None, subject' = subject,
           subject.review.kind \notin PublicKeyKinds,
           subject.review.chain = "ethereum", NextCall
    PROVE  ExecutionInv'
<1> DEFINE r == subject.review
           w == subject.wallet
<1>1. /\ subject \in Subjects /\ op = AskedBy(exec)
      /\ exec \in Eip1559Executions(r, w)
  BY DEF ExecutionInv, ExecutionPinned, Executions
<1>2. ReviewIsTrue(r)
  BY <1>1, ReviewFacts DEF Subjects
<1>3. \A exec1 \in Eip1559Executions(r, w) : exec1 \in Executions(r, w)
  BY DEF Executions
<1>4. /\ exec.kind = "Eip1559" /\ exec.chain = "ethereum" /\ exec.unsigned = r.unsigned
  BY <1>1 DEF Eip1559Executions
<1>5. ASSUME Start("AwaitingCrypto",
                   Sign(exec.key, "EcdsaRecoverable", "Keccak256", "Eip1559"))
      PROVE  ExecutionInv'
  <2>1. exec' = [exec EXCEPT !.stage = "AwaitingCrypto"]
        /\ AskFor(Sign(exec.key, "EcdsaRecoverable", "Keccak256", "Eip1559"))
    BY <1>5 DEF Start
  <2>2. exec' \in Eip1559Executions(r, w) /\ exec'.kind = "Eip1559"
        /\ exec'.stage = "AwaitingCrypto" /\ exec'.key = exec.key
    BY <1>1, <2>1 DEF Eip1559Executions
  <2>3. Sign(exec.key, "EcdsaRecoverable", "Keccak256", "Eip1559") = AskedBy(exec)'
    BY <2>2 DEF AskedBy
  <2>4. StageIsEarned'
    BY <2>2 DEF StageIsEarned
  <2>5. QED BY <1>3, <2>1, <2>2, <2>3, <2>4, Asked
<1>6. CASE AcceptEip1559Signature
  <2>1. CASE \E e : Refuse(e)
    BY <2>1, Refused
  <2>2. CASE /\ CryptoSignatureRefusal = {}
             /\ Finish(FinalizeEip1559(exec.unsigned, answer.bytes))
    <3>1. op = Sign(exec.key, "EcdsaRecoverable", "Keccak256", "Eip1559")
      BY <1>1, <1>4, <1>6 DEF AcceptEip1559Signature, AskedBy
    <3>2. answer # None
      BY <2>2 DEF CryptoSignatureRefusal, IsOutput, OrElse, Unless
    <3>3. /\ answer.bytes.secret \in ReviewedSecrets
          /\ answer.bytes.payload = Payload("Eip1559")
      BY <3>1, <3>2, SignatureAnswer DEF ExecutionInv
    <3>4. Payload("Eip1559") = r.unsigned
      BY <1>4 DEF Payload, EthereumPayload
    <3>5. /\ exec' = [exec EXCEPT !.stage = "Finished"]
          /\ outcome' = Complete(FinalizeEip1559(r.unsigned, answer.bytes))
      BY <1>4, <2>2 DEF Finish
    <3>6. exec' \in Eip1559Executions(r, w) /\ exec'.kind = "Eip1559"
          /\ exec'.stage = "Finished"
      BY <1>1, <3>5 DEF Eip1559Executions
    <3>7. ReviewedSecrets' = ReviewedSecrets
      BY DEF ReviewedSecrets
    <3>8. ShownIsSigned(r, FinalizeEip1559(r.unsigned, answer.bytes))
      BY <1>2 DEF ShownIsSigned, ReviewIsTrue, FinalizeEip1559
    <3>9. ResponseMatchesReview'
      <4> DEFINE response == FinalizeEip1559(r.unsigned, answer.bytes)
      <4>1. response.signature = answer.bytes
        BY DEF FinalizeEip1559
      <4>2. SigningPayload(r) = r.unsigned
        BY DEF SigningPayload
      <4> HIDE DEF response
      <4>3. QED BY <3>3, <3>4, <3>5, <3>7, <3>8, <4>1, <4>2
                   DEF ResponseMatchesReview, Complete, response
    <3>10. StageIsEarned'
      BY <3>6 DEF StageIsEarned
    <3>11. QED BY <1>3, <2>2, <3>6, <3>9, <3>10, Completed
  <2>3. QED BY <1>6, <2>1, <2>2 DEF AcceptEip1559Signature
<1>7. CASE ExecutionFinished
  BY <1>7, Refused DEF ExecutionFinished
<1>8. ~BitcoinNext /\ ~SolanaNext
  BY <1>4 DEF BitcoinNext, BitcoinStart, AwaitsBitcoin, AcceptPublicKey,
              AcceptPubkeyHash, AcceptPrevoutsHash, AcceptSequenceHash,
              AcceptComponentHash, AcceptOutputsHash, AcceptSignature,
              SolanaNext, SolanaStart, AcceptSigner, AcceptTransferSignature
<1>9. CASE EthereumNext
  BY <1>4, <1>5, <1>6, <1>9 DEF EthereumNext, EthereumStart, AcceptPublicKeyOnly
<1>10. QED BY <1>7, <1>8, <1>9 DEF NextCall

LEMMA TransferNext ==
    ASSUME ExecutionInv, subject # None, subject' = subject,
           subject.review.kind \notin PublicKeyKinds,
           subject.review.chain = "solana", NextCall
    PROVE  ExecutionInv'
<1> DEFINE r == subject.review
           w == subject.wallet
<1>1. /\ subject \in Subjects /\ op = AskedBy(exec)
      /\ exec \in TransferExecutions(r, w)
  BY DEF ExecutionInv, ExecutionPinned, Executions
<1>2. ReviewIsTrue(r)
  BY <1>1, ReviewFacts DEF Subjects
<1>3. \A exec1 \in TransferExecutions(r, w) : exec1 \in Executions(r, w)
  BY DEF Executions
<1>4. /\ exec.kind = "SystemTransfer" /\ exec.chain = "solana"
      /\ exec.message = r.message /\ exec.signer = r.signer /\ exec.format = "Raw"
  BY <1>1 DEF TransferExecutions
<1>5. ReviewedSecrets' = ReviewedSecrets
  BY DEF ReviewedSecrets
<1>6. CASE SolanaStart
  <2>1. exec' = [exec EXCEPT !.stage = "AwaitingPublicKey"]
        /\ AskFor(DerivePublicKey(exec.key, exec.format))
    BY <1>6 DEF SolanaStart, Start
  <2>2. exec' \in TransferExecutions(r, w) /\ exec'.kind = "SystemTransfer"
        /\ exec'.stage = "AwaitingPublicKey" /\ exec'.key = exec.key
        /\ exec'.format = exec.format
    BY <1>1, <2>1 DEF TransferExecutions
  <2>3. DerivePublicKey(exec.key, exec.format) = AskedBy(exec)'
    BY <2>2 DEF AskedBy
  <2>4. StageIsEarned'
    BY <2>2 DEF StageIsEarned
  <2>5. QED BY <1>3, <2>1, <2>2, <2>3, <2>4, Asked
<1>7. CASE AcceptSigner
  <2>1. CASE \E e : Refuse(e)
    BY <2>1, Refused
  <2>2. CASE /\ SignerRefusal = {}
             /\ exec' = [exec EXCEPT !.stage = "AwaitingSignature"]
             /\ AskFor(Sign(exec.key, "Ed25519", "None", "Transfer"))
    <3>1. answer # None /\ answer.bytes = r.signer
      BY <1>4, <2>2 DEF SignerRefusal, IsOutput, OrElse, Unless
    <3>2. op = DerivePublicKey(exec.key, exec.format)
      BY <1>1, <1>7 DEF AcceptSigner, AskedBy
    <3>3. r.signer \in ReviewedPublicKeys("Raw")
      BY <1>4, <3>1, <3>2, KeyAnswer DEF ExecutionInv
    <3>4. exec' \in TransferExecutions(r, w) /\ exec'.kind = "SystemTransfer"
          /\ exec'.stage = "AwaitingSignature" /\ exec'.key = exec.key
      BY <1>1, <2>2 DEF TransferExecutions
    <3>5. Sign(exec.key, "Ed25519", "None", "Transfer") = AskedBy(exec)'
      BY <3>4 DEF AskedBy
    <3>6. StageIsEarned'
      BY <1>5, <3>3, <3>4 DEF StageIsEarned, ReviewedPublicKeys
    <3>7. QED BY <1>3, <2>2, <3>4, <3>5, <3>6, Asked
  <2>3. QED BY <1>7, <2>1, <2>2 DEF AcceptSigner
<1>8. CASE AcceptTransferSignature
  <2> DEFINE response == [type |-> "SignedTransaction", message |-> exec.message,
                          signature |-> answer.bytes]
  <2>1. CASE \E e : Refuse(e)
    BY <2>1, Refused
  <2>2. CASE IsOutput("Signature") /\ Finish(response)
    <3>1. op = Sign(exec.key, "Ed25519", "None", "Transfer") /\ answer # None
      BY <1>1, <1>4, <1>8, <2>2 DEF AcceptTransferSignature, AskedBy, IsOutput
    <3>2. /\ answer.bytes.secret \in ReviewedSecrets
          /\ answer.bytes.payload = Payload("Transfer")
      BY <3>1, SignatureAnswer DEF ExecutionInv
    <3>3. Payload("Transfer") = SigningPayload(r)
      BY <1>4 DEF Payload, SolanaPayload, SigningPayload
    <3>4. /\ exec' = [exec EXCEPT !.stage = "Finished"]
          /\ outcome' = Complete(response)
      BY <2>2 DEF Finish
    <3>5. exec' \in TransferExecutions(r, w) /\ exec'.kind = "SystemTransfer"
          /\ exec'.stage = "Finished"
      BY <1>1, <3>4 DEF TransferExecutions
    <3>6. exec.stage = "AwaitingSignature"
      BY <1>8 DEF AcceptTransferSignature
    <3>7. StageIsEarned'
      BY <1>4, <1>5, <3>5, <3>6 DEF ExecutionInv, StageIsEarned, ReviewedPublicKeys
    <3>8. response.message = r.message /\ response.signature = answer.bytes
      BY <1>4
    <3> HIDE DEF response
    <3>9. ShownIsSigned(r, response)
      BY <1>2, <3>8 DEF ShownIsSigned, ReviewIsTrue
    <3>10. ResponseMatchesReview'
      BY <1>5, <3>2, <3>3, <3>4, <3>8, <3>9 DEF ResponseMatchesReview, Complete
    <3>11. QED BY <1>3, <2>2, <3>5, <3>7, <3>10, Completed
  <2>3. QED BY <1>8, <2>1, <2>2 DEF AcceptTransferSignature, OrElse, Unless
<1>9. CASE ExecutionFinished
  BY <1>9, Refused DEF ExecutionFinished
<1>10. ~BitcoinNext /\ ~EthereumNext
  BY <1>4 DEF BitcoinNext, BitcoinStart, AwaitsBitcoin, AcceptPublicKey,
              AcceptPubkeyHash, AcceptPrevoutsHash, AcceptSequenceHash,
              AcceptComponentHash, AcceptOutputsHash, AcceptSignature,
              EthereumNext, EthereumStart, AcceptEip1559Signature
<1>11. CASE SolanaNext
  BY <1>4, <1>6, <1>7, <1>8, <1>11 DEF SolanaNext, AcceptPublicKeyOnly
<1>12. QED BY <1>9, <1>10, <1>11 DEF NextCall

LEMMA P2wpkhNext ==
    ASSUME ExecutionInv, subject # None, subject' = subject,
           subject.review.kind \notin PublicKeyKinds,
           subject.review.chain = "bitcoin", NextCall
    PROVE  ExecutionInv'
<1> DEFINE r == subject.review
           w == subject.wallet
           publics == ReviewedPublicKeys("Compressed")
<1>1. /\ subject \in Subjects /\ op = AskedBy(exec)
      /\ exec \in P2wpkhExecutions(r, w)
  BY DEF ExecutionInv, ExecutionPinned, Executions
<1>2. ReviewIsTrue(r)
  BY <1>1, ReviewFacts DEF Subjects
<1>3. \A exec1 \in P2wpkhExecutions(r, w) : exec1 \in Executions(r, w)
  BY DEF Executions
<1>4. /\ exec.kind = "P2wpkh" /\ exec.chain = "bitcoin" /\ exec.format = "Compressed"
      /\ exec.tx = r.tx /\ exec.input_amount = r.input_amount
      /\ exec.input_program = r.input_program /\ exec.expected_pubkey = r.psbt_pubkey
  BY <1>1 DEF P2wpkhExecutions
<1>5. ReviewedSecrets' = ReviewedSecrets
      /\ publics \subseteq {PublicKey(SecretOf(r, seed), "Compressed") : seed \in Seeds}
  BY <1>1 DEF ReviewedSecrets, ReviewedPublicKeys, Subjects
<1>6. \A id \in {"Prevouts", "Sequence", "Outputs"} :
          Digest("DoubleSha256", Payload(id)) = PartDigest(id, r)
  BY <1>4 DEF Payload, BitcoinPayload, PartDigest
<1>7. CASE BitcoinStart
  <2>1. exec' = [exec EXCEPT !.stage = "AwaitingPublicKey"]
        /\ AskFor(DerivePublicKey(exec.key, exec.format))
    BY <1>7 DEF BitcoinStart, Start
  <2>2. exec' \in P2wpkhExecutions(r, w) /\ exec'.stage = "AwaitingPublicKey"
        /\ exec'.key = exec.key /\ exec'.format = exec.format /\ exec'.kind = "P2wpkh"
    BY <1>1, <2>1 DEF P2wpkhExecutions, BitcoinStages
  <2>3. DerivePublicKey(exec.key, exec.format) = AskedBy(exec)'
    BY <2>2 DEF AskedBy
  <2>4. StageIsEarned'
    BY <2>2 DEF StageIsEarned, KeyTaken, InputProven, PrevoutsHashed, SequenceHashed,
                PreimageBuilt
  <2>5. QED BY <1>3, <2>1, <2>2, <2>3, <2>4, Asked
<1>8. CASE AcceptPublicKey
  <2>1. CASE \E e : Refuse(e)
    BY <2>1, Refused
  <2>2. ASSUME IsOutput("PublicKey")
        PROVE  answer.bytes \in publics /\ exec.stage = "AwaitingPublicKey"
    <3>1. op = DerivePublicKey(exec.key, exec.format) /\ answer # None
          /\ exec.stage = "AwaitingPublicKey"
      BY <1>1, <1>8, <2>2 DEF AcceptPublicKey, AwaitsBitcoin, AskedBy, IsOutput
    <3>2. QED BY <1>4, <3>1, KeyAnswer DEF ExecutionInv
  <2>3. CASE /\ IsOutput("PublicKey")
             /\ exec' = [exec EXCEPT !.public_key = answer.bytes]
             /\ outcome' = Err("PublicKeyMismatch")
             /\ answer' = None /\ op' = op
    <3>1. exec' \in P2wpkhExecutions(r, w) /\ exec'.stage = "AwaitingPublicKey"
          /\ exec'.key = exec.key /\ exec'.format = exec.format /\ exec'.kind = "P2wpkh"
      BY <1>1, <1>5, <2>2, <2>3 DEF P2wpkhExecutions
    <3>2. op' = AskedBy(exec)'
      BY <1>1, <2>2, <2>3, <3>1 DEF AskedBy
    <3>3. ExecutionPinned'
      BY <1>1, <1>3, <3>1, <3>2 DEF ExecutionPinned
    <3>4. StageIsEarned'
      BY <3>1 DEF StageIsEarned, KeyTaken, InputProven, PrevoutsHashed,
                  SequenceHashed, PreimageBuilt
    <3>5. QED BY <2>3, <3>3, <3>4 DEF ExecutionInv, AnswerIsOfReviewedKey,
                                      ResponseMatchesReview, Err
  <2>4. CASE /\ IsOutput("PublicKey") /\ exec.expected_pubkey \in {None, answer.bytes}
             /\ exec' = [exec EXCEPT !.public_key = answer.bytes,
                                     !.stage = "AwaitingPubkeyHash"]
             /\ AskFor(Hash("Hash160", "PubkeyHash"))
    <3>1. exec' \in P2wpkhExecutions(r, w) /\ exec'.stage = "AwaitingPubkeyHash"
          /\ exec'.public_key = answer.bytes
      BY <1>1, <1>5, <2>2, <2>4 DEF P2wpkhExecutions, BitcoinStages, KeyTaken
    <3>2. Hash("Hash160", "PubkeyHash") = AskedBy(exec)'
      BY <3>1 DEF AskedBy
    <3>3. StageIsEarned'
      BY <1>4, <1>5, <2>2, <2>4, <3>1
         DEF StageIsEarned, ReviewedPublicKeys, InputProven, PrevoutsHashed,
             SequenceHashed, PreimageBuilt
    <3>4. QED BY <1>3, <2>4, <3>1, <3>2, <3>3, Asked
  <2>5. QED BY <1>8, <2>1, <2>3, <2>4 DEF AcceptPublicKey
<1>9. CASE AcceptPubkeyHash
  <2>1. CASE \E e : Refuse(e)
    BY <2>1, Refused
  <2>2. CASE /\ PubkeyHashRefusal = {}
             /\ exec' = [exec EXCEPT !.stage = "AwaitingPrevoutsHash"]
             /\ AskFor(Hash("DoubleSha256", "Prevouts"))
    <3>1. answer # None /\ answer.bytes = r.input_program
      BY <1>4, <2>2 DEF PubkeyHashRefusal, OrElse, Unless
    <3>2. exec.stage = "AwaitingPubkeyHash" /\ op = Hash("Hash160", "PubkeyHash")
      BY <1>1, <1>9 DEF AcceptPubkeyHash, AwaitsBitcoin, AskedBy
    <3>3. exec.public_key \in publics /\ r.psbt_pubkey \in {None, exec.public_key}
      BY <1>4, <3>2 DEF ExecutionInv, StageIsEarned, KeyTaken
    <3>4. Payload("PubkeyHash") = exec.public_key
      BY <1>4 DEF Payload, BitcoinPayload
    <3>5. Digest("Hash160", exec.public_key) = r.input_program
      BY <3>1, <3>2, <3>4, DigestAnswer DEF ExecutionInv
    <3>6. exec' \in P2wpkhExecutions(r, w) /\ exec'.stage = "AwaitingPrevoutsHash"
          /\ exec'.public_key = exec.public_key
      BY <1>1, <2>2 DEF P2wpkhExecutions, BitcoinStages, KeyTaken, InputProven
    <3>7. Hash("DoubleSha256", "Prevouts") = AskedBy(exec)'
      BY <3>6 DEF AskedBy
    <3>8. StageIsEarned'
      BY <1>5, <3>3, <3>5, <3>6
         DEF StageIsEarned, ReviewedPublicKeys, PrevoutsHashed, SequenceHashed,
             PreimageBuilt
    <3>9. QED BY <1>3, <2>2, <3>6, <3>7, <3>8, Asked
  <2>3. QED BY <1>9, <2>1, <2>2 DEF AcceptPubkeyHash
<1>10. CASE AcceptPrevoutsHash
  <2>1. CASE \E e : Refuse(e)
    BY <2>1, Refused
  <2>2. CASE /\ DigestRefusal("DoubleSha256") = {}
             /\ exec' = [exec EXCEPT !.hash_prevouts = answer.bytes,
                                     !.stage = "AwaitingSequenceHash"]
             /\ AskFor(Hash("DoubleSha256", "Sequence"))
    <3>1. answer # None
      BY <2>2 DEF DigestRefusal, IsOutput, OrElse, Unless
    <3>2. exec.stage = "AwaitingPrevoutsHash" /\ op = Hash("DoubleSha256", "Prevouts")
      BY <1>1, <1>10 DEF AcceptPrevoutsHash, AcceptComponentHash, AwaitsBitcoin, AskedBy
    <3>3. answer.bytes = PartDigest("Prevouts", r)
      BY <1>6, <3>1, <3>2, DigestAnswer DEF ExecutionInv
    <3>4. exec' \in P2wpkhExecutions(r, w) /\ exec'.stage = "AwaitingSequenceHash"
          /\ exec'.public_key = exec.public_key
          /\ exec'.hash_prevouts = PartDigest("Prevouts", r)
      BY <1>1, <2>2, <3>3 DEF P2wpkhExecutions, BitcoinStages, KeyTaken, InputProven,
                              PrevoutsHashed
    <3>5. Hash("DoubleSha256", "Sequence") = AskedBy(exec)'
      BY <3>4 DEF AskedBy
    <3>6. StageIsEarned'
      BY <1>4, <1>5, <3>2, <3>4
         DEF ExecutionInv, StageIsEarned, ReviewedPublicKeys, KeyTaken, InputProven,
             PrevoutsHashed, SequenceHashed, PreimageBuilt
    <3>7. QED BY <1>3, <2>2, <3>4, <3>5, <3>6, Asked
  <2>3. QED BY <1>10, <2>1, <2>2 DEF AcceptPrevoutsHash, AcceptComponentHash
<1>11. CASE AcceptSequenceHash
  <2>1. CASE \E e : Refuse(e)
    BY <2>1, Refused
  <2>2. CASE /\ DigestRefusal("DoubleSha256") = {}
             /\ exec' = [exec EXCEPT !.hash_sequence = answer.bytes,
                                     !.stage = "AwaitingOutputsHash"]
             /\ AskFor(Hash("DoubleSha256", "Outputs"))
    <3>1. answer # None
      BY <2>2 DEF DigestRefusal, IsOutput, OrElse, Unless
    <3>2. exec.stage = "AwaitingSequenceHash" /\ op = Hash("DoubleSha256", "Sequence")
      BY <1>1, <1>11 DEF AcceptSequenceHash, AcceptComponentHash, AwaitsBitcoin, AskedBy
    <3>3. answer.bytes = PartDigest("Sequence", r)
      BY <1>6, <3>1, <3>2, DigestAnswer DEF ExecutionInv
    <3>4. exec' \in P2wpkhExecutions(r, w) /\ exec'.stage = "AwaitingOutputsHash"
          /\ exec'.public_key = exec.public_key
          /\ exec'.hash_prevouts = exec.hash_prevouts
          /\ exec'.hash_sequence = PartDigest("Sequence", r)
      BY <1>1, <2>2, <3>3 DEF P2wpkhExecutions, BitcoinStages, KeyTaken, InputProven,
                              PrevoutsHashed, SequenceHashed
    <3>5. Hash("DoubleSha256", "Outputs") = AskedBy(exec)'
      BY <3>4 DEF AskedBy
    <3>6. StageIsEarned'
      BY <1>4, <1>5, <3>2, <3>4
         DEF ExecutionInv, StageIsEarned, ReviewedPublicKeys, KeyTaken, InputProven,
             PrevoutsHashed, SequenceHashed, PreimageBuilt
    <3>7. QED BY <1>3, <2>2, <3>4, <3>5, <3>6, Asked
  <2>3. QED BY <1>11, <2>1, <2>2 DEF AcceptSequenceHash, AcceptComponentHash
<1>12. CASE AcceptOutputsHash
  <2> DEFINE preimage == Bip143(exec.tx, exec.input_amount, exec.input_program,
                                exec.hash_prevouts, exec.hash_sequence, answer.bytes)
  <2>1. CASE \E e : Refuse(e)
    BY <2>1, Refused
  <2>2. CASE /\ DigestRefusal("DoubleSha256") = {}
             /\ exec' = [exec EXCEPT !.preimage = preimage,
                                     !.stage = "AwaitingSignature"]
             /\ AskFor(Sign(exec.key, "Ecdsa", "DoubleSha256", "Bip143"))
    <3>1. answer # None
      BY <2>2 DEF DigestRefusal, IsOutput, OrElse, Unless
    <3>2. exec.stage = "AwaitingOutputsHash" /\ op = Hash("DoubleSha256", "Outputs")
      BY <1>1, <1>12 DEF AcceptOutputsHash, AwaitsBitcoin, AskedBy
    <3>3. answer.bytes = PartDigest("Outputs", r)
      BY <1>6, <3>1, <3>2, DigestAnswer DEF ExecutionInv
    <3>4. /\ exec.hash_prevouts = PartDigest("Prevouts", r)
          /\ exec.hash_sequence = PartDigest("Sequence", r)
      BY <1>4, <3>2 DEF ExecutionInv, StageIsEarned, PrevoutsHashed, SequenceHashed
    <3>5. preimage = SigningPayload(r)
      BY <1>4, <3>3, <3>4 DEF SigningPayload, PartDigest
    <3> HIDE DEF preimage
    <3>6. exec' \in P2wpkhExecutions(r, w) /\ exec'.stage = "AwaitingSignature"
          /\ exec'.public_key = exec.public_key
          /\ exec'.hash_prevouts = exec.hash_prevouts
          /\ exec'.hash_sequence = exec.hash_sequence
          /\ exec'.preimage = SigningPayload(r)
          /\ exec'.key = exec.key /\ exec'.kind = "P2wpkh"
      BY <1>1, <2>2, <3>5 DEF P2wpkhExecutions, BitcoinStages, KeyTaken, InputProven,
                              PrevoutsHashed, SequenceHashed, PreimageBuilt
    <3>7. Sign(exec.key, "Ecdsa", "DoubleSha256", "Bip143") = AskedBy(exec)'
      BY <3>6 DEF AskedBy
    <3>8. StageIsEarned'
      BY <1>4, <1>5, <3>2, <3>6
         DEF ExecutionInv, StageIsEarned, ReviewedPublicKeys, KeyTaken, InputProven,
             PrevoutsHashed, SequenceHashed, PreimageBuilt
    <3>9. QED BY <1>3, <2>2, <3>6, <3>7, <3>8, Asked
  <2>3. QED BY <1>12, <2>1, <2>2 DEF AcceptOutputsHash
<1>13. CASE AcceptSignature
  <2> DEFINE response == SignedTransaction(exec.tx, answer.bytes, exec.public_key)
  <2>1. CASE \E e : Refuse(e)
    BY <2>1, Refused
  <2>2. CASE IsOutput("Signature") /\ Finish(response)
    <3>1. /\ op = Sign(exec.key, "Ecdsa", "DoubleSha256", "Bip143") /\ answer # None
          /\ exec.stage = "AwaitingSignature"
      BY <1>1, <1>4, <1>13, <2>2 DEF AcceptSignature, AwaitsBitcoin, AskedBy, IsOutput
    <3>2. /\ answer.bytes.secret \in ReviewedSecrets
          /\ answer.bytes.payload = Payload("Bip143")
      BY <3>1, SignatureAnswer DEF ExecutionInv
    <3>3. /\ exec.preimage = SigningPayload(r) /\ exec.public_key \in publics
          /\ Digest("Hash160", exec.public_key) = r.input_program
      BY <1>4, <3>1 DEF ExecutionInv, StageIsEarned, KeyTaken, InputProven,
                        PrevoutsHashed, SequenceHashed, PreimageBuilt
    <3>4. Payload("Bip143") = SigningPayload(r)
      BY <1>4, <3>3 DEF Payload, BitcoinPayload
    <3>5. /\ exec' = [exec EXCEPT !.stage = "Finished"]
          /\ outcome' = Complete(response)
      BY <2>2 DEF Finish
    <3>6. exec' \in P2wpkhExecutions(r, w) /\ exec'.stage = "Finished"
          /\ exec'.public_key = exec.public_key
          /\ exec'.hash_prevouts = exec.hash_prevouts
          /\ exec'.hash_sequence = exec.hash_sequence
          /\ exec'.preimage = exec.preimage /\ exec'.kind = "P2wpkh"
      BY <1>1, <3>5 DEF P2wpkhExecutions, BitcoinStages, KeyTaken, InputProven,
                        PrevoutsHashed, SequenceHashed, PreimageBuilt
    <3>7. StageIsEarned'
      BY <1>4, <1>5, <3>1, <3>6
         DEF ExecutionInv, StageIsEarned, ReviewedPublicKeys, KeyTaken, InputProven,
             PrevoutsHashed, SequenceHashed, PreimageBuilt
    <3>8. /\ response.tx = r.tx /\ response.signature = answer.bytes
          /\ response.witness = exec.public_key
      BY <1>4 DEF SignedTransaction
    <3> HIDE DEF response
    <3>9. SigningPayload(r).amount = r.input_amount
      BY DEF SigningPayload, Bip143
    <3>10. ShownIsSigned(r, response)
      BY <1>2, <3>2, <3>4, <3>8, <3>9 DEF ShownIsSigned, ReviewIsTrue
    <3>11. ResponseMatchesReview'
      BY <1>5, <3>2, <3>3, <3>4, <3>5, <3>8, <3>10
         DEF ResponseMatchesReview, ReviewedPublicKeys, Complete
    <3>12. QED BY <1>3, <2>2, <3>6, <3>7, <3>11, Completed
  <2>3. QED BY <1>13, <2>1, <2>2 DEF AcceptSignature, OrElse, Unless
<1>14. CASE ExecutionFinished
  BY <1>14, Refused DEF ExecutionFinished
<1>15. ~EthereumNext /\ ~SolanaNext
  BY <1>4 DEF EthereumNext, EthereumStart, AcceptEip1559Signature,
              SolanaNext, SolanaStart, AcceptSigner, AcceptTransferSignature
<1>16. CASE BitcoinNext
  BY <1>4, <1>7, <1>8, <1>9, <1>10, <1>11, <1>12, <1>13, <1>16
     DEF BitcoinNext, AcceptPublicKeyOnly
<1>17. QED BY <1>14, <1>15, <1>16 DEF NextCall

-----------------------------------------------------------------------------
(* The driver *)

\* What an execution may ask for, and with which key.
LEMMA AskedOperations ==
    ASSUME ExecutionInv, subject # None, op # None
    PROVE  /\ exec.key = BindKey(subject.wallet, subject.review.key)
           /\ exec.chain = subject.review.chain
           /\ \/ \E f : op = DerivePublicKey(exec.key, f)
              \/ \E a, id : op = Hash(a, id)
              \/ /\ \E s, p, id : op = Sign(exec.key, s, p, id)
                 /\ subject.review.kind \notin PublicKeyKinds
<1> DEFINE r == subject.review
           w == subject.wallet
<1>1. /\ subject \in Subjects /\ op = AskedBy(exec) /\ exec \in Executions(r, w)
  BY DEF ExecutionInv, ExecutionPinned
<1>2. /\ r.chain \in {"bitcoin", "ethereum", "solana"}
  BY <1>1, ReviewFacts DEF Subjects
<1>3. exec.key = BindKey(w, r.key) /\ exec.chain = r.chain
  BY <1>1, <1>2 DEF Executions, PublicKeyExecutions, P2wpkhExecutions,
                    Eip1559Executions, TransferExecutions
<1>4. CASE r.kind \in PublicKeyKinds
  <2>1. exec \in PublicKeyExecutions(r, w)
    BY <1>1, <1>4 DEF Executions
  <2>2. op = DerivePublicKey(exec.key, exec.format)
    BY <1>1, <2>1 DEF PublicKeyExecutions, AskedBy
  <2>3. QED BY <1>3, <2>2
<1>5. CASE r.kind \notin PublicKeyKinds /\ r.chain = "bitcoin"
  <2>1. exec \in P2wpkhExecutions(r, w)
    BY <1>1, <1>5 DEF Executions
  <2>2. exec.kind = "P2wpkh" /\ exec.stage \in BitcoinStages
    BY <2>1 DEF P2wpkhExecutions
  <2>3. \/ op = DerivePublicKey(exec.key, exec.format)
        \/ op = Hash("Hash160", "PubkeyHash")
        \/ op = Hash("DoubleSha256", "Prevouts")
        \/ op = Hash("DoubleSha256", "Sequence")
        \/ op = Hash("DoubleSha256", "Outputs")
        \/ op = Sign(exec.key, "Ecdsa", "DoubleSha256", "Bip143")
    BY <1>1, <2>2 DEF AskedBy, BitcoinStages, KeyTaken, InputProven, PrevoutsHashed,
                      SequenceHashed, PreimageBuilt
  <2>4. QED BY <1>3, <1>5, <2>3
<1>6. CASE r.kind \notin PublicKeyKinds /\ r.chain = "ethereum"
  <2>1. exec \in Eip1559Executions(r, w)
    BY <1>1, <1>6 DEF Executions
  <2>2. op = Sign(exec.key, "EcdsaRecoverable", "Keccak256", "Eip1559")
    BY <1>1, <2>1 DEF Eip1559Executions, AskedBy
  <2>3. QED BY <1>3, <1>6, <2>2
<1>7. CASE r.kind \notin PublicKeyKinds /\ r.chain = "solana"
  <2>1. exec \in TransferExecutions(r, w)
    BY <1>1, <1>7 DEF Executions
  <2>2. \/ op = DerivePublicKey(exec.key, exec.format)
        \/ op = Sign(exec.key, "Ed25519", "None", "Transfer")
    BY <1>1, <2>1 DEF TransferExecutions, AskedBy
  <2>3. QED BY <1>3, <1>7, <2>2
<1>8. QED BY <1>2, <1>4, <1>5, <1>6, <1>7

\* A key that authorize lets through is the reviewed one: authorize compares the
\* wallet id and the target, and the backend's secret is that of its target.
LEMMA AuthorizedIsReviewed ==
    ASSUME ExecutionInv, JobInOrder, RuntimeIsOfSession, SubjectIsRunning,
           subject # None, runtime # None,
           runtime.secret.family = Family(exec.chain), op # None,
           ExecuteRefusal(runtime, op, OpPayload) = {}
    PROVE  /\ \E secret \in ReviewedSecrets :
                 ExecuteOutput(runtime, op, OpPayload)
                    = ExecuteOutput(ReviewedBackend(secret), op, OpPayload)
           /\ op.type = "Sign" => /\ runtime.wallet = subject.wallet
                                  /\ subject.review.kind \notin PublicKeyKinds
<1> DEFINE r == subject.review
           w == subject.wallet
<1>1. exec.key = BindKey(w, r.key) /\ exec.chain = r.chain
  BY AskedOperations
<1>2. \/ \E f : op = DerivePublicKey(exec.key, f)
      \/ \E a, id : op = Hash(a, id)
      \/ /\ \E s, p, id : op = Sign(exec.key, s, p, id)
         /\ r.kind \notin PublicKeyKinds
  BY AskedOperations
<1>3. contexts[runtime.wallet] \in Seeds
  <2>1. runtime.wallet \in DOMAIN contexts /\ contexts \in Seq(Seeds)
    BY DEF JobInOrder, RuntimeIsOfSession
  <2>2. QED BY <2>1
<1>4. ReviewedSecrets # {}
  <2>1. subject.seeds # {}
    BY <1>3 DEF SubjectIsRunning
  <2>2. QED BY <2>1 DEF ReviewedSecrets
<1>5. ASSUME Authorize(runtime, exec.key) = {}
      PROVE  runtime.wallet = w /\ runtime.secret \in ReviewedSecrets
  <2>1. runtime.wallet = w /\ runtime.target = r.key
    BY <1>1, <1>5 DEF Authorize, OrElse, Unless, BindKey
  <2>2. contexts[runtime.wallet] \in subject.seeds
    BY <1>3, <2>1 DEF SubjectIsRunning
  <2>3. runtime.secret = SecretOf(r, contexts[runtime.wallet])
    BY <1>1, <2>1 DEF RuntimeIsOfSession, SecretOf, Secret
  <2>4. QED BY <2>1, <2>2, <2>3 DEF ReviewedSecrets
<1>6. CASE \E f : op = DerivePublicKey(exec.key, f)
  <2>1. op.type = "DerivePublicKey" /\ op.key = exec.key
    BY <1>6 DEF DerivePublicKey
  <2>2. Authorize(runtime, exec.key) = {}
    BY <2>1 DEF ExecuteRefusal, OrElse
  <2>3. QED BY <1>5, <2>1, <2>2 DEF ExecuteOutput, ReviewedBackend
<1>7. CASE \E a, id : op = Hash(a, id)
  <2>1. op.type = "Hash"
    BY <1>7 DEF Hash
  <2>2. QED BY <1>4, <2>1 DEF ExecuteOutput
<1>8. CASE /\ \E s, p, id : op = Sign(exec.key, s, p, id)
           /\ r.kind \notin PublicKeyKinds
  <2>1. op.type = "Sign" /\ op.key = exec.key
    BY <1>8 DEF Sign
  <2>2. Authorize(runtime, exec.key) = {}
    BY <2>1 DEF ExecuteRefusal, OrElse
  <2>3. QED BY <1>5, <1>8, <2>1, <2>2 DEF ExecuteOutput, ReviewedBackend
<1>9. QED BY <1>2, <1>6, <1>7, <1>8

LEMMA CallNextKeeps ==
    ASSUME SigningInv, CallNext
    PROVE  ExecutionInv'
<1>1. subject # None /\ subject' = subject /\ NextCall /\ ExecutionInv
  BY DEF SigningInv, ExecutionInv, ExecutionPinned, CallNext, Idle, NextCall
<1>2. subject.review \in Reviews
  BY <1>1 DEF ExecutionInv, ExecutionPinned, Subjects
<1>3. QED
  BY <1>1, <1>2, ReviewFacts, PublicKeyNext, P2wpkhNext, Eip1559Next, TransferNext

LEMMA ExecuteCryptoKeeps ==
    ASSUME SigningInv, ExecuteCrypto
    PROVE  ExecutionInv'
<1>1. subject # None /\ subject' = subject /\ ExecutionInv
  BY DEF SigningInv, ExecutionInv, ExecutionPinned, ExecuteCrypto, Idle
<1>2. CASE \E e : Refuse(e)
  BY <1>1, <1>2, Refused
<1>3. CASE /\ ExecuteRefusal(runtime, op, OpPayload) = {}
           /\ answer' \in ExecuteOutput(runtime, op, OpPayload)
           /\ UNCHANGED <<exec, op, outcome>>
  <2>1. PICK secret \in ReviewedSecrets :
            answer' \in ExecuteOutput(ReviewedBackend(secret), op, OpPayload)
    BY <1>1, <1>3, AuthorizedIsReviewed DEF SigningInv, ExecuteCrypto
  <2>2. op # None /\ outcome = Pending
    BY DEF ExecuteCrypto
  <2>3. ReviewedSecrets' = ReviewedSecrets
    BY <1>1 DEF ReviewedSecrets
  <2>4. ReviewedBackend(secret)' = ReviewedBackend(secret)
    BY <1>1 DEF ReviewedBackend
  <2>5. OpPayload' = OpPayload
    BY <1>3 DEF OpPayload, Payload, BitcoinPayload, EthereumPayload, SolanaPayload
  <2>6. AnswerIsOfReviewedKey'
    BY <1>1, <1>3, <2>1, <2>2, <2>3, <2>4, <2>5
       DEF AnswerIsOfReviewedKey, ReviewedBackend
  <2>7. ExecutionPinned'
    BY <1>1, <1>3 DEF ExecutionInv, ExecutionPinned
  <2>8. StageIsEarned'
    BY <1>1, <1>3, <2>3 DEF ExecutionInv, StageIsEarned, ReviewedPublicKeys
  <2>9. ResponseMatchesReview'
    BY <1>3, <2>2 DEF ResponseMatchesReview, Pending
  <2>10. QED BY <2>6, <2>7, <2>8, <2>9 DEF ExecutionInv
<1>4. QED BY <1>2, <1>3 DEF ExecuteCrypto

\* A new execution is bound to the session's wallet and the planned review.
LEMMA BeginExecutionKeeps ==
    ASSUME SigningInv, BeginExecution
    PROVE  SigningInv'
<1> DEFINE r == review.value
           w == session.wallet
<1>1. /\ exec = None /\ job.tag = "Running"
      /\ exec' = PrepareExecution(r, w)
      /\ subject' = [review |-> r, wallet |-> w, seeds |-> {contexts[w]},
                     consented |-> consented, live |-> TRUE, wiped |-> FALSE]
      /\ op' = op /\ answer' = answer /\ outcome' = outcome /\ runtime' = runtime
      /\ session' = session /\ job' = job /\ contexts' = contexts /\ review' = review
      /\ consented' = consented
  BY DEF BeginExecution, Idle, deviceVars
<1>2. /\ session # Gate!Closed /\ w \in Wallets /\ contexts[w] \in Seeds
      /\ w \in DOMAIN contexts /\ r \in Reviews /\ consented \in BOOLEAN
      /\ job.key = ReviewPlan(r).uses_private_key
      /\ job.key => consented
  <2>1. JobInOrder /\ job # Gate!NoJob
    BY <1>1 DEF SigningInv, Gate!NoJob
  <2>2. /\ contexts \in Seq(Seeds) /\ Len(contexts) <= MaxContextId
        /\ w \in DOMAIN contexts
    BY <2>1 DEF JobInOrder
  <2>3. w \in Wallets /\ contexts[w] \in Seeds
    BY <2>2, ContextIdAssumption DEF Wallets
  <2>4. QED BY <1>1, <2>1, <2>2, <2>3 DEF JobInOrder, Reviews
<1>3. subject' \in Subjects /\ subject' # None
  <2>1. \A x \in Reviews, y \in Wallets, z \in BOOLEAN, seeds \in SUBSET Seeds :
            [review |-> x, wallet |-> y, seeds |-> seeds, consented |-> z,
             live |-> TRUE, wiped |-> FALSE] \in Subjects
    BY Zenon DEF Subjects
  <2>2. r \in Reviews /\ w \in Wallets /\ consented \in BOOLEAN
        /\ {contexts[w]} \in SUBSET Seeds
    BY <1>2
  <2>3. subject' \in Subjects
    BY <1>1, <2>1, <2>2, Zenon
  <2>4. QED BY <2>3, NoneIsNothing
<1>4. subject = None /\ op = None /\ answer = None /\ outcome = Pending
  BY <1>1, NoneIsNothing DEF SigningInv, ExecutionInv, ExecutionPinned, Subjects
<1>5. PrepareExecution(r, w) \in Executions(r, w) /\ PrepareExecution(r, w).stage = "Ready"
  <2>1. r.chain \in {"bitcoin", "ethereum", "solana"}
    BY <1>2, ReviewFacts
  <2>2. CASE r.kind \in PublicKeyKinds
    <3>1. PrepareExecution(r, w)
            = PublicKeyExecution(r, w, PublicKeyFormat(r.chain))
      BY <2>1, <2>2 DEF PrepareExecution, BitcoinExecution, EthereumExecution,
                        SolanaExecution, PublicKeyFormat
    <3>2. Executions(r, w) = PublicKeyExecutions(r, w)
      BY <2>2 DEF Executions
    <3>3. PublicKeyExecution(r, w, PublicKeyFormat(r.chain)) \in PublicKeyExecutions(r, w)
      BY DEF PublicKeyExecution, PublicKeyExecutions
    <3>4. QED BY <3>1, <3>2, <3>3 DEF PublicKeyExecution
  <2>3. CASE r.kind \notin PublicKeyKinds /\ r.chain = "bitcoin"
    BY <2>3 DEF PrepareExecution, BitcoinExecution, Executions, P2wpkhExecutions,
                BitcoinStages
  <2>4. CASE r.kind \notin PublicKeyKinds /\ r.chain = "ethereum"
    BY <2>4 DEF PrepareExecution, EthereumExecution, Executions, Eip1559Executions
  <2>5. CASE r.kind \notin PublicKeyKinds /\ r.chain = "solana"
    BY <2>5 DEF PrepareExecution, SolanaExecution, Executions, TransferExecutions
  <2>6. QED BY <2>1, <2>2, <2>3, <2>4, <2>5
<1>6. JobInOrder' /\ RuntimeIsOfSession'
  BY <1>1 DEF SigningInv, JobInOrder, RuntimeIsOfSession
<1>7. SubjectIsRunning'
  BY <1>1, <1>2 DEF SubjectIsRunning
<1>8. ExecutionPinned'
  BY <1>1, <1>3, <1>4, <1>5 DEF ExecutionPinned, AskedBy
<1>9. StageIsEarned'
  BY <1>1, <1>5 DEF StageIsEarned, KeyTaken, InputProven, PrevoutsHashed,
                    SequenceHashed, PreimageBuilt
<1>10. AnswerIsOfReviewedKey' /\ ResponseMatchesReview'
  BY <1>1, <1>4 DEF AnswerIsOfReviewedKey, ResponseMatchesReview, Pending
<1>11. QED
  BY <1>6, <1>7, <1>8, <1>9, <1>10 DEF SigningInv, ExecutionInv

\* The rest of the driver leaves the device and the subject alone.
LEMMA DriverFrame ==
    ASSUME SigningInv, deviceVars' = deviceVars, subject' = subject
    PROVE  /\ JobInOrder' /\ SubjectIsRunning'
           /\ runtime' = runtime => RuntimeIsOfSession'
<1>1. /\ session' = session /\ job' = job /\ contexts' = contexts /\ review' = review
      /\ consented' = consented
  BY DEF deviceVars
<1>2. JobInOrder'
  BY <1>1 DEF SigningInv, JobInOrder
<1>3. SubjectIsRunning'
  BY <1>1 DEF SigningInv, SubjectIsRunning
<1>4. QED BY <1>1, <1>2, <1>3 DEF SigningInv, RuntimeIsOfSession

LEMMA MaterializeKeyKeeps ==
    ASSUME SigningInv, MaterializeKey
    PROVE  SigningInv'
<1> DEFINE hd == HdKeyBackend(session.wallet, contexts[session.wallet], exec.chain)
<1>1. deviceVars' = deviceVars /\ subject' = subject /\ subject # None
  BY DEF MaterializeKey, SigningInv, ExecutionInv, ExecutionPinned, Idle
<1>2. CASE (\E e : Refuse(e)) /\ runtime' = runtime
  BY <1>1, <1>2, DriverFrame, Refused DEF SigningInv
<1>3. CASE runtime' = SoftwareBackend(hd, exec.key) /\ execVars' = execVars
  <2>1. ExecutionInv'
    BY <1>1, <1>3, ExecutionFrame DEF SigningInv
  <2>2. session' = session /\ contexts' = contexts /\ session # Gate!Closed
    BY <1>1 DEF MaterializeKey, deviceVars
  <2>3. RuntimeIsOfSession'
    BY <1>3, <2>2 DEF RuntimeIsOfSession, SoftwareBackend, HdKeyBackend, Secret
  <2>4. QED BY <1>1, <2>1, <2>3, DriverFrame DEF SigningInv
<1>4. QED BY <1>2, <1>3 DEF MaterializeKey

LEMMA RetryKeeps ==
    ASSUME SigningInv, Retry
    PROVE  SigningInv'
<1>1. /\ deviceVars' = deviceVars /\ subject' = subject /\ runtime' = runtime
      /\ exec' = exec /\ op' = op /\ answer' = answer /\ outcome' = Pending
      /\ outcome # Pending
  BY DEF Retry, Pending
<1>2. ReviewedSecrets' = ReviewedSecrets
  BY <1>1 DEF ReviewedSecrets
<1>3. ExecutionPinned'
  BY <1>1 DEF SigningInv, ExecutionInv, ExecutionPinned
<1>4. answer = None
  BY <1>1 DEF SigningInv, ExecutionInv, AnswerIsOfReviewedKey
<1>5. StageIsEarned'
  BY <1>1, <1>2 DEF SigningInv, ExecutionInv, StageIsEarned, ReviewedPublicKeys
<1>6. AnswerIsOfReviewedKey' /\ ResponseMatchesReview'
  BY <1>1, <1>4 DEF AnswerIsOfReviewedKey, ResponseMatchesReview, Pending
<1>7. QED BY <1>1, <1>3, <1>5, <1>6, DriverFrame DEF SigningInv, ExecutionInv

\* An ended job takes its review and consent along.
LEMMA EndJobKeeps ==
    ASSUME SigningInv, EndJob, DropExecution, contexts' = contexts,
           runtime' = runtime \/ runtime' = None
    PROVE  SigningInv'
<1>1. /\ session' = session /\ job' = Gate!NoJob /\ review' = None
      /\ consented' = FALSE /\ subject' = None
  BY DEF EndJob, Gate!EndJob, DropExecution
<1>2. JobInOrder'
  BY <1>1 DEF SigningInv, JobInOrder, Gate!NoJob
<1>3. RuntimeIsOfSession' /\ SubjectIsRunning'
  BY <1>1 DEF SigningInv, RuntimeIsOfSession, SubjectIsRunning
<1>4. QED BY <1>2, <1>3, Dropped DEF SigningInv

\* An execution that is dropped leaves the device alone.
LEMMA DropKeeps ==
    ASSUME SigningInv, DropExecution, deviceVars' = deviceVars,
           runtime' = runtime \/ runtime' = None
    PROVE  SigningInv'
<1>1. /\ session' = session /\ job' = job /\ contexts' = contexts /\ review' = review
      /\ consented' = consented /\ subject' = None
  BY DEF deviceVars, DropExecution
<1>2. JobInOrder'
  BY <1>1 DEF SigningInv, JobInOrder
<1>3. RuntimeIsOfSession' /\ SubjectIsRunning'
  BY <1>1 DEF SigningInv, RuntimeIsOfSession, SubjectIsRunning
<1>4. QED BY <1>2, <1>3, Dropped DEF SigningInv

LEMMA DriverKeeps ==
    ASSUME SigningInv, Driver
    PROVE  SigningInv'
<1>1. CASE BeginExecution
  BY <1>1, BeginExecutionKeeps
<1>2. CASE CallNext
  BY <1>2, CallNextKeeps, DriverFrame DEF CallNext, SigningInv
<1>3. CASE MaterializeKey
  BY <1>3, MaterializeKeyKeeps
<1>4. CASE ExecuteCrypto
  BY <1>4, ExecuteCryptoKeeps, DriverFrame DEF ExecuteCrypto, SigningInv
<1>5. CASE Report
  <2>1. DropExecution /\ contexts' = contexts /\ (runtime' = runtime \/ runtime' = None)
    BY <1>5 DEF Report
  <2>2. CASE EndJob
    BY <2>1, <2>2, EndJobKeeps
  <2>3. CASE UNCHANGED <<session, job, review, consented>>
    BY <2>1, <2>3, DropKeeps DEF deviceVars
  <2>4. QED BY <1>5, <2>2, <2>3 DEF Report
<1>6. CASE DropStale
  BY <1>6, DropKeeps DEF DropStale
<1>7. QED BY <1>1, <1>2, <1>3, <1>4, <1>5, <1>6 DEF Driver

-----------------------------------------------------------------------------
(* The device *)

\* A new session has a context that no execution has that was not kept over a
\* wipe.
LEMMA OpenKeeps ==
    ASSUME SigningInv, NEW h \in Hosts, NEW s \in Seeds, Open(h, s)
    PROVE  SigningInv'
<1>1. /\ session = Gate!Closed /\ Len(contexts) < MaxContextId
      /\ contexts' = Append(contexts, s)
      /\ session' = [tag |-> "Open", host |-> h, wallet |-> Len(contexts'),
                     trust |-> "Trusted"]
      /\ job' = job /\ review' = review /\ consented' = consented
      /\ execVars' = execVars /\ runtime' = runtime /\ subject' = subject
  BY DEF Open, Gate!OpenSession
<1>2. contexts \in Seq(Seeds)
  BY DEF SigningInv, JobInOrder
<1>3. /\ contexts' \in Seq(Seeds) /\ Len(contexts') = Len(contexts) + 1
      /\ Len(contexts') <= MaxContextId
      /\ Len(contexts') \in DOMAIN contexts' /\ Len(contexts') \notin DOMAIN contexts
      /\ \A i \in DOMAIN contexts : i \in DOMAIN contexts' /\ contexts'[i] = contexts[i]
  BY <1>1, <1>2, ContextIdAssumption
<1>4. /\ session'.tag = "Open" /\ session'.wallet = Len(contexts')
      /\ session' # Gate!Closed
  BY <1>1 DEF Gate!Closed
<1>5. job = Gate!NoJob /\ runtime = None
  BY <1>1 DEF SigningInv, JobInOrder, RuntimeIsOfSession
<1>6. JobInOrder'
  BY <1>1, <1>3, <1>4, <1>5 DEF SigningInv, JobInOrder
<1>7. RuntimeIsOfSession'
  BY <1>1, <1>5 DEF RuntimeIsOfSession
<1>8. subject # None => ~subject.live
  BY <1>5 DEF SigningInv, SubjectIsRunning, Gate!NoJob
<1>9. SubjectIsRunning'
  BY <1>1, <1>3, <1>4, <1>8 DEF SigningInv, SubjectIsRunning
<1>10. ExecutionInv'
  BY <1>1, ExecutionFrame DEF SigningInv
<1>11. QED BY <1>6, <1>7, <1>9, <1>10 DEF SigningInv

\* The end of a session takes the keys away; the execution in progress is no
\* longer the device's, and after a wipe any wallet may get its context id.
LEMMA LeaveSessionKeeps ==
    ASSUME SigningInv, NEW wipe \in BOOLEAN, LeaveSession(wipe),
           contexts' \in Seq(Seeds), Len(contexts') <= MaxContextId,
           wipe \/ contexts' = contexts
    PROVE  SigningInv'
<1>1. /\ session' = Gate!Closed /\ job' = Gate!NoJob
      /\ review' = None /\ consented' = FALSE /\ runtime' = None
      /\ execVars' = execVars
  BY DEF LeaveSession, Gate!CloseSession
<1>2. JobInOrder' /\ RuntimeIsOfSession'
  BY <1>1 DEF JobInOrder, RuntimeIsOfSession, Gate!NoJob
<1>3. CASE subject = None
  <2>1. subject' = None
    BY <1>3 DEF LeaveSession
  <2>2. QED BY <1>1, <1>2, <1>3, <2>1, ExecutionFrame DEF SigningInv, SubjectIsRunning
<1>4. CASE subject # None
  <2>1. /\ subject \in Subjects
        /\ subject' = [subject EXCEPT !.live = FALSE, !.wiped = subject.wiped \/ wipe,
                             !.seeds = IF wipe THEN Seeds ELSE subject.seeds]
    BY <1>4 DEF LeaveSession, SigningInv, ExecutionInv, ExecutionPinned
  <2>2. /\ subject'.review = subject.review /\ subject'.wallet = subject.wallet
        /\ subject'.consented = subject.consented /\ subject'.live = FALSE
        /\ subject'.wiped = (subject.wiped \/ wipe)
        /\ subject'.seeds = IF wipe THEN Seeds ELSE subject.seeds
    BY <2>1 DEF Subjects
  <2>3. subject' \in Subjects /\ subject.seeds \subseteq subject'.seeds
    BY <2>1, <2>2 DEF Subjects
  <2>4. ExecutionInv'
    BY <1>1, <1>4, <2>2, <2>3, ExecutionFrame DEF SigningInv
  <2>5. SubjectIsRunning'
    BY <1>1, <1>4, <2>1, <2>2 DEF SigningInv, SubjectIsRunning, Subjects
  <2>6. QED BY <1>2, <2>4, <2>5 DEF SigningInv
<1>5. QED BY <1>3, <1>4

LEMMA LockKeeps ==
    ASSUME SigningInv, Lock
    PROVE  SigningInv'
BY LeaveSessionKeeps DEF SigningInv, JobInOrder, Lock

LEMMA WipeKeeps ==
    ASSUME SigningInv, Wipe
    PROVE  SigningInv'
<1>1. contexts' = <<>> /\ LeaveSession(TRUE)
  BY DEF Wipe
<1>2. contexts' \in Seq(Seeds) /\ Len(contexts') <= MaxContextId
  BY <1>1, ContextIdAssumption
<1>3. QED BY <1>1, <1>2, LeaveSessionKeeps

\* What a step of the job keeps that leaves the session open and comes from a
\* job that is not running.
LEMMA JobStepFrame ==
    ASSUME SigningInv, job.tag # "Running", session' = session, contexts' = contexts,
           execVars' = execVars, runtime' = runtime, subject' = subject
    PROVE  RuntimeIsOfSession' /\ SubjectIsRunning' /\ ExecutionInv'
<1>1. subject # None => ~subject.live
  BY DEF SigningInv, SubjectIsRunning
<1>2. RuntimeIsOfSession'
  BY DEF SigningInv, RuntimeIsOfSession
<1>3. SubjectIsRunning'
  BY <1>1 DEF SigningInv, SubjectIsRunning
<1>4. QED BY <1>2, <1>3, ExecutionFrame DEF SigningInv

LEMMA RequestKeeps ==
    ASSUME SigningInv, NEW q \in Requests, Request(q)
    PROVE  SigningInv'
<1>1. /\ session # Gate!Closed /\ job = Gate!NoJob /\ session' = session
      /\ job'.tag = "Submitted" /\ contexts' = contexts /\ review' = PrepareReview(q)
      /\ consented' = FALSE /\ execVars' = execVars /\ runtime' = runtime
      /\ subject' = subject
  BY DEF Request, Gate!Submit
<1>2. JobInOrder'
  BY <1>1 DEF SigningInv, JobInOrder
<1>3. QED BY <1>1, <1>2, JobStepFrame DEF SigningInv, Gate!NoJob

LEMMA PlanReviewKeeps ==
    ASSUME SigningInv, PlanReview
    PROVE  SigningInv'
<1>1. /\ job.tag = "Submitted" /\ session' = session /\ job'.tag = "Planned"
      /\ review.tag = "Ok" /\ job'.key = ReviewPlan(review.value).uses_private_key
      /\ contexts' = contexts /\ review' = review /\ consented' = consented
      /\ execVars' = execVars /\ runtime' = runtime /\ subject' = subject
  BY DEF PlanReview, Gate!Plan, Gate!Become
<1>2. JobInOrder'
  BY <1>1 DEF SigningInv, JobInOrder, Gate!NoJob
<1>3. QED BY <1>1, <1>2, JobStepFrame DEF SigningInv

LEMMA ShowReviewKeeps ==
    ASSUME SigningInv, ShowReview
    PROVE  SigningInv'
<1>1. /\ job.tag = "Planned" /\ session' = session
      /\ contexts' = contexts /\ review' = review /\ consented' = consented
      /\ execVars' = execVars /\ runtime' = runtime /\ subject' = subject
  BY DEF ShowReview, Gate!RunShown, Gate!Present, Gate!Become
<1>2. job.key = ReviewPlan(review.value).uses_private_key
      /\ ReviewPlan(review.value).uses_private_key \in BOOLEAN
  BY <1>1 DEF SigningInv, JobInOrder, ReviewPlan, PublicKeyPlan, SigningPlan
<1>3. \/ job'.tag = "Running" /\ job'.key = FALSE /\ job.key = FALSE
      \/ job'.tag = "Presented" /\ job'.key = job.key
  BY <1>2 DEF ShowReview, Gate!RunShown, Gate!Present, Gate!Become
<1>4. /\ review.tag = "Ok" /\ consented \in BOOLEAN
      /\ contexts \in Seq(Seeds) /\ Len(contexts) <= MaxContextId
      /\ session.tag = "Open" /\ session.wallet \in DOMAIN contexts
      /\ session # Gate!Closed
      /\ \E q \in Requests : review = PrepareReview(q)
  BY <1>1 DEF SigningInv, JobInOrder, Gate!NoJob, Gate!Closed
<1>5. CASE job'.tag = "Running" /\ job'.key = FALSE /\ job.key = FALSE
  <2>1. ReviewPlan(review.value)'.uses_private_key = job'.key
    BY <1>1, <1>2, <1>5
  <2>2. ~job'.key
    BY <1>5
  <2>3. JobInOrder'
    BY <1>1, <1>4, <1>5, <2>1, <2>2 DEF JobInOrder
  <2>4. QED BY <1>1, <2>3, JobStepFrame DEF SigningInv
<1>6. CASE job'.tag = "Presented" /\ job'.key = job.key
  <2>1. JobInOrder'
    BY <1>1, <1>2, <1>4, <1>6 DEF JobInOrder
  <2>2. QED BY <1>1, <2>1, JobStepFrame DEF SigningInv
<1>7. QED BY <1>3, <1>5, <1>6

LEMMA ConfirmReviewKeeps ==
    ASSUME SigningInv, ConfirmReview
    PROVE  SigningInv'
<1>1. /\ job.tag = "Presented" /\ session' = session
      /\ job'.tag = "Running" /\ job'.key = job.key
      /\ contexts' = contexts /\ review' = review /\ consented' = TRUE
      /\ execVars' = execVars /\ runtime' = runtime /\ subject' = subject
  BY DEF ConfirmReview, Gate!Consent, Gate!Become
<1>2. JobInOrder'
  BY <1>1 DEF SigningInv, JobInOrder, Gate!NoJob
<1>3. QED BY <1>1, <1>2, JobStepFrame DEF SigningInv

LEMMA CancelJobKeeps ==
    ASSUME SigningInv, CancelJob
    PROVE  SigningInv'
<1>1. EndJob /\ contexts' = contexts /\ runtime' = runtime
  BY DEF CancelJob
<1>2. CASE DropExecution
  BY <1>1, <1>2, EndJobKeeps
<1>3. CASE /\ ~(subject # None /\ subject.live)
           /\ UNCHANGED <<execVars, subject>>
  <2>1. /\ session' = session /\ job' = Gate!NoJob /\ review' = None
        /\ consented' = FALSE
    BY <1>1 DEF EndJob, Gate!EndJob
  <2>2. JobInOrder'
    BY <1>1, <2>1 DEF SigningInv, JobInOrder, Gate!NoJob
  <2>3. RuntimeIsOfSession' /\ SubjectIsRunning'
    BY <1>1, <1>3, <2>1 DEF SigningInv, RuntimeIsOfSession, SubjectIsRunning
  <2>4. QED BY <1>3, <2>2, <2>3, ExecutionFrame DEF SigningInv
<1>4. QED BY <1>2, <1>3 DEF CancelJob

-----------------------------------------------------------------------------
(* Theorems *)

\* At every moment of every behaviour the execution is pinned to what was
\* reviewed, the driver's key is one of the open session, and what runs was
\* planned and confirmed.  An execution of an earlier session does not find its
\* context id open again unless the device was wiped in between.
THEOREM SigningInductive == Spec => []SigningInv
<1>1. Init => SigningInv
  <2> SUFFICES ASSUME Init PROVE SigningInv
    OBVIOUS
  <2>1. JobInOrder
    <3>1. <<>> \in Seq(Seeds) /\ Len(<<>>) <= MaxContextId
      BY ContextIdAssumption
    <3>2. QED BY <3>1 DEF Init, Gate!Init, Gate!NoJob, JobInOrder
  <2>2. RuntimeIsOfSession /\ SubjectIsRunning
    BY DEF Init, RuntimeIsOfSession, SubjectIsRunning
  <2>3. ExecutionInv
    BY DEF Init, Pending, ExecutionInv, ExecutionPinned, AnswerIsOfReviewedKey,
           StageIsEarned, ResponseMatchesReview
  <2>4. QED BY <2>1, <2>2, <2>3 DEF SigningInv
<1>2. SigningInv /\ [Next]_sessionVars => SigningInv'
  <2> SUFFICES ASSUME SigningInv, [Next]_sessionVars PROVE SigningInv'
    OBVIOUS
  <2>1. CASE \E h \in Hosts, s \in Seeds : Open(h, s)
    BY <2>1, OpenKeeps
  <2>2. CASE Lock
    BY <2>2, LockKeeps
  <2>3. CASE \E q \in Requests : Request(q)
    BY <2>3, RequestKeeps
  <2>4. CASE PlanReview
    BY <2>4, PlanReviewKeeps
  <2>5. CASE ShowReview
    BY <2>5, ShowReviewKeeps
  <2>6. CASE ConfirmReview
    BY <2>6, ConfirmReviewKeeps
  <2>7. CASE CancelJob
    BY <2>7, CancelJobKeeps
  <2>8. CASE Driver
    BY <2>8, DriverKeeps
  <2>9. CASE Retry
    BY <2>9, RetryKeeps
  <2>10. CASE Wipe
    BY <2>10, WipeKeeps
  <2>11. CASE UNCHANGED sessionVars
    BY <2>11, DriverFrame, ExecutionFrame DEF sessionVars, SigningInv
  <2>12. QED
    BY <2>1, <2>2, <2>3, <2>4, <2>5, <2>6, <2>7, <2>8, <2>9, <2>10, <2>11 DEF Next
<1>3. QED BY <1>1, <1>2, PTL DEF Spec

\* What leaves an execution is what the user reviewed, made with the reviewed
\* key of the wallet in which the job was accepted; of some wallet, if the
\* execution was kept while the device was wiped.
THEOREM ResponsesMatchReviews == Spec => []ResponseMatchesReview
<1>1. SigningInv => ResponseMatchesReview
  BY DEF SigningInv, ExecutionInv
<1>2. QED BY <1>1, SigningInductive, PTL

\* Bitcoin and Solana ask for a signature only once the key is known to be the
\* one the transaction spends from.
THEOREM KeysAreProven == Spec => []KeyProvenBeforeSigning
<1>1. SigningInv => KeyProvenBeforeSigning
  <2> SUFFICES ASSUME SigningInv, op # None, op.type = "Sign"
               PROVE  KeyProvenBeforeSigning
    BY DEF KeyProvenBeforeSigning
  <2> DEFINE r == subject.review
             w == subject.wallet
  <2>1. /\ subject # None /\ subject \in Subjects /\ op = AskedBy(exec)
        /\ exec \in Executions(r, w) /\ StageIsEarned
    BY DEF SigningInv, ExecutionInv, ExecutionPinned
  <2>2. r.kind \notin PublicKeyKinds
    <3>1. SUFFICES ASSUME r.kind \in PublicKeyKinds PROVE FALSE
      OBVIOUS
    <3>2. exec \in PublicKeyExecutions(r, w)
      BY <2>1, <3>1 DEF Executions
    <3>3. op = DerivePublicKey(exec.key, exec.format)
      BY <2>1, <3>2 DEF PublicKeyExecutions, AskedBy
    <3>4. QED BY <3>3 DEF DerivePublicKey
  <2>3. CASE r.chain = "bitcoin"
    <3>1. exec \in P2wpkhExecutions(r, w)
      BY <2>1, <2>2, <2>3 DEF Executions
    <3>2. exec.kind = "P2wpkh" /\ exec.stage \in BitcoinStages
      BY <3>1 DEF P2wpkhExecutions
    <3>3. exec.stage = "AwaitingSignature"
      BY <2>1, <3>2 DEF AskedBy, DerivePublicKey, Hash, BitcoinStages, KeyTaken,
                        InputProven, PrevoutsHashed, SequenceHashed, PreimageBuilt
    <3>4. QED BY <2>1, <2>3, <3>2, <3>3
                 DEF StageIsEarned, KeyProvenBeforeSigning, KeyTaken, InputProven,
                     PrevoutsHashed, SequenceHashed, PreimageBuilt
  <2>4. CASE r.chain = "solana"
    <3>1. exec \in TransferExecutions(r, w)
      BY <2>1, <2>2, <2>4 DEF Executions
    <3>2. exec.kind = "SystemTransfer" /\ exec.stage = "AwaitingSignature"
      BY <2>1, <3>1 DEF TransferExecutions, AskedBy, DerivePublicKey
    <3>3. QED BY <2>1, <2>4, <3>2 DEF StageIsEarned, KeyProvenBeforeSigning
  <2>5. QED BY <2>3, <2>4 DEF KeyProvenBeforeSigning
<1>2. QED BY <1>1, SigningInductive, PTL

\* next() keeps no answer.
LEMMA NextTakesAnswer == NextCall => answer' = None
<1>1. BitcoinNext => answer' = None
  BY DEF BitcoinNext, BitcoinStart, Start, AskFor, AcceptPublicKeyOnly, Refuse, Finish,
         AcceptPublicKey, AcceptPubkeyHash, AcceptPrevoutsHash, AcceptSequenceHash,
         AcceptComponentHash, AcceptOutputsHash, AcceptSignature
<1>2. EthereumNext => answer' = None
  BY DEF EthereumNext, EthereumStart, Start, AskFor, AcceptPublicKeyOnly, Refuse,
         Finish, AcceptEip1559Signature
<1>3. SolanaNext => answer' = None
  BY DEF SolanaNext, SolanaStart, Start, AskFor, AcceptPublicKeyOnly, Refuse, Finish,
         AcceptSigner, AcceptTransferSignature
<1>4. QED BY <1>1, <1>2, <1>3 DEF NextCall, ExecutionFinished, Refuse

\* A signature comes into being only while the confirmed operation runs in the
\* session it was confirmed in, or, from an execution kept while the device was
\* wiped, in a session that has its context id again.
THEOREM SignaturesHaveConsent == Spec => SignatureHasConsent
<1> DEFINE Signed == answer = None /\ answer' # None /\ answer'.type = "Signature"
           Consented == /\ subject.consented
                        /\ session # Gate!Closed /\ session.wallet = subject.wallet
                        /\ ~subject.wiped =>
                              subject.live /\ job.tag = "Running" /\ job.key
<1>1. SigningInv /\ [Next]_sessionVars => [Signed => Consented]_sessionVars
  <2> SUFFICES ASSUME SigningInv, Next, Signed PROVE Consented
    OBVIOUS
  <2>1. ExecuteCrypto
    <3>1. CASE CallNext
      BY <3>1, NextTakesAnswer DEF CallNext, NextCall
    <3>2. CASE MaterializeKey
      BY <3>2 DEF MaterializeKey, Refuse, execVars
    <3>3. CASE BeginExecution \/ Report \/ DropStale \/ Retry \/ CancelJob
      BY <3>3 DEF BeginExecution, Report, DropStale, Retry, CancelJob, DropExecution,
                  execVars
    <3>4. CASE Lock \/ Wipe \/ PlanReview \/ ShowReview \/ ConfirmReview
      BY <3>4 DEF Lock, Wipe, LeaveSession, PlanReview, ShowReview, ConfirmReview, execVars
    <3>5. CASE \/ \E h \in Hosts, s \in Seeds : Open(h, s)
               \/ \E q \in Requests : Request(q)
      BY <3>5 DEF Open, Request, execVars
    <3>6. QED BY <3>1, <3>2, <3>3, <3>4, <3>5 DEF Next, Driver
  <2>2. /\ ExecutionInv /\ JobInOrder /\ RuntimeIsOfSession /\ SubjectIsRunning
        /\ subject # None /\ runtime # None /\ op # None
        /\ runtime.secret.family = Family(exec.chain)
    BY <2>1 DEF SigningInv, ExecutionInv, ExecutionPinned, ExecuteCrypto, Idle
  <2>3. /\ ExecuteRefusal(runtime, op, OpPayload) = {}
        /\ answer' \in ExecuteOutput(runtime, op, OpPayload)
    BY <2>1 DEF ExecuteCrypto, Refuse
  <2>4. op.type = "Sign"
    <3>1. op.type \in {"DerivePublicKey", "Hash", "Sign"}
      BY <2>2, AskedOperations DEF DerivePublicKey, Hash, Sign
    <3>2. QED BY <2>3, <3>1 DEF ExecuteOutput
  <2>5. /\ runtime.wallet = subject.wallet /\ subject.review.kind \notin PublicKeyKinds
    BY <2>2, <2>3, <2>4, AuthorizedIsReviewed
  <2>6. /\ session # Gate!Closed /\ session.wallet = subject.wallet
        /\ ~subject.wiped => subject.live
    BY <2>2, <2>5 DEF RuntimeIsOfSession, SubjectIsRunning
  <2>7. ReviewPlan(subject.review).uses_private_key
    BY <2>5 DEF ReviewPlan, SigningPlan
  <2>8. QED BY <2>2, <2>6, <2>7 DEF SubjectIsRunning
<1>2. QED BY <1>1, SigningInductive, PTL DEF Spec, SignatureHasConsent
=============================================================================
