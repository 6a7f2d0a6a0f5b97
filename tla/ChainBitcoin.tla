---------------------------- MODULE ChainBitcoin ----------------------------
(***************************************************************************)
(* The Bitcoin adapter (crates/chain-bitcoin): a PSBT with one P2WPKH      *)
(* input and output is reviewed, and its execution proves that the wallet  *)
(* owns the input before it asks for a signature over the BIP-143          *)
(* preimage it assembled from the hashes it was given.                     *)
(*                                                                         *)
(* A PSBT is its global and input maps as sequences of fields, read in     *)
(* order, and what follows them.                                           *)
(***************************************************************************)
EXTENDS ChainApi, Naturals, Sequences

\* A loop of parse_psbt stops at the first field it refuses.
FirstRefusal(fields, RefusalAt(_, _)) ==
    LET refused == {i \in DOMAIN fields : RefusalAt(fields, i) # {}}
    IN IF refused = {} THEN {}
       ELSE RefusalAt(fields, CHOOSE i \in refused : \A j \in refused : i <= j)

NotRepeated(fields, i) ==
    Unless(\A j \in 1..(i - 1) : fields[j].type # fields[i].type, "DuplicateField")

GlobalRefusal(fields, i) ==
    CASE fields[i].type = "UnsignedTx" -> NotRepeated(fields, i)
      [] fields[i].type = "Version0" -> {}
      [] OTHER -> {"UnsupportedGlobal"}

\* A program of None stands for a script that is not P2WPKH.
InputRefusal(fields, i) ==
    CASE fields[i].type \in {"NonWitnessUtxo", "Bip32Derivation"} ->
            NotRepeated(fields, i)
      [] fields[i].type = "WitnessUtxo" ->
            OrElse(NotRepeated(fields, i),
                   Unless(fields[i].program # None, "UnsupportedScript"))
      [] fields[i].type = "SighashType" -> {}
      [] OTHER -> {"UnsupportedInput"}

\* The field of this type, the last one where it may be repeated, or None.
FieldOf(fields, type) ==
    LET found == {i \in DOMAIN fields : fields[i].type = type}
    IN IF found = {} THEN None
       ELSE fields[CHOOSE i \in found : \A j \in found : j <= i]

UnsignedTx(psbt) == FieldOf(psbt.global, "UnsignedTx")
WitnessUtxo(psbt) == FieldOf(psbt.input, "WitnessUtxo")
Sighash(psbt) == FieldOf(psbt.input, "SighashType")
Bip32Derivation(psbt) == FieldOf(psbt.input, "Bip32Derivation")

\* A tx of None stands for any shape parse_unsigned_transaction refuses.
ParsePsbtRefusal(psbt) ==
    OrElse(FirstRefusal(psbt.global, GlobalRefusal),
    OrElse(Unless(UnsignedTx(psbt) # None, "InvalidPsbt"),
    OrElse(Unless(UnsignedTx(psbt).tx # None, "InvalidUnsignedTransaction"),
    OrElse(FirstRefusal(psbt.input, InputRefusal),
    OrElse(Unless(Sighash(psbt) = None \/ Sighash(psbt).value = "All",
                  "UnsupportedSighash"),
    OrElse(Unless(psbt.rest = "Empty", psbt.rest),
    OrElse(Unless(WitnessUtxo(psbt) # None, "MissingWitnessUtxo"),
           Unless(UnsignedTx(psbt).tx.amount <= WitnessUtxo(psbt).amount,
                  "FeeUnderflow"))))))))

\* parse_psbt
P2wpkhReview(request) ==
    LET tx == UnsignedTx(request.psbt).tx
        utxo == WitnessUtxo(request.psbt)
        derivation == Bip32Derivation(request.psbt)
    IN [chain |-> "bitcoin", kind |-> "SignTransaction", key |-> request.key,
        tx |-> tx, input_amount |-> utxo.amount, fee |-> utxo.amount - tx.amount,
        input_program |-> utxo.program,
        psbt_pubkey |-> IF derivation = None THEN None ELSE derivation.pubkey]

BitcoinReview(request) ==
    CASE request.kind \in PublicKeyKinds ->
            Ok(PublicKeyReview("bitcoin", request))
      [] request.kind = "SignMessage" -> Err("ParserNotImplemented")
      [] request.kind = "SignTransaction" ->
            IF ParsePsbtRefusal(request.psbt) = {} THEN Ok(P2wpkhReview(request))
            ELSE Err(CHOOSE e \in ParsePsbtRefusal(request.psbt) : TRUE)

\* prepare_execution
BitcoinExecution(review, context) ==
    IF review.kind \in PublicKeyKinds
    THEN PublicKeyExecution(review, context, "Compressed")
    ELSE [chain |-> "bitcoin", kind |-> "P2wpkh", stage |-> "Ready",
          key |-> BindKey(context, review.key), format |-> "Compressed",
          tx |-> review.tx, input_amount |-> review.input_amount,
          input_program |-> review.input_program,
          expected_pubkey |-> review.psbt_pubkey,
          public_key |-> None, hash_prevouts |-> None, hash_sequence |-> None,
          preimage |-> None]

\* The parts of a transaction that BIP-143 hashes.
Part(name, tx) == [part |-> name, tx |-> tx]

\* payload()
BitcoinPayload(id) ==
    CASE id = "PubkeyHash" -> exec.public_key
      [] id \in {"Prevouts", "Sequence", "Outputs"} -> Part(id, exec.tx)
      [] id = "Bip143" -> exec.preimage
      [] OTHER -> None

\* build_bip143_preimage
Bip143(tx, amount, program, prevouts, sequence, outputs) ==
    [tx |-> tx, amount |-> amount, program |-> program, prevouts |-> prevouts,
     sequence |-> sequence, outputs |-> outputs]

-----------------------------------------------------------------------------
(* Execution::next, one action per stage *)

AwaitsBitcoin(stage) ==
    exec.chain = "bitcoin" /\ exec.kind = "P2wpkh" /\ exec.stage = stage

BitcoinStart ==
    exec.chain = "bitcoin"
      /\ Start("AwaitingPublicKey", DerivePublicKey(exec.key, exec.format))

\* The key is stored before it is compared with the one in the PSBT.
AcceptPublicKey ==
    /\ AwaitsBitcoin("AwaitingPublicKey")
    /\ LET valid == IsOutput("PublicKey") /\ answer.format = "Compressed"
       IN \/ ~valid /\ Refuse("UnexpectedCryptoResult")
          \/ /\ valid /\ exec.expected_pubkey \notin {None, answer.bytes}
             /\ exec' = [exec EXCEPT !.public_key = answer.bytes]
             /\ outcome' = Err("PublicKeyMismatch")
             /\ answer' = None
             /\ UNCHANGED op
          \/ /\ valid /\ exec.expected_pubkey \in {None, answer.bytes}
             /\ exec' = [exec EXCEPT !.public_key = answer.bytes,
                                     !.stage = "AwaitingPubkeyHash"]
             /\ AskFor(Hash("Hash160", "PubkeyHash"))

\* digest_bytes
DigestRefusal(algorithm) ==
    OrElse(Unless(IsOutput("Digest"), "UnexpectedCryptoResult"),
           Unless(answer # None /\ answer.algorithm = algorithm, "InvalidDigest"))

\* Mutant: the input is not compared with the key.
PubkeyHashRefusal_AnyProgram == DigestRefusal("Hash160")
PubkeyHashRefusal ==
    OrElse(DigestRefusal("Hash160"),
           Unless(answer # None /\ answer.bytes = exec.input_program,
                  "WitnessProgramMismatch"))

AcceptPubkeyHash ==
    /\ AwaitsBitcoin("AwaitingPubkeyHash")
    /\ \/ \E e \in PubkeyHashRefusal : Refuse(e)
       \/ /\ PubkeyHashRefusal = {}
          /\ exec' = [exec EXCEPT !.stage = "AwaitingPrevoutsHash"]
          /\ AskFor(Hash("DoubleSha256", "Prevouts"))

\* Mutant: the stage is not advanced.
AcceptComponentHash_Stays(stage, field, payload, next) ==
    /\ AwaitsBitcoin(stage)
    /\ \/ \E e \in DigestRefusal("DoubleSha256") : Refuse(e)
       \/ /\ DigestRefusal("DoubleSha256") = {}
          /\ exec' = [exec EXCEPT ![field] = answer.bytes]
          /\ AskFor(Hash("DoubleSha256", payload))
AcceptComponentHash(stage, field, payload, next) ==
    /\ AwaitsBitcoin(stage)
    /\ \/ \E e \in DigestRefusal("DoubleSha256") : Refuse(e)
       \/ /\ DigestRefusal("DoubleSha256") = {}
          /\ exec' = [exec EXCEPT ![field] = answer.bytes, !.stage = next]
          /\ AskFor(Hash("DoubleSha256", payload))

AcceptPrevoutsHash ==
    AcceptComponentHash("AwaitingPrevoutsHash", "hash_prevouts", "Sequence",
                        "AwaitingSequenceHash")
AcceptSequenceHash ==
    AcceptComponentHash("AwaitingSequenceHash", "hash_sequence", "Outputs",
                        "AwaitingOutputsHash")

AcceptOutputsHash ==
    /\ AwaitsBitcoin("AwaitingOutputsHash")
    /\ \/ \E e \in DigestRefusal("DoubleSha256") : Refuse(e)
       \/ /\ DigestRefusal("DoubleSha256") = {}
          /\ exec' = [exec EXCEPT
                        !.preimage = Bip143(exec.tx, exec.input_amount,
                                            exec.input_program,
                                            exec.hash_prevouts,
                                            exec.hash_sequence, answer.bytes),
                        !.stage = "AwaitingSignature"]
          /\ AskFor(Sign(exec.key, "Ecdsa", "DoubleSha256", "Bip143"))

\* serialize_signed_transaction; a low, non-zero signature always encodes.
SignedTransaction(tx, signature, public_key) ==
    [type |-> "SignedTransaction", tx |-> tx, signature |-> signature,
     witness |-> public_key]

AcceptSignature ==
    /\ AwaitsBitcoin("AwaitingSignature")
    /\ LET refusal == OrElse(Unless(IsOutput("Signature"),
                                    "UnexpectedCryptoResult"),
                             Unless(/\ answer # None
                                    /\ answer.scheme = "Ecdsa"
                                    /\ answer.recovery_id = None,
                                    "InvalidSignature"))
       IN \/ \E e \in refusal : Refuse(e)
          \/ /\ refusal = {}
             /\ Finish(SignedTransaction(exec.tx, answer.bytes, exec.public_key))

BitcoinNext ==
    \/ BitcoinStart
    \/ exec.chain = "bitcoin" /\ AcceptPublicKeyOnly("AwaitingPublicKey")
    \/ AcceptPublicKey
    \/ AcceptPubkeyHash
    \/ AcceptPrevoutsHash
    \/ AcceptSequenceHash
    \/ AcceptOutputsHash
    \/ AcceptSignature
=============================================================================
