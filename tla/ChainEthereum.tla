---------------------------- MODULE ChainEthereum ----------------------------
(***************************************************************************)
(* The Ethereum adapter (crates/chain-ethereum): a native EIP-1559         *)
(* transfer is reviewed and signed in one operation.  Nothing in the       *)
(* transaction names its signer, so there is no key to compare.            *)
(***************************************************************************)
EXTENDS ChainApi, Naturals, Sequences

CONSTANTS
    Addresses,   \* payloads of twenty bytes
    Scalars      \* payloads that are canonical integers

\* An unsigned transaction is the verdict of the RLP layer on its envelope and
\* the items in it; an empty payload is None.
Field == [chain_id |-> 1, nonce |-> 2, max_priority_fee_per_gas |-> 3,
          max_fee_per_gas |-> 4, gas_limit |-> 5, destination |-> 6,
          value |-> 7, data |-> 8, access_list |-> 9]
ScalarFields == {"chain_id", "nonce", "max_priority_fee_per_gas",
                 "max_fee_per_gas", "gas_limit", "value"}

Item(unsigned, name) == unsigned.fields[Field[name]]

\* RlpItem::uint
ScalarRefusal(item) ==
    OrElse(Unless(~item.is_list, "InvalidRlp"),
           Unless(item.payload \in Scalars \cup {None}, "NonCanonicalRlp"))

\* parse_eip1559
ParseEip1559Refusal(unsigned) ==
    LET destination == Item(unsigned, "destination")
        data == Item(unsigned, "data")
        access_list == Item(unsigned, "access_list")
    IN OrElse(Unless(unsigned.envelope = "Ok", unsigned.envelope),
       OrElse(Unless(Len(unsigned.fields) = 9, "WrongFieldCount"),
       OrElse(Unless(~destination.is_list, "InvalidRlp"),
       OrElse(Unless(destination.payload # None, "ContractCreationUnsupported"),
       OrElse(Unless(destination.payload \in Addresses, "InvalidEnvelope"),
       OrElse(Unless(~data.is_list, "InvalidRlp"),
       OrElse(Unless(data.payload = None, "CalldataUnsupported"),
       OrElse(Unless(access_list.is_list /\ access_list.payload = None,
                     "AccessListUnsupported"),
              UNION {ScalarRefusal(Item(unsigned, name)) : name \in ScalarFields}))))))))

Eip1559Review(request) ==
    [chain |-> "ethereum", kind |-> "SignTransaction", key |-> request.key,
     destination |-> Item(request.unsigned, "destination").payload,
     value |-> Item(request.unsigned, "value").payload,
     unsigned |-> request.unsigned]

EthereumReview(request) ==
    CASE request.kind \in PublicKeyKinds ->
            Ok(PublicKeyReview("ethereum", request))
      [] request.kind = "SignMessage" -> Err("ParserNotImplemented")
      [] request.kind = "SignTransaction" ->
            IF ParseEip1559Refusal(request.unsigned) = {}
            THEN Ok(Eip1559Review(request))
            ELSE Err(CHOOSE e \in ParseEip1559Refusal(request.unsigned) : TRUE)

\* prepare_execution
EthereumExecution(review, context) ==
    IF review.kind \in PublicKeyKinds
    THEN PublicKeyExecution(review, context, "Uncompressed")
    ELSE [chain |-> "ethereum", kind |-> "Eip1559", stage |-> "Ready",
          key |-> BindKey(context, review.key), unsigned |-> review.unsigned]

\* payload()
EthereumPayload(id) == IF id = "Eip1559" THEN exec.unsigned ELSE None

-----------------------------------------------------------------------------
(* Execution::next *)

EthereumStart ==
    /\ exec.chain = "ethereum"
    /\ \/ exec.kind = "PublicKey"
          /\ Start("AwaitingCrypto", DerivePublicKey(exec.key, exec.format))
       \/ exec.kind = "Eip1559"
          /\ Start("AwaitingCrypto",
                   Sign(exec.key, "EcdsaRecoverable", "Keccak256", "Eip1559"))

\* crypto_signature
CryptoSignatureRefusal ==
    OrElse(Unless(IsOutput("Signature"), "UnexpectedCryptoResult"),
    OrElse(Unless(answer # None /\ answer.scheme = "EcdsaRecoverable",
                  "UnexpectedCryptoResult"),
           Unless(answer # None /\ answer.recovery_id \in {0, 1},
                  "InvalidSignature")))

\* finalize_eip1559 copies the fields as they were encoded.
FinalizeEip1559(unsigned, signature) ==
    [type |-> "SignedTransaction", fields |-> unsigned.fields,
     signature |-> signature]

AcceptEip1559Signature ==
    /\ exec.chain = "ethereum" /\ exec.kind = "Eip1559"
    /\ exec.stage = "AwaitingCrypto"
    /\ \/ \E e \in CryptoSignatureRefusal : Refuse(e)
       \/ /\ CryptoSignatureRefusal = {}
          /\ Finish(FinalizeEip1559(exec.unsigned, answer.bytes))

EthereumNext ==
    \/ EthereumStart
    \/ exec.chain = "ethereum" /\ AcceptPublicKeyOnly("AwaitingCrypto")
    \/ AcceptEip1559Signature
=============================================================================
